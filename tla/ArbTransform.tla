---------------------------- MODULE ArbTransform ----------------------------
(***************************************************************************)
(* The transforms for cyclotomic orders that are not powers of two: the    *)
(* Bluestein transform by a convolution modulo another prime, and the      *)
(* reduction by the cyclotomic polynomial with precomputed inverses, whose *)
(* tables are static and kept by modulus.  A program makes calls for       *)
(* several rings.                                                          *)
(*                                                                         *)
(* Vectors are sequences; entry i of the code is member i + 1.  A table    *)
(* whose content follows from a root is the root and the length.           *)
(***************************************************************************)
EXTENDS NumberTheory, TLC

CONSTANTS
    Rings          \* [m |-> order, q |-> modulus, big |-> nttModulus] that are in use

VARIABLES
    cyclotomicPolyMap,     \* modulus -> order of the polynomial
    divisionTable,         \* nttModulus -> root and length of the table
    divisionModulus        \* modulus -> nttModulus of its reverse polynomials

tables == <<cyclotomicPolyMap, divisionTable, divisionModulus>>

\* GetTotient of the orders.
Phi == [m \in {r.m : r \in Rings} |-> GetTotient(m)] @@ <<>>

Stored(f, k, v) == [x \in DOMAIN f \cup {k} |-> IF x = k THEN v ELSE f[x]]

Vector(n, F(_)) == Members([i \in 1..n |-> F(i - 1)])

At(v, i) == v[i + 1]

\* Products and powers within the integers of TLC, of 32 bits; p has 16.
MulMod(a, b, p) == ((((a * (b \div 256)) % p) * 256) + a * (b % 256)) % p

RECURSIVE Exp(_, _, _)
Exp(a, e, p) ==
    IF e = 0 THEN 1
    ELSE LET h == Exp(MulMod(a, a, p), e \div 2, p) IN IF e % 2 = 1 THEN MulMod(a, h, p) ELSE h

\* p is a prime.
Inverse(a, p) == Exp(a, p - 2, p)

(***************************************************************************)
(* NumberTheoreticTransformNat.                                            *)
(***************************************************************************)
RootTable(root, dim, p) == Vector(dim \div 2, LAMBDA i : Exp(root, i, p))

\* Pairs of entries half a block apart, with every power of the root that the
\* length of the block calls for.
Stage(v, logm, logn, omegas, p) ==
    LET half == 2^(logm - 1)
        Omega(j) == At(omegas, (j % half) * 2^(logn - logm))
    IN  Vector(Len(v), LAMBDA j :
            IF j % (2 * half) < half THEN (At(v, j) + MulMod(Omega(j), At(v, j + half), p)) % p
            ELSE (At(v, j - half) - MulMod(Omega(j), At(v, j), p)) % p)

RECURSIVE Stages(_, _, _, _, _)
Stages(v, logm, logn, omegas, p) ==
    IF logm > logn THEN v ELSE Stages(Stage(v, logm, logn, omegas, p), logm + 1, logn, omegas, p)

ForwardTransformIterative(v, omegas, p) ==
    Stages(Vector(Len(v), LAMBDA i : At(v, ReverseBits(i, Log2(Len(v))))), 1, Log2(Len(v)), omegas, p)

Scaled(v, c, p) == Vector(Len(v), LAMBDA i : MulMod(At(v, i), c, p))

InverseTransformIterative(v, omegas, p) ==
    Scaled(ForwardTransformIterative(v, omegas, p), Inverse(Len(v), p), p)

ModMul(v, w, p) == Vector(Len(v), LAMBDA i : MulMod(At(v, i), At(w, i), p))

PadZeros(v, n) == Vector(n, LAMBDA i : IF i < Len(v) THEN At(v, i) ELSE 0)

(***************************************************************************)
(* BluesteinFFTNat.                                                        *)
(***************************************************************************)
NttDim(m) == 2^Log2(2 * m - 1)

\* RootOfUnity of that order, the least one: the caller passes it with the modulus of the NTT.
LeastRoot(dim, p) ==
    LET g == CHOOSE x \in 2..p - 1 : Exp(x, (p - 1) \div 2, p) = p - 1
    IN  Least({Exp(g, (2 * k + 1) * ((p - 1) \div dim), p) : k \in 0..(dim \div 2) - 1})

NttRoot == [x \in {<<r.m, r.big>> : r \in Rings} |-> LeastRoot(NttDim(x[1]), x[2])] @@ <<>>

PreComputePowers(m, root, q) == Vector(m, LAMBDA i : Exp(root, (i * i) % (2 * m), q))

Absolute(x) == IF x < 0 THEN -x ELSE x

PreComputeRBTable(m, root, q) ==
    Vector(2 * m - 1, LAMBDA i : Exp(Inverse(root, q), ((Absolute(i - (m - 1)))^2) % (2 * m), q))

Convolution(v, w, omegas, inverse, p) ==
    InverseTransformIterative(ModMul(ForwardTransformIterative(v, omegas, p),
                                     ForwardTransformIterative(w, omegas, p), p), inverse, p)

\* The squares of the indices turn the transform into a convolution.
BluesteinIn(x, m, root, q, p, nttRoot) ==
    Convolution(PadZeros(x, NttDim(m)), PadZeros(PreComputeRBTable(m, root, q), NttDim(m)),
                RootTable(nttRoot, NttDim(m), p), RootTable(Inverse(nttRoot, p), NttDim(m), p), p)

Resize(v, lo, hi) == SubSeq(v, lo + 1, hi + 1)

ModEq(v, q) == Vector(Len(v), LAMBDA i : At(v, i) % q)

BluesteinOut(Rc, m, root, q) == ModMul(ModEq(Resize(Rc, m - 1, 2 * (m - 1)), q), PreComputePowers(m, root, q), q)

BluesteinForwardTransform(v, m, root, q, p) ==
    BluesteinOut(BluesteinIn(ModMul(v, PreComputePowers(m, root, q), q), m, root, q, p, NttRoot[m, p]), m, root, q)

(***************************************************************************)
(* ChineseRemainderTransformArbNat.                                        *)
(***************************************************************************)
\* GetTotientList, in ascending order.
Ascending(units) == Vector(Cardinality(units), LAMBDA i : CHOOSE x \in units : Cardinality({y \in units : y <= x}) = i + 1)

TotientList(m) == Ascending(GetTotientList(m))

\* The entries of v at the indices of list, and zeros elsewhere.
Spread(v, list, m) ==
    Vector(m, LAMBDA i : IF \E k \in DOMAIN list : list[k] = i
                         THEN v[CHOOSE k \in DOMAIN list : list[k] = i] ELSE 0)

Pad(v, m, forward) == IF forward THEN PadZeros(v, m) ELSE Spread(v, TotientList(m), m)

\* Newton's iteration for the inverse of a power series.
TwiceLess(h, b, q) == Members([j \in 1..Len(b) |-> (2 * Coefficient(h, j) - b[j]) % q])

Monomial(n) == Members([j \in 1..n + 1 |-> IF j = n + 1 THEN 1 ELSE 0])

NextInverse(h, square, poly, q, n) ==
    Members(PolyMod(TwiceLess(h, PolynomialMultiplication(square, poly, q), q), Monomial(n), q))

RECURSIVE InverseLoop(_, _, _, _, _)
InverseLoop(h, poly, q, i, r) ==
    IF i = r \/ Len(h) = 0 THEN h
    ELSE InverseLoop(NextInverse(h, PolynomialMultiplication(h, h, q), poly, q, 2^(i + 1)), poly, q, i + 1, r)

InversePolyMod(poly, q, power) == SubSeq(InverseLoop(<<1>>, poly, q, 0, Log2(power)), 1, power)

DivisionDim(m) == 2 * 2^Log2(m - Phi[m])

\* SetPreComputedNTTDivisionModulus: the root of the division is a power of nttRoot.
DivisionRoot(m, p) == Exp(NttRoot[m, p], NttDim(m) \div DivisionDim(m), p)

ReversePolynomial(m, q) == InversePolyMod(GetCyclotomicPolynomial(m, q), q, m - Phi[m])

\* Division with remainder: the quotient in reverse, its product with the
\* polynomial, and what is left of the low coefficients.
Quotient(high, m, q, p, omegas, inverse) ==
    PadZeros(ModEq(Resize(Convolution(high, PadZeros(ReversePolynomial(m, q), DivisionDim(m)), omegas, inverse, p),
                          0, m - Phi[m] - 1), q),
             DivisionDim(m))

Multiple(quotient, m, q, p, omegas, inverse) ==
    ModEq(Convolution(quotient, PadZeros(GetCyclotomicPolynomial(m, q), DivisionDim(m)), omegas, inverse, p), q)

\* The coefficients from n on, the highest one first.
High(v, n, m) == PadZeros(Vector(m - n, LAMBDA i : At(v, m - 1 - i)), DivisionDim(m))

DropArbitrary(v, m, q, multiple) ==
    Vector(Phi[m], LAMBDA i : (At(v, i) - At(multiple, m - 1 - i)) % q)

DropPrime(v, n, q) == Vector(n, LAMBDA i : (At(v, i) - At(v, n)) % q)

DropTwicePrime(v, n, q) ==
    Vector(n, LAMBDA i : (At(v, i) - At(v, i + n + 1)
                             + (IF i % 2 = 0 THEN -1 ELSE 1) * (At(v, n) - At(v, 2 * n + 1))) % q)

NeedsDivision(m) == Phi[m] + 1 # m /\ 2 * (Phi[m] + 1) # m

(***************************************************************************)
(* Calls.                                                                  *)
(***************************************************************************)
Drop(v, r, omegas, inverse) ==
    LET n == Phi[r.m]
    IN  IF n + 1 = r.m THEN DropPrime(v, n, r.q)
        ELSE IF 2 * (n + 1) = r.m THEN DropTwicePrime(v, n, r.q)
        ELSE DropArbitrary(v, r.m, r.q,
                 Multiple(Quotient(High(v, n, r.m), r.m, r.q, r.big, omegas, inverse), r.m, r.q, r.big, omegas, inverse))

\* RootOfUnity of the order 2m, as the ring comes with it.
RootOf == [r \in Rings |-> Least(PrimitiveRoots(2 * r.m, r.q))] @@ <<>>

Taken(v, list) == Vector(Len(list), LAMBDA i : At(v, At(list, i)))

ForwardTransform(v, r) ==
    Taken(BluesteinForwardTransform(Pad(v, r.m, TRUE), r.m, RootOf[r], r.q, r.big), TotientList(r.m))

\* With the tables of the ring.
InverseTransform(v, r) ==
    Drop(Scaled(BluesteinForwardTransform(Pad(v, r.m, FALSE), r.m, Inverse(RootOf[r], r.q), r.q, r.big),
                Inverse(r.m, r.q), r.q),
         r, RootTable(DivisionRoot(r.m, r.big), DivisionDim(r.m), r.big),
         RootTable(Inverse(DivisionRoot(r.m, r.big), r.big), DivisionDim(r.m), r.big))

Evaluations(v, r) ==
    Vector(Len(v), LAMBDA i : Eval(v, ModExp(RootOf[r], 2 * At(TotientList(r.m), i), r.q), r.q))

\* An element of each ring, its values, and what the transforms make of them.
ElementOf(r) == Polynomial(Phi[r.m], 2, 3, r.q)

ValuesOf == [r \in Rings |-> Evaluations(ElementOf(r), r)] @@ <<>>

ForwardResult == [r \in Rings |-> ForwardTransform(ElementOf(r), r)] @@ <<>>

InverseResult == [r \in Rings |-> InverseTransform(ValuesOf[r], r)] @@ <<>>

ArbInit ==
    /\ CallInit
    /\ cyclotomicPolyMap = <<>> /\ divisionTable = <<>> /\ divisionModulus = <<>>

\* caller: a ring sets its polynomial before the first transform.
SetCylotomicPolynomial(r) ==
    /\ cyclotomicPolyMap' = Stored(cyclotomicPolyMap, r.q, r.m)
    /\ Answer("SetCylotomicPolynomial", {}, {})
    /\ UNCHANGED <<divisionTable, divisionModulus>>

Forward(r) == Answer("ForwardTransform", {ForwardResult[r]}, {ValuesOf[r]}) /\ UNCHANGED tables

\* Mutant: the tables of the nttModulus are taken for those of every modulus.
DivisionTablesOfAnyModulus(r) == r.big \in DOMAIN divisionTable

DivisionTablesFound(r) ==
    /\ r.big \in DOMAIN divisionTable
    /\ r.q \in DOMAIN divisionModulus /\ divisionModulus[r.q] = r.big

\* SetPreComputedNTTDivisionModulus.
DivisionTablesSet(r) ==
    IF ~NeedsDivision(r.m) \/ DivisionTablesFound(r) THEN UNCHANGED tables
    ELSE /\ divisionTable' = Stored(divisionTable, r.big, <<DivisionRoot(r.m, r.big), DivisionDim(r.m)>>)
         /\ divisionModulus' = Stored(divisionModulus, r.q, r.big)
         /\ UNCHANGED cyclotomicPolyMap

\* The tables of a ring of another order, or none, give no meaningful result.
TablesFit(r) ==
    NeedsDivision(r.m) =>
        /\ r.q \in DOMAIN divisionModulus'
        /\ divisionTable'[r.big] = <<DivisionRoot(r.m, r.big), DivisionDim(r.m)>>

\* caller: the length of the division tables covers the order.
InverseOf(r) ==
    /\ NeedsDivision(r.m) => /\ r.q \in DOMAIN cyclotomicPolyMap /\ cyclotomicPolyMap[r.q] = r.m
                             /\ DivisionDim(r.m) >= r.m
    /\ DivisionTablesSet(r)
    /\ Answer("InverseTransform", IF TablesFit(r) THEN {InverseResult[r]} ELSE {}, {ElementOf(r)})

Reset ==
    /\ cyclotomicPolyMap' = <<>> /\ divisionTable' = <<>> /\ divisionModulus' = <<>>
    /\ Answer("Reset", {}, {})

ArbNext ==
    \/ \E r \in Rings : \/ SetCylotomicPolynomial(r)
                        \/ Forward(r) \/ InverseOf(r)
    \/ Reset

ArbSpec == ArbInit /\ [][ArbNext]_<<answers, tables>>

(***************************************************************************)
(* Properties.                                                             *)
(***************************************************************************)
\* The forward transform gives the values at the primitive roots of unity and the
\* inverse the polynomial with these values, whichever rings were used before,
\* also when a ring of the same order shares its nttModulus.
TransformsRight == found = right
=============================================================================
