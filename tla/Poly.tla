-------------------------------- MODULE Poly --------------------------------
(***************************************************************************)
(* PolyImpl: an element of the ring Z_q[X] / (X^N + 1), N a power of two,  *)
(* as its coefficients or as its values at the odd powers of a root of     *)
(* unity, in bit-reversed order, with the number theoretic transforms that *)
(* lead from the one to the other.  A program computes with one element.   *)
(*                                                                         *)
(* An entry may be left at q instead of zero: some operations subtract a   *)
(* zero from the modulus, and others have to cope with it.                 *)
(***************************************************************************)
EXTENDS NumberTheory, TLC

CONSTANTS
    N,             \* ring dimension, at least two
    PolyModuli,    \* the moduli, primes that are one modulo 2N
    Elements,      \* coefficients of the polynomials a program starts from
    Scalars,       \* integers
    Digits,        \* baseBits of a decomposition
    MaxOps         \* bound: operations of a program

VARIABLES
    acc,           \* the element: v its entries, or Empty, fmt, q its modulus
    ideal,         \* the coefficients of the polynomial acc stands for, reduced
    ops            \* operations so far

element == <<acc, ideal, ops>>

Empty == <<>>

Index == 0..N - 1

\* The entries instead of a rule for them: TLC computes each once.
Entered(f) == f @@ Empty

Rev == [i \in Index |-> ReverseBits(i, Log2(N))]

\* RootOfUnity of the order 2N, the least one, as the parameters come with it.
RingRoot == [q \in PolyModuli |-> Least(PrimitiveRoots(2 * N, q))] @@ <<>>

(***************************************************************************)
(* The transforms.                                                         *)
(***************************************************************************)
\* PreCompute: powers of the root, and of its inverse, in bit-reversed order.
Tables == [q \in PolyModuli |-> [i \in Index |-> ModExp(RingRoot[q], Rev[i], q)]]

InverseTables ==
    [q \in PolyModuli |-> [i \in Index |-> ModExp(InverseMod(RingRoot[q], q), Rev[i], q)]]

CycloOrderInverse == [q \in PolyModuli |-> InverseMod(N, q)]

\* A sum and a difference of entries, at most q, that is one of them again.
Fold(sum, q) == IF sum >= q THEN sum - q ELSE sum

Diff(a, b, q) == IF a < b THEN a + q - b ELSE a - b

\* The stage with m blocks; t is half the length of a block.
ForwardStage(v, m, q, skipZeros) ==
    LET t == N \div (2 * m)
        Omega(j) == Tables[q][m + j \div (2 * t)]
    IN  [j \in Index |->
            IF j % (2 * t) < t
            THEN IF skipZeros /\ v[j + t] = 0 THEN v[j] ELSE Fold(v[j] + ((v[j + t] * Omega(j)) % q), q)
            ELSE IF skipZeros /\ v[j] = 0 THEN v[j - t] ELSE Diff(v[j - t], (v[j] * Omega(j)) % q, q)]

RECURSIVE ForwardStages(_, _, _, _)
ForwardStages(v, m, q, skipZeros) ==
    IF m = N THEN v ELSE ForwardStages(Entered(ForwardStage(v, m, q, skipZeros)), 2 * m, q, skipZeros)

ForwardTransformToBitReverseInPlace(v, q) == ForwardStages(v, 1, q, FALSE)

\* The one that leaves its argument alone takes a short cut for zeros.
ForwardTransformToBitReverse(v, q) == ForwardStages(v, 1, q, TRUE)

InverseStage(v, m, q) ==
    LET t == N \div (2 * m)
        Omega(j) == InverseTables[q][m + j \div (2 * t)]
    IN  [j \in Index |->
            IF j % (2 * t) < t THEN Fold(v[j] + v[j + t], q)
            ELSE (Diff(v[j - t], v[j], q) * Omega(j)) % q]

RECURSIVE InverseStages(_, _, _)
InverseStages(v, m, q) ==
    IF m = 0 THEN v ELSE InverseStages(Entered(InverseStage(v, m, q)), m \div 2, q)

Normalized(v, q) == Entered([i \in Index |-> (v[i] * CycloOrderInverse[q]) % q])

InverseTransformFromBitReverseInPlace(v, q) == Normalized(InverseStages(v, N \div 2, q), q)

SwitchFormatOf(x) ==
    IF x.fmt = "COEFFICIENT"
    THEN [x EXCEPT !.fmt = "EVALUATION", !.v = ForwardTransformToBitReverseInPlace(x.v, x.q)]
    ELSE [x EXCEPT !.fmt = "COEFFICIENT", !.v = InverseTransformFromBitReverseInPlace(x.v, x.q)]

SetFormat(x, fmt) == IF x.fmt = fmt THEN x ELSE SwitchFormatOf(x)

(***************************************************************************)
(* Vectors of entries (NativeVectorT).                                     *)
(***************************************************************************)
Entries(x, f) == [x EXCEPT !.v = Entered(f)]

Entrywise(x, F(_)) == Entries(x, [i \in Index |-> F(x.v[i])])

\* ModAddFastEq and ModSubFastEq.
ModAddFast(a, b, q) == Fold(a + b, q)

ModSubFast(a, b, q) == Diff(a, b, q)

\* A scalar that is q itself is not reduced.
Reduced(s, q) == IF s > q THEN s % q ELSE s

IsNegative(a, q) == a > q \div 2

DivideAndRound(a, d) == a \div d + (IF a % d > d \div 2 THEN 1 ELSE 0)

\* The product is one word.  A negative entry that rounds to zero is left at q.
RoundEntry(a, p, d, q) ==
    IF IsNegative(a, q) THEN q - DivideAndRound(Word((q - a) * p), d) ELSE DivideAndRound(Word(a * p), d) % q

\* NativeVectorT::Mod and ModByTwo: the entry is that of a centered number.
ModEntry(a, p, q) ==
    IF p = 2 THEN IF IsNegative(a, q) THEN 1 - (a % 2) ELSE a % 2
    ELSE IF IsNegative(a, q) THEN (a - q) % p ELSE a % p

SwitchModulusEntry(a, q, new) ==
    IF new > q THEN IF IsNegative(a, q) THEN a + new - q ELSE a
    ELSE (a - (IF IsNegative(a, q) THEN q - new ELSE 0)) % new

(***************************************************************************)
(* The polynomial that is meant.                                           *)
(***************************************************************************)
Centered(c, q) == IF 2 * c > q THEN c - q ELSE c

Constant(c) == [i \in Index |-> IF i = 0 THEN c ELSE 0]

AllOnes == [i \in Index |-> 1]

PolyPlus(a, b, q) == [i \in Index |-> (a[i] + b[i]) % q]

PolyScaled(a, c, q) == [i \in Index |-> (a[i] * c) % q]

RECURSIVE SumTo(_, _)
SumTo(f, k) == IF k < 0 THEN 0 ELSE f[k] + SumTo(f, k - 1)

PolyTimes(a, b, q) ==
    Entered([k \in Index |->
        SumTo([i \in Index |-> IF i <= k THEN a[i] * b[k - i] ELSE -(a[i] * b[N + k - i])], N - 1) % q])

\* a(X^k).
PolyAutomorphism(a, k, q) ==
    [j \in Index |->
        SumTo([i \in Index |-> IF (i * k) % (2 * N) = j THEN a[i]
                               ELSE IF (i * k) % (2 * N) = N + j THEN -a[i] ELSE 0], N - 1) % q]

EvalAt(a, x, q) == SumTo([i \in Index |-> a[i] * ModExp(x, i, q)], N - 1) % q

Points == [q \in PolyModuli |-> [j \in Index |-> ModExp(RingRoot[q], 2 * Rev[j] + 1, q)]]

EvaluationsOf(a, q) == Entered([j \in Index |-> EvalAt(a, Points[q][j], q)])

\* An operand of a binary operation, in the format that is wanted.
Operand(e, fmt, q) ==
    [v |-> IF fmt = "COEFFICIENT" THEN [i \in Index |-> e[i] % q]
           ELSE EvaluationsOf(e, q), fmt |-> fmt, q |-> q]

(***************************************************************************)
(* Operations.                                                             *)
(***************************************************************************)
Becomes(x, p) == ops < MaxOps /\ ops' = ops + 1 /\ acc' = x /\ ideal' = p

HasValues == acc.v # Empty

\* PolyImpl(params, format) without values.
CloneParametersOnly == Becomes(Entries(acc, Empty), Constant(0))

SetValues(e, fmt) ==
    Becomes(Operand(e, fmt, acc.q), [i \in Index |-> e[i] % acc.q])

SetValuesToMax ==
    Becomes(Entries(acc, [i \in Index |-> acc.q - 1]),
            PolyScaled(IF acc.fmt = "COEFFICIENT" THEN AllOnes ELSE Constant(1), acc.q - 1, acc.q))

\* operator=(vector of signed numbers): those that are missing are zero.
AssignSigned(s) ==
    LET c(i) == IF i + 1 <= Len(s) THEN s[i + 1] ELSE 0
    IN  Becomes([acc EXCEPT !.v = [i \in Index |-> IF c(i) < 0 THEN acc.q - (-c(i)) ELSE c(i)],
                            !.fmt = "COEFFICIENT"],
                [i \in Index |-> c(i) % acc.q])

\* operator=(uint64_t); caller: at most the modulus.
AssignConstant(c) ==
    /\ c <= acc.q
    /\ Becomes([acc EXCEPT !.v = [i \in Index |-> c], !.fmt = "EVALUATION"], Constant(c % acc.q))

PlusInteger(c) ==
    /\ HasValues
    /\ Becomes(IF acc.fmt = "COEFFICIENT" THEN Entries(acc, [acc.v EXCEPT ![0] = (@ + c) % acc.q])
               ELSE Entrywise(acc, LAMBDA a : ModAddFast(a, Reduced(c, acc.q), acc.q)),
               PolyPlus(ideal, Constant(c), acc.q))

\* From all entries, in both formats.
MinusInteger(c) ==
    /\ HasValues
    /\ Becomes(Entrywise(acc, LAMBDA a : (a - c) % acc.q),
               PolyPlus(ideal, PolyScaled(IF acc.fmt = "COEFFICIENT" THEN AllOnes ELSE Constant(1), -c, acc.q), acc.q))

TimesInteger(c) ==
    /\ HasValues
    /\ Becomes(Entrywise(acc, LAMBDA a : (a * (c % acc.q)) % acc.q), PolyScaled(ideal, c, acc.q))

\* Times(SignedNativeInt); for -q the factor is zero.
TimesSigned(c) ==
    /\ HasValues
    /\ Becomes(Entrywise(acc, LAMBDA a : (a * ((IF c < 0 THEN acc.q - Reduced(-c, acc.q)
                                                 ELSE Reduced(c, acc.q)) % acc.q)) % acc.q),
               PolyScaled(ideal, c, acc.q))

Negate ==
    /\ HasValues
    /\ Becomes(Entrywise(acc, LAMBDA a : (a * (acc.q - 1)) % acc.q), PolyScaled(ideal, -1, acc.q))

AddILElementOne ==
    /\ HasValues
    /\ Becomes(Entrywise(acc, LAMBDA a : (a + 1) % acc.q),
               PolyPlus(ideal, IF acc.fmt = "COEFFICIENT" THEN AllOnes ELSE Constant(1), acc.q))

\* operator+= and Plus; caller: both operands have the same format.
PlusEq(e) ==
    LET y == Operand(e, acc.fmt, acc.q)
    IN  Becomes(IF HasValues THEN Entries(acc, [i \in Index |-> ModAddFast(acc.v[i], y.v[i], acc.q)])
                ELSE Entries(acc, y.v),
                PolyPlus(ideal, e, acc.q))

MinusEq(e) ==
    LET y == Operand(e, acc.fmt, acc.q)
        x(i) == IF HasValues THEN acc.v[i] ELSE 0
    IN  Becomes(Entries(acc, [i \in Index |-> ModSubFast(x(i), y.v[i], acc.q)]),
                PolyPlus(ideal, PolyScaled(e, -1, acc.q), acc.q))

TimesEq(e) ==
    LET y == Operand(e, "EVALUATION", acc.q)
    IN  /\ acc.fmt = "EVALUATION"
        /\ Becomes(Entries(acc, IF HasValues THEN [i \in Index |-> (acc.v[i] * y.v[i]) % acc.q]
                                ELSE [i \in Index |-> 0]),
                   PolyTimes(ideal, e, acc.q))

\* InverseExists looks for zeros, and not for entries that were left at q.
InverseExists == \A i \in Index : acc.v[i] # 0

\* caller: no entry was left at q.
MultiplicativeInverse ==
    /\ acc.fmt = "EVALUATION" /\ HasValues /\ InverseExists
    /\ \A i \in Index : acc.v[i] # acc.q
    /\ \E x \in {Entrywise(acc, LAMBDA a : InverseMod(a, acc.q))} :
          \E p \in {InverseTransformFromBitReverseInPlace(x.v, acc.q)} :
             Becomes(x, IF PolyTimes(ideal, p, acc.q) = Constant(1) THEN p ELSE Constant(0))

(***************************************************************************)
(* Automorphisms.                                                          *)
(***************************************************************************)
\* The constant coefficient stays; a zero that changes its sign becomes q.
CoefficientAutomorphism(v, k, q) ==
    [j \in Index |->
        IF j = 0 THEN v[0]
        ELSE LET i == CHOOSE x \in 1..N - 1 : (x * k) % N = j
             IN  IF ((i * k) \div N) % 2 = 1 THEN q - v[i] ELSE v[i]]

\* AutomorphismTransform computes the map that PrecomputeAutoMap does.
AutoMaps == [k \in {i \in 1..2 * N - 1 : i % 2 = 1} |-> Entered(PrecomputeAutoMap(N, k))]

EvaluationAutomorphism(v, k) == [j \in Index |-> v[AutoMaps[k][j]]]

AutomorphismTransform(k) ==
    /\ HasValues /\ k % 2 = 1
    /\ Becomes(Entries(acc, IF acc.fmt = "EVALUATION" THEN EvaluationAutomorphism(acc.v, k)
                            ELSE CoefficientAutomorphism(acc.v, k, acc.q)),
               PolyAutomorphism(ideal, k, acc.q))

PrecomputedAutomorphism(k) ==
    /\ HasValues /\ k % 2 = 1 /\ acc.fmt = "EVALUATION"
    /\ Becomes(Entries(acc, [j \in Index |-> acc.v[PrecomputeAutoMap(N, k)[j]]]),
               PolyAutomorphism(ideal, k, acc.q))

\* a(1/X).
Transpose ==
    /\ HasValues /\ acc.fmt = "EVALUATION"
    /\ Becomes(Entries(acc, EvaluationAutomorphism(acc.v, 2 * N - 1)),
               PolyAutomorphism(ideal, 2 * N - 1, acc.q))

(***************************************************************************)
(* Operations on the coefficients as numbers.                              *)
(***************************************************************************)
HasCoefficients == HasValues /\ acc.fmt = "COEFFICIENT"

\* To the nearest integer; a half goes towards zero.
Rounded(c, p, d) ==
    IF c < 0 THEN -((-2 * c * p + d - 1) \div (2 * d)) ELSE (2 * c * p + d - 1) \div (2 * d)

\* caller: p is at most d, and its products with the centered entries are words.
MultiplyAndRound(p, d) ==
    /\ HasCoefficients /\ d > 0 /\ p <= d /\ (acc.q \div 2) * p < 2^WordBits
    /\ Becomes(Entrywise(acc, LAMBDA a : RoundEntry(a, p, d, acc.q)),
               [i \in Index |-> Rounded(Centered(ideal[i], acc.q), p, d) % acc.q])

\* The modulus of the element stays.
Mod(p) ==
    /\ HasCoefficients /\ p \in 2..acc.q
    /\ Becomes(Entrywise(acc, LAMBDA a : ModEntry(a, p, acc.q)),
               [i \in Index |-> Centered(ideal[i], acc.q) % p])

\* Without values the parameters stay as well.
SwitchModulus(new) ==
    \/ /\ HasCoefficients
       /\ Becomes([acc EXCEPT !.v = [i \in Index |-> SwitchModulusEntry(acc.v[i], acc.q, new)], !.q = new],
                  [i \in Index |-> Centered(ideal[i], acc.q) % new])
    \/ ~HasValues /\ Becomes(acc, ideal)

MakeSparse(w) ==
    \/ /\ HasCoefficients /\ w > 0
       /\ Becomes(Entries(acc, [i \in Index |-> IF i % w # 0 THEN 0 ELSE acc.v[i]]),
                  [i \in Index |-> IF i % w # 0 THEN 0 ELSE ideal[i]])
    \/ ~HasValues /\ Becomes(acc, ideal)

SwitchFormat == HasValues /\ Becomes(SwitchFormatOf(acc), ideal)

\* The transform of a copy, as the encodings use it.
Transformed ==
    /\ HasCoefficients
    /\ Becomes([acc EXCEPT !.fmt = "EVALUATION", !.v = ForwardTransformToBitReverse(acc.v, acc.q)], ideal)

(***************************************************************************)
(* Digits, powers and the norm.                                            *)
(***************************************************************************)
Bits(q) == CHOOSE k \in 1..q : 2^(k - 1) <= q /\ q < 2^k

\* Mutant: the last digit is dropped when it is not a whole one.
WindowsWhole(b, q) == Bits(q) \div b

Windows(b, q) == Bits(q) \div b + (IF Bits(q) % b > 0 THEN 1 ELSE 0)

GetDigitAtIndexForBase(a, i, b) == (a \div 2^(i * b)) % 2^b

BaseDecompose(x, b) ==
    [i \in 0..Windows(b, x.q) - 1 |->
        SwitchFormatOf(Entrywise(SetFormat(x, "COEFFICIENT"),
                                 LAMBDA a : GetDigitAtIndexForBase(a, i, b)))]

PowersOfBase(x, b) ==
    [i \in 0..Windows(b, x.q) - 1 |-> Entrywise(x, LAMBDA a : (a * ModExp(2, i * b, x.q)) % x.q)]

Norm(x) ==
    LET size(a) == IF IsNegative(a, x.q) THEN x.q - a ELSE a
        sizes == {size(x.v[i]) : i \in Index}
    IN  CHOOSE a \in sizes : \A b \in sizes : a >= b

ElementInit ==
    /\ \E q \in PolyModuli, e \in Elements, fmt \in {"COEFFICIENT", "EVALUATION"} :
          acc = Operand(e, fmt, q) /\ ideal = [i \in Index |-> e[i] % q]
    /\ ops = 0

ElementNext ==
    \/ CloneParametersOnly \/ SetValuesToMax \/ Negate \/ AddILElementOne
    \/ MultiplicativeInverse \/ Transpose \/ SwitchFormat \/ Transformed
    \/ \E e \in Elements, fmt \in {"COEFFICIENT", "EVALUATION"} : SetValues(e, fmt)
    \/ \E e \in Elements : PlusEq(e) \/ MinusEq(e) \/ TimesEq(e) \/ AssignSigned([i \in 1..N - 1 |-> e[i - 1] - e[i]])
    \/ \E c \in Scalars : \/ PlusInteger(c) \/ MinusInteger(c) \/ TimesInteger(c) \/ AssignConstant(c)
                          \/ TimesSigned(c) \/ TimesSigned(-c) \/ Mod(c) \/ MakeSparse(c)
    \/ \E p, d \in Scalars : MultiplyAndRound(p, d)
    \/ \E k \in 1..2 * N - 1 : AutomorphismTransform(k) \/ PrecomputedAutomorphism(k)
    \/ \E q \in PolyModuli : SwitchModulus(q)

ElementSpec == ElementInit /\ [][ElementNext]_element

(***************************************************************************)
(* Properties.                                                             *)
(***************************************************************************)
\* After any sequence of operations the entries stand for the polynomial that
\* the program is meant to have computed, in either format, and no entry exceeds
\* the modulus.  Entries that were left at the modulus do no harm later.
Represents ==
    IF HasValues
    THEN \A i \in Index :
            /\ acc.v[i] \in 0..acc.q
            /\ acc.v[i] % acc.q = (IF acc.fmt = "COEFFICIENT" THEN ideal[i]
                                   ELSE EvaluationsOf(ideal, acc.q)[i])
    ELSE ideal = Constant(0)

RECURSIVE InnerProduct(_, _, _, _)
InnerProduct(a, b, k, q) ==
    IF k < 0 THEN [i \in Index |-> 0]
    ELSE LET rest == InnerProduct(a, b, k - 1, q)
         IN  Entered([i \in Index |-> (a[k].v[i] * b[k].v[i] + rest[i]) % q])

\* What key switching relies on: the digits of an element times the powers of
\* the base of another one add up to their product, also for entries at q and
\* for a base whose digits do not divide the bits of the modulus; and the digits
\* are small.
DigitsTimesPowers ==
    HasValues =>
        \A b \in Digits, e \in Elements :
            LET x == Entered(BaseDecompose(acc, b))
                y == Entered(PowersOfBase(Operand(e, "EVALUATION", acc.q), b))
            IN  /\ InnerProduct(x, y, Windows(b, acc.q) - 1, acc.q)
                       = EvaluationsOf(PolyTimes(ideal, e, acc.q), acc.q)
                /\ \A i \in DOMAIN x : Norm(SetFormat(x[i], "COEFFICIENT")) < 2^b
=============================================================================
