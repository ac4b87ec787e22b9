---------------------------- MODULE NumberTheory ----------------------------
(***************************************************************************)
(* Number theory behind the choice of parameters: primality, factors,      *)
(* generators, roots of unity, primes for moduli, cyclotomic polynomials   *)
(* and automorphism indices.  What depends on random draws is the set of   *)
(* its outcomes.  found is what the last call may return, right what it is *)
(* to return, both with the name of the function.                          *)
(*                                                                         *)
(* Polynomials are sequences of coefficients, the constant one first.      *)
(* Arithmetic modulo a number is exact here.                               *)
(***************************************************************************)
EXTENDS Integers, Sequences, FiniteSets

CONSTANTS
    WordBits,          \* of NativeInteger
    Numbers,           \* arguments
    Starts,            \* numbers that primes are searched from
    PrimeBits,         \* FirstPrime: bits
    Orders             \* cyclotomic orders

VARIABLES found, right

answers == <<found, right>>

Word(x) == x % 2^WordBits

RECURSIVE ModExp(_, _, _)
ModExp(a, e, m) ==
    IF e = 0 THEN 1 % m
    ELSE LET h == ModExp((a * a) % m, e \div 2, m) IN IF e % 2 = 1 THEN (a * h) % m ELSE h

\* Numbers of one chunk: for 1 the only chunk is left at zero.
RNG(n) == IF n = 1 THEN {0} ELSE 0..n

\* Reference definitions.
Primes == {n \in 2..2^WordBits - 1 : \A d \in 2..n - 1 : n % d # 0}

PrimeDivisors(n) == {d \in Primes : n % d = 0}

(***************************************************************************)
(* Primality and factors.                                                  *)
(***************************************************************************)
RECURSIVE GreatestCommonDivisor(_, _)
GreatestCommonDivisor(a, b) == IF b = 0 THEN a ELSE GreatestCommonDivisor(b, a % b)

\* The loop of WitnessFunction: s squarings that are left.
RECURSIVE WitnessLoop(_, _, _)
WitnessLoop(mod, s, p) ==
    IF s = 0 THEN mod # 1
    ELSE LET next == (mod * mod) % p
         IN  (next = 1 /\ mod # 1 /\ mod # p - 1) \/ WitnessLoop(next, s - 1, p)

\* Mutant: one squaring less.
WitnessShort(a, d, s, p) == WitnessLoop(ModExp(a, d, p), s - 1, p)

WitnessFunction(a, d, s, p) == WitnessLoop(ModExp(a, d, p), s, p)

RECURSIVE TwosOf(_)
TwosOf(d) == IF d % 2 = 0 THEN 1 + TwosOf(d \div 2) ELSE 0

IsWitness(a, p) == WitnessFunction(a, (p - 1) \div 2^TwosOf(p - 1), TwosOf(p - 1), p)

\* Random bases; a hundred of them miss the witnesses only if there are few.
Bases(p) == {(r + 2) % p : r \in RNG(p - 3)}

MillerRabinPrimalityTest(p) ==
    /\ p >= 2 /\ (p = 2 \/ p % 2 # 0)
    /\ p \in {2, 3, 5} \/ \A a \in Bases(p) : ~IsWitness(a, p)

\* x goes one step, xx two, until their difference has a common divisor with n.
RECURSIVE PollardLoop(_, _, _, _, _)
PollardLoop(d, x, xx, c, n) ==
    LET f(y) == (y * y + c) % n
    IN  IF d # 1 THEN d
        ELSE CHOOSE e \in {PollardLoop(GreatestCommonDivisor(IF y > yy THEN y - yy ELSE yy - y, n), y, yy, c, n) :
                              y \in {f(x)}, yy \in {f(f(xx))}} : TRUE

PollardRhoFactorization(n) ==
    IF n % 2 = 0 THEN {2} ELSE {PollardLoop(1, x, x, c, n) : c \in RNG(n), x \in RNG(n)}

\* A divisor that is n itself leads to another attempt.
RECURSIVE PrimeFactorize(_)
PrimeFactorize(n) ==
    IF n \in {0, 1} THEN {{}}
    ELSE IF MillerRabinPrimalityTest(n) THEN {{n}}
    ELSE UNION {{a \cup b : a \in PrimeFactorize(d), b \in PrimeFactorize(n \div d)} :
                   d \in PollardRhoFactorization(n) \ {n}}

RECURSIVE Product(_)
Product(S) == IF S = {} THEN 1 ELSE LET x == CHOOSE y \in S : TRUE IN x * Product(S \ {x})

\* Callers go on with what PrimeFactorize is found to return below.
Factors(n) == PrimeDivisors(n)

TotientFrom(n, factors) == (n \div Product(factors)) * Product({r - 1 : r \in factors})

GetTotient(n) == TotientFrom(n, Factors(n))

GetTotientList(n) == {i \in 1..n - 1 : GreatestCommonDivisor(i, n) = 1}

(***************************************************************************)
(* Generators and roots of unity.                                          *)
(***************************************************************************)
Generates(g, order, factors, q) == \A f \in factors : ModExp(g, order \div f, q) # 1

Generators(G, order, factors, q) == {g \in G : Generates(g, order, factors, q)}

FindGenerator(q) == Generators({r + 1 : r \in RNG(q - 2)}, q - 1, Factors(q - 1), q)

CyclicGenerators(order, q) ==
    Generators({g \in {r + 1 : r \in RNG(order)} : GreatestCommonDivisor(g, q) = 1},
               order, Factors(order), q)

FindGeneratorCyclic(q) == CyclicGenerators(GetTotient(q), q)

\* Mutant: the powers that are tried are not only those coprime to m.
RootOfAnyOrder(m, q, g) ==
    LET root  == ModExp(g, (q - 1) \div m, q)
        roots == {ModExp(root, k, q) : k \in 1..m - 1}
    IN  CHOOSE x \in roots : \A y \in roots : x <= y

\* The least of the powers of one primitive root that are primitive too.
RootOfUnity(m, q, g) ==
    LET root  == ModExp(g, (q - 1) \div m, q)
        roots == {ModExp(root, k, q) : k \in GetTotientList(m)}
    IN  CHOOSE x \in roots : \A y \in roots : x <= y

(***************************************************************************)
(* Primes that are one modulo m.  None stands for the exception.           *)
(***************************************************************************)
None == 0

RECURSIVE GrowLoop(_, _)
GrowLoop(new, m) ==
    IF MillerRabinPrimalityTest(new) THEN new
    ELSE IF Word(new + m) < new THEN None ELSE GrowLoop(Word(new + m), m)

FirstPrime(bits, m) ==
    LET r     == ModExp(2, bits, m)
        first == Word(2^bits + (IF r > 0 THEN m - r ELSE 0) + 1)
    IN  IF first < 2^bits THEN None ELSE GrowLoop(first, m)

RECURSIVE NextLoop(_, _, _)
NextLoop(new, q, m) ==
    IF Word(new + m) < q THEN None
    ELSE IF MillerRabinPrimalityTest(Word(new + m)) THEN Word(new + m)
    ELSE NextLoop(Word(new + m), q, m)

NextPrime(q, m) == NextLoop(q, q, m)

\* Below zero the candidate wraps around, and is larger than q.
RECURSIVE PreviousLoop(_, _, _)
PreviousLoop(new, q, m) ==
    IF MillerRabinPrimalityTest(new) THEN new
    ELSE IF Word(new - m) > q THEN None ELSE PreviousLoop(Word(new - m), q, m)

PreviousPrime(q, m) == PreviousLoop(Word(q - m), q, m)

(***************************************************************************)
(* Polynomials.                                                            *)
(***************************************************************************)
Coefficient(p, i) == IF i \in DOMAIN p THEN p[i] ELSE 0

RECURSIVE SumOver(_, _)
SumOver(f, S) == IF S = {} THEN 0 ELSE LET i == CHOOSE j \in S : TRUE IN f[i] + SumOver(f, S \ {i})

\* The members of a sequence instead of a rule for them: TLC computes each once.
Members(s) == s \o <<>>

PolyMult(a, b) ==
    Members([k \in 1..Len(a) + Len(b) - 1 |->
                SumOver([i \in DOMAIN a |-> a[i] * Coefficient(b, k + 1 - i)], DOMAIN a)])

\* Division by a monic divisor, over the integers when m is zero.  In each run
\* the leading coefficient is taken off and the dividend moves up one place.
DivideStep(r, d, m) ==
    LET n == Len(r)
        Value(k) == r[k] - Coefficient(d, Len(d) - (n - k)) * r[n]
    IN  <<r[1]>> \o [k \in 1..n - 1 |-> IF m = 0 THEN Value(k) ELSE Value(k) % m]

RECURSIVE DivideRuns(_, _, _, _, _), DivideFrom(_, _, _, _, _)
DivideRuns(r, d, m, runs, tops) ==
    IF runs = 0 THEN [rest |-> r, tops |-> tops]
    ELSE DivideFrom(DivideStep(r, d, m), d, m, runs - 1, tops)

DivideFrom(r, d, m, runs, tops) == DivideRuns(r, d, m, runs, Append(tops, r[Len(r)]))

\* The quotient: one, and the leading coefficients after each run but the last,
\* from the highest power down.
PolyQuotient(p, d) ==
    LET runs == Len(p) - Len(d) + 1
    IN  SubSeq(<<1>> \o DivideRuns(p, d, 0, runs, <<>>).tops, 1, runs)

PolyMod(p, d, m) ==
    LET runs == Len(p) - Len(d) + 1
    IN  SubSeq(DivideRuns(p, d, m, runs, <<>>).rest, runs + 1, Len(p))

\* Each product is a word before it is added and the sum reduced.
RECURSIVE MultiplyLoop(_, _, _, _, _)
MultiplyLoop(a, b, k, i, m) ==
    IF i = 0 THEN 0
    ELSE Word(Word(a[i] * Coefficient(b, k + 1 - i)) + MultiplyLoop(a, b, k, i - 1, m)) % m

PolynomialMultiplication(a, b, m) ==
    Members([k \in 1..Len(a) + Len(b) - 1 |-> MultiplyLoop(a, b, k, Len(a), m)])

\* p(X^power).
PolynomialPower(p, power) ==
    Members([k \in 1..(Len(p) - 1) * power + 1 |->
                IF (k - 1) % power = 0 THEN p[(k - 1) \div power + 1] ELSE 0])

RECURSIVE GetCyclotomicPolynomialRecursive(_), CyclotomicProduct(_)
GetCyclotomicPolynomialRecursive(m) ==
    IF m = 1 THEN <<-1, 1>>
    ELSE IF \A i \in 2..m - 1 : m % i # 0 THEN [i \in 1..m |-> 1]
    ELSE PolyQuotient([i \in 1..m + 1 |-> IF i = 1 THEN -1 ELSE IF i = m + 1 THEN 1 ELSE 0],
                      CyclotomicProduct({d \in 1..m - 1 : m % d = 0}))

CyclotomicProduct(S) ==
    IF S = {} THEN <<1>>
    ELSE LET d == CHOOSE x \in S : TRUE
         IN  PolyMult(CyclotomicProduct(S \ {d}), GetCyclotomicPolynomialRecursive(d))

ToModulus(p, q) == Members([i \in DOMAIN p |-> IF p[i] > -1 THEN p[i] ELSE q + p[i]])

GetCyclotomicPolynomial(m, q) == ToModulus(GetCyclotomicPolynomialRecursive(m), q)

\* Horner's rule; the remainder of Barrett's reduction may be q itself.
RECURSIVE SyntheticLoop(_, _, _, _)
SyntheticLoop(p, a, q, i) ==
    IF i = Len(p) THEN <<p[i]>>
    ELSE LET rest == SyntheticLoop(p, a, q, i + 1)
             val  == p[i] + a * rest[1]
         IN  <<IF val >= q /\ val % q = 0 THEN q ELSE val % q>> \o rest

SyntheticRemainder(p, a, q) == SyntheticLoop(p, a, q, 1)[1]

SyntheticPolyRemainder(p, S, q) == [a \in S |-> SyntheticRemainder(p, a, q)]

SyntheticPolynomialDivision(p, a, q) == Tail(SyntheticLoop(p, a, q, 1))

(***************************************************************************)
(* Automorphism indices.                                                   *)
(***************************************************************************)
InverseMod(a, m) == CHOOSE x \in 0..m - 1 : (a * x) % m = 1

\* Index i is a power of five, in the second half times minus one.
FindAutomorphismIndex2n(i, m) ==
    LET n  == m \div 2
        k  == IF i < 0 THEN -i ELSE i
        f1 == IF i < 0 THEN InverseMod(5, m) ELSE 5
        f2 == IF i < 0 THEN InverseMod(m - 1, m) ELSE m - 1
    IN  IF i = 0 THEN 1
        ELSE IF k < n \div 2 THEN (f1 * ModExp(f1, k - 1, m)) % m
        ELSE (f2 * ModExp(f1, k - n \div 2, m)) % m

FindAutomorphismIndex2nComplex(i, m) ==
    LET k == IF i < 0 THEN -i ELSE i
    IN  IF i = 0 THEN 1
        ELSE IF i = m - 1 THEN i
        ELSE ModExp(IF i < 0 THEN InverseMod(5, m) ELSE 5, k, m)

\* The last msb bits of num, in reverse.
RECURSIVE ReverseBits(_, _)
ReverseBits(num, msb) ==
    IF msb = 0 THEN 0 ELSE (num % 2) * 2^(msb - 1) + ReverseBits(num \div 2, msb - 1)

RECURSIVE Log2(_)
Log2(n) == IF n <= 1 THEN 0 ELSE 1 + Log2((n + 1) \div 2)     \* rounded up

\* Mutant: without the bit reversal of the source.
AutoMapUnreversed(n, k) == [i \in 0..n - 1 |-> (((2 * ReverseBits(i, Log2(n)) + 1) * k) % (2 * n)) \div 2]

\* Entry i of the result is the value at the power (2 * reversed i + 1) * k.
PrecomputeAutoMap(n, k) ==
    [i \in 0..n - 1 |-> ReverseBits((((2 * ReverseBits(i, Log2(n)) + 1) * k) % (2 * n)) \div 2, Log2(n))]

(***************************************************************************)
(* Calls, and what they are to return.                                     *)
(***************************************************************************)
Answer(name, outcomes, expected) ==
    found' = {name} \X outcomes /\ right' = {name} \X expected

CallInit == found = {} /\ right = {}

Units(m) == {x \in 1..m : \A d \in PrimeDivisors(m) : x % d # 0}

Powers(g, q) == {ModExp(g, k, q) : k \in 1..q}

GeneratorsOf(U, q) == {g \in U : Powers(g, q) = U}

Least(S) == IF S = {} THEN None ELSE CHOOSE x \in S : \A y \in S : x <= y

Greatest(S) == IF S = {} THEN None ELSE CHOOSE x \in S : \A y \in S : x >= y

Eval(p, x, q) == SumOver([i \in DOMAIN p |-> p[i] * ModExp(x, i - 1, q)], DOMAIN p) % q

PrimalityCall(n) == Answer("MillerRabinPrimalityTest", {MillerRabinPrimalityTest(n)}, {n \in Primes})

\* Of the bases that may be drawn for a composite number, at most a quarter
\* fail to reveal it: a hundred draws do.
LiarsCall(n) ==
    /\ n > 5 /\ n % 2 = 1 /\ n \notin Primes
    /\ Answer("WitnessFunction",
              {4 * Cardinality({a \in Bases(n) : ~IsWitness(a, n)}) <= Cardinality(Bases(n))}, {TRUE})

FactorCall(n) == n > 0 /\ Answer("PrimeFactorize", PrimeFactorize(n), {PrimeDivisors(n)})

TotientCall(n) == n > 1 /\ Answer("GetTotient", {GetTotient(n)}, {Cardinality(Units(n))})

\* caller: a prime other than 2 and 3, for which no draw ends the search.
GeneratorCall(q) ==
    q \in Primes /\ q > 3 /\ Answer("FindGenerator", FindGenerator(q), GeneratorsOf(1..q - 1, q))

\* caller: a cyclic group, and not that of 6, for which no draw ends the search.
GeneratorCyclicCall(q) ==
    /\ q > 2 /\ q # 6 /\ GeneratorsOf(Units(q), q) # {}
    /\ Answer("FindGeneratorCyclic", FindGeneratorCyclic(q), GeneratorsOf(Units(q), q))

PrimitiveRoots(m, q) == {x \in 1..q - 1 : \A k \in 1..m : ModExp(x, k, q) = 1 <=> k = m}

\* The root does not depend on the generator that was drawn.
RootCall(m, q) ==
    /\ q \in Primes /\ q > 3 /\ m > 1 /\ (q - 1) % m = 0
    /\ Answer("RootOfUnity", {RootOfUnity(m, q, g) : g \in FindGenerator(q)},
              {Least(PrimitiveRoots(m, q))})

Candidates(m) == {q \in Primes : q % m = 1}

FirstPrimeCall(bits, m) ==
    Answer("FirstPrime", {FirstPrime(bits, m)}, {Least({q \in Candidates(m) : q > 2^bits})})

NextPrimeCall(q, m) ==
    q % m = 1 /\ Answer("NextPrime", {NextPrime(q, m)}, {Least({p \in Candidates(m) : p > q})})

\* caller: q is larger than m.
PreviousPrimeCall(q, m) ==
    /\ q > m /\ q % m = 1
    /\ Answer("PreviousPrime", {PreviousPrime(q, m)}, {Greatest({p \in Candidates(m) : p < q})})

RootsOf(p, q) == {x \in 1..q - 1 : Eval(p, x, q) = 0}

Summary(p, q) == <<Len(p) - 1, p[Len(p)], RootsOf(p, q)>>

\* The roots of the polynomial are the primitive roots of unity.
CyclotomicCall(m, q) ==
    /\ q \in Primes /\ q > 3 /\ m > 1 /\ (q - 1) % m = 0
    /\ Answer("GetCyclotomicPolynomial", {Summary(GetCyclotomicPolynomial(m, q), q)},
              {<<Cardinality(Units(m)), 1, PrimitiveRoots(m, q)>>})

Values(p, S, q) == [x \in S |-> Eval(p, x, q)]

\* A remainder has the values of the dividend where the divisor vanishes.
PolyModCall(p, m, q) ==
    /\ q \in Primes /\ q > 3 /\ m > 1 /\ (q - 1) % m = 0 /\ Len(p) >= Cardinality(Units(m)) + 1
    /\ Answer("PolyMod",
              {Values(Members(PolyMod(p, GetCyclotomicPolynomial(m, q), q)), PrimitiveRoots(m, q), q)},
              {Values(p, PrimitiveRoots(m, q), q)})

\* p = quotient * (X - a) + remainder, and the remainder is p(a).
SyntheticCall(p, a, q) ==
    LET r == SyntheticRemainder(p, a, q)
        t == SyntheticPolynomialDivision(p, a, q)
    IN  Answer("SyntheticPolynomialDivision",
               {<<r % q, [i \in 1..Len(p) |-> (Coefficient(PolyMult(t, <<-a, 1>>), i)
                                                  + (IF i = 1 THEN r ELSE 0)) % q]>>},
               {<<Eval(p, a, q), [i \in 1..Len(p) |-> p[i] % q]>>})

\* caller: the modulus has half the bits of a word.
MultiplicationCall(a, b, q) ==
    Answer("PolynomialMultiplication",
           {Values(PolynomialMultiplication(a, b, q), 0..q - 1, q)},
           {[x \in 0..q - 1 |-> (Eval(a, x, q) * Eval(b, x, q)) % q]})

PowerCall(p, power, q) ==
    Answer("PolynomialPower",
           {[x \in 0..q - 1 |-> SyntheticPolyRemainder(PolynomialPower(p, power), 0..q - 1, q)[x] % q]},
           {[x \in 0..q - 1 |-> Eval(p, ModExp(x, power, q), q)]})

Half(m) == m \div 4

\* The indices of the rotations are all the units; opposite rotations cancel,
\* rotations within a row add up, and those of CKKS agree with them.
AutomorphismCall(m, i, j) ==
    LET Index(k) == FindAutomorphismIndex2n(k, m)
    IN  Answer("FindAutomorphismIndex",
               {<<{Index(k) : k \in 0..2 * Half(m) - 1}, (Index(i) * Index(-i)) % m,
                  (Index(i % Half(m)) * Index(j % Half(m))) % m,
                  FindAutomorphismIndex2nComplex(i % Half(m), m)>>},
               {<<Units(m), 1, ModExp(5, (i % Half(m)) + (j % Half(m)), m), Index(i % Half(m))>>})

\* Polynomials to compute with.
Polynomial(n, i, j, q) == Members([k \in 1..n |-> (i * k + k^j) % q])

Call ==
    \/ \E n \in Numbers : \/ PrimalityCall(n) \/ LiarsCall(n) \/ FactorCall(n) \/ TotientCall(n)
                          \/ GeneratorCall(n) \/ GeneratorCyclicCall(n)
    \/ \E n \in Numbers, m \in Orders :
          RootCall(m, n) \/ CyclotomicCall(m, n)
    \/ \E n \in Starts, m \in Orders : NextPrimeCall(n, m) \/ PreviousPrimeCall(n, m)
    \/ \E b \in PrimeBits, m \in Orders : FirstPrimeCall(b, m)
    \/ \E m \in Orders, q \in {31, 61}, i \in 1..4, j \in 2..7 : PolyModCall(Polynomial(9, i, j, q), m, q)
    \/ \E a \in 0..6, i \in 1..4, j \in 2..5 : SyntheticCall(Polynomial(5, i, j, 7), a, 7)
    \/ \E i \in 1..4, j \in 2..5 : \/ MultiplicationCall(Polynomial(4, i, j, 13), Polynomial(3, j, i, 13), 13)
                                   \/ PowerCall(Polynomial(4, i, j, 13), j, 13)
    \/ \E e \in 3..5, i, j \in 1..2^5 - 1 :
          i < 2^(e - 1) /\ j < 2^(e - 1) /\ AutomorphismCall(2^e, i, j)

\* No call leaves anything behind: a behaviour makes one.
CallNext == right = {} /\ Call

CallSpec == CallInit /\ [][CallNext]_answers

(***************************************************************************)
(* Properties.                                                             *)
(***************************************************************************)
\* Every outcome of a call is right, whatever was drawn, and a search that ends
\* only on success can succeed: the primality test errs on no number and can be
\* relied on after a hundred draws, factorization and the searches for
\* generators end with the right answer, the root of unity is the same for every
\* draw, the primes are the nearest ones or an exception, wrap-around included.
RightAnswers == found \subseteq right /\ (right # {} => found # {})
=============================================================================
