---------------------------- MODULE NativeInteger ----------------------------
(***************************************************************************)
(* NativeIntegerT: unsigned integers of one machine word and arithmetic    *)
(* modulo a word-sized modulus.  A program works on one word, acc; nat is  *)
(* what a program that computes with natural numbers has in its place.     *)
(*                                                                         *)
(* The InPlace (Eq) form of an operation computes what the other form      *)
(* does.  Words are numbers modulo 2^WordBits, pairs of words (typeD,      *)
(* DNativeInt) numbers modulo 4^WordBits.                                  *)
(***************************************************************************)
EXTENDS Integers

CONSTANTS
    WordBits,          \* MaxBits()
    Operand,           \* the other operands
    Modulus,           \* the moduli, four bits shorter than a word
    MaxExponent,       \* bound: exponents
    AnyDividend        \* Barrett reduction is given multiples of the modulus too

VARIABLES acc, nat

vars == <<acc, nat>>

Word(x) == x % 2^WordBits

DWord(x) == x % 4^WordBits

SignedWord(x) == IF x >= 2^(WordBits - 1) THEN x - 2^WordBits ELSE x

RECURSIVE GetMSB(_)
GetMSB(x) == IF x = 0 THEN 0 ELSE 1 + GetMSB(x \div 2)

\* The product of two words as a pair of words, by halves of words.
MultD(a, b) ==
    LET H    == 2^(WordBits \div 2)
        p1   == (a % H) * (b \div H)
        p2   == (a \div H) * (b % H)
        temp == Word(p1 + p2)
        lo   == Word((a % H) * (b % H) + (temp % H) * H)
        hi   == (a \div H) * (b \div H) + temp \div H
                    + (IF (a % H) * (b % H) > lo THEN 1 ELSE 0)
                    + (IF temp < p1 \/ temp < p2 THEN H ELSE 0)
    IN  Word(hi) * 2^WordBits + lo

(***************************************************************************)
(* Barrett reduction.                                                      *)
(***************************************************************************)
ComputeMu(m) == Word(DWord(2^(2 * GetMSB(m) + 3)) \div m)

\* The low word of x shifted right: bits of the high word may be lost.
RShiftD(x, s) == (Word(x) \div 2^s) + Word((x \div 2^WordBits) * 2^(WordBits - s))

\* Mutant: mu is applied to a dividend without its lower bits cut off.
BarrettQuotientLow(x, m, mu, n) == MultD(RShiftD(x, n - 1), mu) \div 2^(n + 5)

\* alpha = n + 3, beta = -2
BarrettQuotient(x, m, mu, n) == MultD(RShiftD(x, n - 2), mu) \div 2^(n + 5)

\* The correction at the end leaves the modulus itself.
Corrected(r, m) == IF r > m THEN r - m ELSE r

ModBarrett(x, m, mu) == Corrected(Word(DWord(x - BarrettQuotient(x, m, mu, GetMSB(m)) * m)), m)

\* ModMulFast(b, modulus, mu)
ModMulFastBarrett(a, b, m, mu) == ModBarrett(MultD(a, b), m, mu)

\* ModMulEq(b, modulus, mu) reduces a copy of b, and multiplies by b.
ModMulBarrett(a, b, m, mu) ==
    ModBarrett(MultD(IF a > m THEN ModBarrett(a, m, mu) ELSE a, b), m, mu)

Reduced(x, m, mu) == IF x >= m THEN ModBarrett(x, m, mu) ELSE x

(***************************************************************************)
(* Sums and differences, with the operands reduced or (Fast) as they are.  *)
(***************************************************************************)
ModAddFast(a, b, m) == IF Word(a + b) >= m THEN Word(a + b) - m ELSE Word(a + b)

ModAdd(a, b, m) == ModAddFast(a % m, b % m, m)

ModAddBarrett(a, b, m, mu) == ModAddFast(Reduced(a, m, mu), Reduced(b, m, mu), m)

ModSubFast(a, b, m) == IF a >= b THEN a - b ELSE Word(a + Word(m - b))

ModSub(a, b, m) == ModSubFast(a % m, b % m, m)

ModSubBarrett(a, b, m, mu) == ModSubFast(Reduced(a, m, mu), Reduced(b, m, mu), m)

(***************************************************************************)
(* Products, powers and inverses.                                          *)
(***************************************************************************)
ModMulFast(a, b, m) == (a * b) % m

ModMul(a, b, m) == ModMulFast(IF a > m THEN a % m ELSE a, IF b > m THEN b % m ELSE b, m)

\* A factor that is used many times is multiplied with a word prepared for it.
PrepModMulConst(b, m) == Word(DWord(b * 2^WordBits) \div m)

ModMulFastConst(a, b, m, bInv) ==
    LET q      == MultD(a, bInv) \div 2^WordBits
        yprime == Word(a * b - q * m)
    IN  IF SignedWord(yprime) - SignedWord(m) >= 0 THEN Word(yprime - m) ELSE yprime

RECURSIVE Exp(_, _)
Exp(a, p) ==
    IF p = 0 THEN 1
    ELSE IF p = 1 THEN a
    ELSE IF p % 2 = 0 THEN Word(Exp(a, p \div 2) * Exp(a, p \div 2))
    ELSE Word(Word(Exp(a, p \div 2) * Exp(a, p \div 2)) * a)

\* In place: the factors of an odd power come in another order.
ExpEq(a, p) ==
    IF p = 0 THEN 1
    ELSE IF p = 1 THEN a
    ELSE IF p % 2 = 0 THEN Word(Exp(a, p \div 2) * Exp(a, p \div 2))
    ELSE Word(a * Word(Exp(a, p \div 2) * Exp(a, p \div 2)))

RECURSIVE ModExpLoop(_, _, _, _)
ModExpLoop(product, mid, e, m) ==
    LET p == (IF e % 2 = 1 THEN DWord(product * mid) ELSE product) % m
    IN  IF e \div 2 = 0 THEN p ELSE ModExpLoop(p, DWord(mid * mid) % m, e \div 2, m)

ModExp(a, e, m) == ModExpLoop(1, a % m, e, m)

\* Euclid's algorithm with the coefficients of the first argument; it divides
\* by zero when the two have a common factor.
RECURSIVE EuclidLoop(_, _, _, _)
EuclidLoop(a, modulus, x, y) ==
    IF a > 1 THEN EuclidLoop(modulus, a % modulus, y, x - (a \div modulus) * y) ELSE x

ModInverse(a, m) ==
    LET x == EuclidLoop(a % m, m, 1, 0) IN IF x < 0 THEN x + m ELSE x

DivideAndRound(a, q) == a \div q + (IF a % q > q \div 2 THEN 1 ELSE 0)

MultiplyAndDivideQuotient(a, p, q) == Word(DWord(a * p) \div q)

MultiplyAndDivideRemainder(a, p, q) == DWord(a * p) % q

MultiplyAndRound(a, p, q) == DivideAndRound(Word(a * p), q)

(***************************************************************************)
(* The program.  nat' says what each operation is to compute.  "caller"    *)
(* marks what the code leaves to its callers.                              *)
(***************************************************************************)
Put(x, n) == acc' = x /\ nat' = n

Init == \E n \in Operand : acc = n /\ nat = n

Assign(b) == Put(b, b)

\* caller: no overflow of the quotients and products.
DivideCalls(p, q) ==
    \/ Put(DivideAndRound(acc, q), (2 * nat + q - 1) \div (2 * q))
    \/ nat * p < 2^WordBits /\ Put(MultiplyAndRound(acc, p, q), (2 * nat * p + q - 1) \div (2 * q))
    \/ (nat * p) \div q < 2^WordBits /\ Put(MultiplyAndDivideQuotient(acc, p, q), (nat * p) \div q)
    \/ Put(MultiplyAndDivideRemainder(acc, p, q), (nat * p) % q)

\* caller: not more than 2n + 2 bits, and no positive multiple of the modulus.
Dividend(n, m) ==
    n < 2^(2 * GetMSB(m) + 2) /\ (AnyDividend \/ n < m \/ n % m # 0)

ModBarrettCall(m) ==
    Dividend(nat, m) /\ Put(ModBarrett(acc, m, ComputeMu(m)), nat % m)

RECURSIVE PowerMod(_, _, _)
PowerMod(n, e, m) == IF e = 0 THEN 1 % m ELSE (n * PowerMod(n, e - 1, m)) % m

\* caller: the power fits a word.
ExpCalls(p) ==
    /\ p <= MaxExponent /\ nat <= 2 /\ p < WordBits
    /\ \/ Put(Exp(acc, p), PowerMod(nat, p, 2^WordBits))
       \/ Put(ExpEq(acc, p), PowerMod(nat, p, 2^WordBits))

NaiveCalls(b, m) ==
    \/ Put(ModAdd(acc, b, m), (nat + b) % m)
    \/ Put(ModSub(acc, b, m), (nat - b) % m)
    \/ Put(ModMul(acc, b, m), (nat * b) % m)
    \/ Put(ModMulFast(acc, b, m), (nat * b) % m)
    \/ b <= MaxExponent /\ Put(ModExp(acc, b, m), PowerMod(nat, b, m))

\* caller: reduced operands.
FastCalls(b, m) ==
    /\ nat < m /\ b < m
    /\ \/ Put(ModAddFast(acc, b, m), (nat + b) % m)
       \/ Put(ModSubFast(acc, b, m), (nat - b) % m)

BarrettCalls(b, m) ==
    /\ Dividend(nat, m) /\ Dividend(b, m)
    /\ \/ Put(ModAddBarrett(acc, b, m, ComputeMu(m)), (nat + b) % m)
       \/ Put(ModSubBarrett(acc, b, m, ComputeMu(m)), (nat - b) % m)
       \/ Dividend((nat % m) * b, m) /\ Put(ModMulBarrett(acc, b, m, ComputeMu(m)), (nat * b) % m)
       \/ Dividend(nat * b, m) /\ Put(ModMulFastBarrett(acc, b, m, ComputeMu(m)), (nat * b) % m)

\* caller: the constant factor is reduced.
ModMulFastConstCall(b, m) ==
    b < m /\ Put(ModMulFastConst(acc, b, m, PrepModMulConst(b, m)), (nat * b) % m)

Inverses(n, m) == {x \in 0..m - 1 : (n * x) % m = 1}

\* It throws, and acc is what it was, for a multiple of the modulus.
\* caller: otherwise there is no common factor.
ModInverseCall(m) ==
    IF acc % m = 0 THEN UNCHANGED vars
    ELSE Inverses(nat, m) # {} /\ Put(ModInverse(acc, m), CHOOSE x \in Inverses(nat, m) : TRUE)

Next ==
    \/ \E b \in Operand : Assign(b) \/ ExpCalls(b)
    \/ \E m \in Modulus : ModBarrettCall(m) \/ ModInverseCall(m)
    \/ \E b \in Operand, m \in Modulus :
          \/ DivideCalls(b, m) \/ NaiveCalls(b, m) \/ FastCalls(b, m) \/ BarrettCalls(b, m)
          \/ ModMulFastConstCall(b, m)

Spec == Init /\ [][Next]_vars

(***************************************************************************)
(* Properties.                                                             *)
(***************************************************************************)
\* "@return is the result of the modulus operation", and so for the others:
\* whatever the operations and their order, the word is the number that the
\* same operations give in the natural numbers: no overflow of a word or of a
\* pair of words, no bit lost by RShiftD, no estimate of Barrett's or Shoup's
\* quotient that the one correction at the end does not make good.
WordExact == acc = nat
=============================================================================
