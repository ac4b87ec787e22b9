----------------------------- MODULE BigInteger -----------------------------
(***************************************************************************)
(* ubint: natural numbers of any size as vectors of limbs, the least       *)
(* significant first, with the number of their bits beside them.  A        *)
(* program works on one number, acc; nat is what a program that computes   *)
(* with natural numbers has in its place.                                  *)
(*                                                                         *)
(* The InPlace form of an operation computes what the other form does,     *)
(* except for right shifts.                                                *)
(***************************************************************************)
EXTENDS Integers, Sequences

CONSTANTS
    LimbBits,          \* m_limbBitLength
    MaxLimbs,          \* bound: limbs of acc
    Operand,           \* the other operands, natural numbers
    Modulus,           \* the moduli
    Shift,             \* the distances of shifts
    MaxExponent,       \* bound: exponents
    MaxBase,           \* bound: what Exp is applied to
    ShiftPastEnd       \* RShiftEq may be asked to shift out a whole limb too many

VARIABLES acc, nat

vars == <<acc, nat>>

Base == 2^LimbBits

(***************************************************************************)
(* Representation.                                                         *)
(***************************************************************************)
RECURSIVE GetMSBlimb(_)
GetMSBlimb(x) == IF x = 0 THEN 0 ELSE 1 + GetMSBlimb(x \div 2)

SetMSB(l) == [limbs |-> l, msb |-> (Len(l) - 1) * LimbBits + GetMSBlimb(l[Len(l)])]

\* Mutant: a zero limb is left on top.
NormalizeLimbsOnce(l) == IF Len(l) > 2 /\ l[Len(l)] = 0 THEN SubSeq(l, 1, Len(l) - 1) ELSE l

RECURSIVE NormalizeLimbs(_)
NormalizeLimbs(l) ==
    IF Len(l) > 1 /\ l[Len(l)] = 0 THEN NormalizeLimbs(SubSeq(l, 1, Len(l) - 1)) ELSE l

Settled(l) == SetMSB(NormalizeLimbs(l))

RECURSIVE LimbsOf(_)
LimbsOf(n) == IF n < Base THEN <<n>> ELSE <<n % Base>> \o LimbsOf(n \div Base)

ubint(n) == SetMSB(LimbsOf(n))

ceilIntByUInt(bits) == IF bits = 0 THEN 1 ELSE (bits + LimbBits - 1) \div LimbBits

Limb(l, i) == IF i <= Len(l) THEN l[i] ELSE 0

\* Limbs are compared from the top when the numbers have as many bits.  While
\* ModMul adds a row of zeros, a may have a zero limb on top, and one limb past
\* the end of b is read: a is the smaller one whatever is there.
Less(a, b) ==
    \/ a.msb < b.msb
    \/ /\ a.msb = b.msb
       /\ \E i \in DOMAIN a.limbs : /\ a.limbs[i] < Limb(b.limbs, i)
                                    /\ \A j \in i + 1..Len(a.limbs) : a.limbs[j] = Limb(b.limbs, j)

(***************************************************************************)
(* Addition, subtraction and multiplication.                               *)
(***************************************************************************)
AddLimbs(k, l, n) ==
    LET Carry[i \in 0..n] ==
            IF i = 0 THEN 0 ELSE (Limb(k, i) + Limb(l, i) + Carry[i - 1]) \div Base
    IN  [i \in 1..n |-> (Limb(k, i) + Limb(l, i) + Carry[i - 1]) % Base]
            \o (IF Carry[n] # 0 THEN <<1>> ELSE <<>>)

AddEq(a, b) ==
    IF b.msb = 0 THEN a
    ELSE IF a.msb = 0 THEN b
    ELSE SetMSB(AddLimbs(a.limbs, b.limbs,
                         IF Len(a.limbs) > Len(b.limbs) THEN Len(a.limbs) ELSE Len(b.limbs)))

\* Add reads as many limbs as the bits of each operand need.
AddOrdered(a, b) ==
    IF b.msb = 0 THEN a
    ELSE SetMSB(AddLimbs(SubSeq(a.limbs, 1, ceilIntByUInt(a.msb)),
                         SubSeq(b.limbs, 1, ceilIntByUInt(b.msb)), ceilIntByUInt(a.msb)))

Add(a, b) == IF Less(b, a) THEN AddOrdered(a, b) ELSE AddOrdered(b, a)

\* A borrow turns the zero limbs on its way into the largest limb.
Lender(l, i) == CHOOSE c \in i + 1..Len(l) : l[c] # 0 /\ \A j \in i + 1..c - 1 : l[j] = 0

SubLimb(l, i, x) ==
    [j \in DOMAIN l |-> CASE j = i -> (l[i] - x) % Base
                          [] j > i /\ l[i] < x /\ j < Lender(l, i) -> Base - 1
                          [] j > i /\ l[i] < x /\ j = Lender(l, i) -> l[j] - 1
                          [] OTHER -> l[j]]

RECURSIVE SubLimbs(_, _, _)
SubLimbs(l, b, i) == IF i > Len(b) THEN l ELSE SubLimbs(SubLimb(l, i, b[i]), b, i + 1)

Sub(a, b) == IF Less(b, a) THEN Settled(SubLimbs(a.limbs, b.limbs, 1)) ELSE ubint(0)

\* One row: l times x, i - 1 limbs up.
MulRow(l, x, i) ==
    LET Carry[j \in 0..Len(l)] == IF j = 0 THEN 0 ELSE (l[j] * x + Carry[j - 1]) \div Base
    IN  [j \in 1..i - 1 |-> 0] \o [j \in 1..Len(l) |-> (l[j] * x + Carry[j - 1]) % Base]
            \o (IF Carry[Len(l)] # 0 THEN <<Carry[Len(l)]>> ELSE <<>>)

RECURSIVE MulRows(_, _, _, _)
MulRows(ans, l, b, i) ==
    IF i > Len(b) THEN ans ELSE MulRows(AddEq(ans, SetMSB(MulRow(l, b[i], i))), l, b, i + 1)

Mul(a, b) ==
    CASE a.msb = 0 \/ b.msb = 0 -> ubint(0)
      [] b.msb = 1 -> a
      [] a.msb = 1 -> b
      [] OTHER -> MulRows(ubint(0), a.limbs, b.limbs, 1)

RECURSIVE Exp(_, _)
Exp(a, p) ==
    IF p = 0 THEN ubint(1)
    ELSE IF p = 1 THEN a
    ELSE LET t == Exp(a, p \div 2)
         IN  IF p % 2 = 0 THEN Mul(t, t) ELSE Mul(Mul(t, t), a)

(***************************************************************************)
(* Shifts.                                                                 *)
(***************************************************************************)
\* Limbs shifted left by less than one limb.
LShiftBits(l, s) ==
    [i \in 1..Len(l) |-> ((l[i] * 2^s) % Base) + (IF i = 1 THEN 0 ELSE (l[i - 1] * 2^s) \div Base)]

LShift(a, s) ==
    IF a.msb = 0 THEN a
    ELSE LET ofl == (a.limbs[Len(a.limbs)] * 2^(s % LimbBits)) \div Base
         IN  [limbs |-> [i \in 1..s \div LimbBits |-> 0] \o LShiftBits(a.limbs, s % LimbBits)
                            \o (IF ofl # 0 THEN <<ofl>> ELSE <<>>),
              msb |-> a.msb + s]

RShiftBits(l, s) ==
    [i \in 1..Len(l) |->
        (l[i] \div 2^s) + (IF i = Len(l) THEN 0 ELSE (l[i + 1] % 2^s) * 2^(LimbBits - s))]

RShift(a, s) ==
    IF a.msb <= s THEN ubint(0)
    ELSE Settled(RShiftBits(SubSeq(a.limbs, s \div LimbBits + 1, Len(a.limbs)), s % LimbBits))

\* RShiftEq goes on after it has set the number to one zero limb, and takes
\* away as many limbs as it was asked to shift by.  Whatever it does once none
\* is left (NormalizeLimbs and SetMSB read the last limb), none comes back.
RShiftEq(a, s) ==
    IF a.msb = 0 THEN a
    ELSE IF a.msb <= s /\ s >= LimbBits THEN [limbs |-> <<>>, msb |-> 0]
    ELSE RShift(a, s)

(***************************************************************************)
(* Division: Knuth's algorithm D.  Here the limbs of un and vn are         *)
(* functions from 0, as in the code.                                       *)
(***************************************************************************)
\* The limbs of l shifted left by s bits, on 0..n - 1.
Shifted(l, s, n) ==
    [i \in 0..n - 1 |-> ((Limb(l, i + 1) * 2^s) % Base)
                            + (IF i = 0 THEN 0 ELSE (l[i] * 2^s) \div Base)]

\* Mutant: the second limb of the divisor is not looked at.
RECURSIVE EstimateTopOnly(_, _, _, _, _)
EstimateTopOnly(q, r, v1, v2, u2) ==
    IF q >= Base THEN IF r + v1 < Base THEN EstimateTopOnly(q - 1, r + v1, v1, v2, u2) ELSE q - 1
    ELSE q

\* The loop at "again": v1 and v2 are the two top limbs of the divisor, u2 the
\* limb of the dividend that goes with v2.
RECURSIVE Estimate(_, _, _, _, _)
Estimate(q, r, v1, v2, u2) ==
    IF q >= Base \/ q * v2 > Base * r + u2
    THEN IF r + v1 < Base THEN Estimate(q - 1, r + v1, v1, v2, u2) ELSE q - 1
    ELSE q

\* What is borrowed from limb i of the dividend when q * vn is subtracted.
Borrow(un, vn, n, j, q) ==
    LET K[i \in 0..n] ==
            IF i = 0 THEN 0
            ELSE ((q * vn[i - 1]) \div Base)
                     - ((un[i - 1 + j] - K[i - 1] - ((q * vn[i - 1]) % Base)) \div Base)
    IN  K

SubtractRow(un, vn, n, j, q, K) ==
    [i \in DOMAIN un |->
        IF i \in j..j + n - 1 THEN (un[i] - K[i - j] - ((q * vn[i - j]) % Base)) % Base
        ELSE IF i = j + n THEN (un[i] - K[n]) % Base
        ELSE un[i]]

AddBackRow(un, vn, n, j) ==
    LET K[i \in 0..n] == IF i = 0 THEN 0 ELSE (un[i - 1 + j] + vn[i - 1] + K[i - 1]) \div Base
    IN  [i \in DOMAIN un |->
            IF i \in j..j + n - 1 THEN (un[i] + vn[i - j] + K[i - j]) % Base
            ELSE IF i = j + n THEN (un[i] + K[n]) % Base
            ELSE un[i]]

\* One round of the main loop: the limb of the quotient and what is left.
Round(un, vn, n, j, q, K) ==
    IF un[j + n] - K[n] < 0
    THEN [q |-> (q - 1) % Base, un |-> AddBackRow(SubtractRow(un, vn, n, j, q, K), vn, n, j)]
    ELSE [q |-> q % Base, un |-> SubtractRow(un, vn, n, j, q, K)]

QHat(un, vn, n, j) ==
    LET top == un[j + n] * Base + un[j + n - 1]
    IN  Estimate(top \div vn[n - 1], top % vn[n - 1], vn[n - 1], vn[n - 2], un[j + n - 2])

RECURSIVE DivRounds(_, _, _, _, _)
DivRounds(un, vn, n, j, q) ==
    IF j < 0 THEN [q |-> q, un |-> un]
    ELSE LET qhat == QHat(un, vn, n, j)
             done == Round(un, vn, n, j, qhat, Borrow(un, vn, n, j, qhat))
         IN  DivRounds(done.un, vn, n, j - 1, <<done.q>> \o q)

\* Divisors of one limb.
RECURSIVE DivShort(_, _, _, _, _)
DivShort(u, v, j, k, q) ==
    IF j = 0 THEN [q |-> q, r |-> <<k>>]
    ELSE DivShort(u, v, j - 1, (k * Base + u[j]) % v, <<((k * Base + u[j]) \div v) % Base>> \o q)

nlz(x) == LimbBits - GetMSBlimb(x)

divqr_vect(u, v) ==
    IF Len(v) = 1
    THEN DivShort(u, v[1], Len(u), 0, <<>>)
    ELSE LET s == nlz(v[Len(v)])
             d == DivRounds(Shifted(u, s, Len(u) + 1), Shifted(v, s, Len(v)), Len(v), Len(u) - Len(v), <<>>)
         IN  [q |-> d.q,
              r |-> [i \in 1..Len(v) |-> (d.un[i - 1] \div 2^s)
                                             + (IF i = Len(v) THEN 0 ELSE (d.un[i] * 2^(LimbBits - s)) % Base)]]

DividedBy(a, b) ==
    CASE b.msb > a.msb -> ubint(0)
      [] a = b -> ubint(1)
      [] OTHER -> Settled(divqr_vect(a.limbs, b.limbs).q)

Mod(a, m) ==
    CASE Less(a, m) -> a
      [] m.limbs = <<2>> -> ubint(a.limbs[1] % 2)
      [] OTHER -> Settled(divqr_vect(a.limbs, m.limbs).r)

DivideAndRound(a, b) ==
    LET half == RShift(b, 1)
    IN  IF Less(a, b) THEN ubint(IF Less(half, a) THEN 1 ELSE 0)
        ELSE LET qr == divqr_vect(a.limbs, b.limbs)
             IN  IF Less(half, Settled(qr.r)) THEN AddEq(Settled(qr.q), ubint(1)) ELSE Settled(qr.q)

MultiplyAndRound(a, p, q) == DivideAndRound(Mul(a, p), q)

(***************************************************************************)
(* Modular arithmetic.                                                     *)
(***************************************************************************)
ComputeMu(m) == DividedBy(LShift(ubint(1), 2 * m.msb + 3), m)

ModAdd(a, b, m) == Mod(AddEq(Mod(a, m), Mod(b, m)), m)

\* Of reduced operands.
SubReduced(a, b, m) == IF Less(a, b) THEN Sub(AddEq(a, m), b) ELSE Mod(Sub(a, b), m)

ModSub(a, b, m) == SubReduced(Mod(a, m), Mod(b, m), m)

RECURSIVE ModMulRows(_, _, _, _, _)
ModMulRows(ans, l, b, i, m) ==
    IF i > Len(b) THEN ans
    ELSE ModMulRows(Mod(AddEq(ans, SetMSB(MulRow(l, b[i], i))), m), l, b, i + 1, m)

\* A factor of one returns the other factor as it is.
ModMul(a, b, m) ==
    CASE a.msb = 0 \/ b.msb = 0 -> ubint(0)
      [] b.msb = 1 -> a
      [] a.msb = 1 -> b
      [] OTHER -> ModMulRows(ubint(0), a.limbs, b.limbs, 1, m)

\* The forms that are given Barrett's constant mu.  NO_BARRETT is defined
\* (ubintdyn.h:42), and none of them uses it.  The sum is of the operands as
\* they are.
ModMu(a, m) == Mod(a, m)

ModAddMu(a, b, m) == ModMu(AddEq(a, b), m)

ModSubMu(a, b, m) == SubReduced(ModMu(a, m), ModMu(b, m), m)

ModMulMu(a, b, m) == ModMul(a, b, m)

\* Square and multiply; the product is reduced when it exceeds the modulus.
RECURSIVE ModExpLoop(_, _, _, _)
ModExpLoop(product, mid, e, m) ==
    LET p == IF e.limbs[1] % 2 = 1 THEN Mul(product, mid) ELSE product
        r == IF Less(m, p) THEN Mod(p, m) ELSE p
        h == RShift(e, 1)
    IN  IF h.msb = 0 THEN r ELSE ModExpLoop(r, Mod(Mul(mid, mid), m), h, m)

ModExp(a, e, m) == ModExpLoop(ubint(1), Mod(a, m), e, m)

\* Euclid's quotients down to the remainder one ("north"), none when it is
\* never reached, and the coefficient from them ("south").
RECURSIVE Quotients(_, _, _)
Quotients(first, second, qs) ==
    LET back == Mod(first, second)
        more == Append(qs, DividedBy(first, second))
    IN  CASE back = ubint(1) -> more
          [] back.msb = 0 -> <<>>
          [] OTHER -> Quotients(second, back, more)

RECURSIVE South(_, _, _)
South(first, second, qs) ==
    IF qs = <<>> THEN second
    ELSE South(second, AddEq(Mul(qs[Len(qs)], second), first), SubSeq(qs, 1, Len(qs) - 1))

HasInverse(s, m) == s.msb > 1 => Quotients(m, s, <<>>) # <<>>

ModInverse(a, m) ==
    LET s  == IF Less(m, a) THEN Mod(a, m) ELSE a
        qs == Quotients(m, s, <<>>)
        x  == South(ubint(0), ubint(1), qs)
    IN  IF s = ubint(1) THEN ubint(1) ELSE IF Len(qs) % 2 = 1 THEN Sub(m, x) ELSE x

(***************************************************************************)
(* The program.  nat' says what each operation is to compute.  "caller"    *)
(* marks what the code leaves to its callers.                              *)
(***************************************************************************)
Put(x, n) == Len(x.limbs) <= MaxLimbs /\ acc' = x /\ nat' = n

Init == \E n \in Operand : acc = ubint(n) /\ nat = n

Assign(b) == Put(ubint(b), b)

AddCall(b) == Put(Add(acc, ubint(b)), nat + b)

AddEqCall(b) == Put(AddEq(acc, ubint(b)), nat + b)

SubCall(b) == Put(Sub(acc, ubint(b)), IF nat > b THEN nat - b ELSE 0)

MulCall(b) == Put(Mul(acc, ubint(b)), nat * b)

Power(n, p) == IF p = 0 THEN 1 ELSE n^p

ExpCall(p) == nat < MaxBase /\ Put(Exp(acc, p), Power(nat, p))

LShiftCall(s) == Put(LShift(acc, s), nat * 2^s)

RShiftCall(s) == Put(RShift(acc, s), nat \div 2^s)

RShiftEqCall(s) ==
    (ShiftPastEnd \/ s < acc.msb \/ s < LimbBits) /\ Put(RShiftEq(acc, s), nat \div 2^s)

DividedByCall(b) == b # 0 /\ Put(DividedBy(acc, ubint(b)), nat \div b)

\* To the nearest number, down from half way.
Rounded(n, q) == (2 * n + q - 1) \div (2 * q)

DivideAndRoundCall(q) == q # 0 /\ Put(DivideAndRound(acc, ubint(q)), Rounded(nat, q))

MultiplyAndRoundCall(p, q) ==
    q # 0 /\ Put(MultiplyAndRound(acc, ubint(p), ubint(q)), Rounded(nat * p, q))

ModCall(m) == Put(Mod(acc, ubint(m)), nat % m)

BitsOf(n) == CHOOSE k \in 0..LimbBits * MaxLimbs : n < 2^k /\ (k > 0 => n >= 2^(k - 1))

ComputeMuCall == nat # 0 /\ Put(ComputeMu(acc), 2^(2 * BitsOf(nat) + 3) \div nat)

ModMuCall(m) == Put(ModMu(acc, ubint(m)), nat % m)

ModAddCall(b, m) == Put(ModAdd(acc, ubint(b), ubint(m)), (nat + b) % m)

ModSubCall(b, m) == Put(ModSub(acc, ubint(b), ubint(m)), (nat - b) % m)

\* caller: a factor that meets the factor one is reduced.
ModMulCall(b, m) ==
    /\ nat = 1 => b < m
    /\ b = 1 => nat < m
    /\ Put(ModMul(acc, ubint(b), ubint(m)), (nat * b) % m)

ModAddMuCall(b, m) == Put(ModAddMu(acc, ubint(b), ubint(m)), (nat + b) % m)

ModSubMuCall(b, m) == Put(ModSubMu(acc, ubint(b), ubint(m)), (nat - b) % m)

\* caller: as for ModMul.
ModMulMuCall(b, m) ==
    /\ nat = 1 => b < m
    /\ b = 1 => nat < m
    /\ Put(ModMulMu(acc, ubint(b), ubint(m)), (nat * b) % m)

\* caller: the modulus is a prime.
ModExpCall(e, m) ==
    /\ e <= MaxExponent /\ m > 1 /\ \A d \in 2..m - 1 : m % d # 0
    /\ Put(ModExp(acc, ubint(e), ubint(m)), Power(nat % m, e) % m)

Inverses(n, m) == {x \in 0..m - 1 : (n * x) % m = 1}

\* It throws, and acc is what it was, when there is no inverse.
ModInverseCall(m) ==
    /\ m > 1
    /\ IF nat % m # 0 /\ HasInverse(IF Less(ubint(m), acc) THEN Mod(acc, ubint(m)) ELSE acc, ubint(m))
       THEN Put(ModInverse(acc, ubint(m)), IF Inverses(nat, m) = {} THEN -1
                                           ELSE CHOOSE x \in Inverses(nat, m) : TRUE)
       ELSE Put(acc, IF Inverses(nat, m) = {} THEN nat ELSE -1)

Next ==
    \/ \E b \in Operand :
          \/ Assign(b) \/ AddCall(b) \/ AddEqCall(b) \/ SubCall(b) \/ MulCall(b)
          \/ DividedByCall(b) \/ DivideAndRoundCall(b)
    \/ \E p \in 0..MaxExponent : ExpCall(p)
    \/ \E s \in Shift : LShiftCall(s) \/ RShiftCall(s) \/ RShiftEqCall(s)
    \/ ComputeMuCall
    \/ \E m \in Modulus : ModCall(m) \/ ModMuCall(m) \/ ModInverseCall(m)
    \/ \E b \in Operand, m \in Modulus :
          \/ MultiplyAndRoundCall(b, m) \/ ModAddCall(b, m) \/ ModSubCall(b, m)
          \/ ModMulCall(b, m) \/ ModExpCall(b, m)
          \/ ModAddMuCall(b, m) \/ ModSubMuCall(b, m) \/ ModMulMuCall(b, m)

Spec == Init /\ [][Next]_vars

(***************************************************************************)
(* Properties.                                                             *)
(***************************************************************************)
\* The representation: "ubint = 0 must have one limb == 0": after any sequence of operations a
\* number has at least one limb, no zero limb on top of others, limbs in range,
\* and the number of bits that is stored is that of its limbs.
Normalized ==
    /\ Len(acc.limbs) > 0 /\ \A i \in DOMAIN acc.limbs : acc.limbs[i] \in 0..Base - 1
    /\ Len(acc.limbs) > 1 => acc.limbs[Len(acc.limbs)] # 0
    /\ acc = SetMSB(acc.limbs)

RECURSIVE Value(_)
Value(l) == IF l = <<>> THEN 0 ELSE l[1] + Base * Value(Tail(l))

\* Whatever the operations and their order, the limbs are the normalized ones of
\* the natural number that the same operations give: carries, borrows, the
\* estimates of long division, Euclid's coefficients and the trimming that follows
\* each of them are right.
Exact == Normalized /\ Value(acc.limbs) = nat
=============================================================================
