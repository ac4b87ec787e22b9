---------------------------- MODULE BGVLeveledSHE ----------------------------
(***************************************************************************)
(* Level, depth and scaling-factor management of the RNS variant of BGV:   *)
(* the operations of LeveledSHERNS as specialised by LeveledSHEBGVRNS.     *)
(*                                                                         *)
(* Dropping the prime q_i multiplies the message by the inverse of q_i     *)
(* modulo the plaintext modulus t.  The FLEXIBLE techniques record the     *)
(* accumulated factor, a residue modulo t, and Decrypt and Decode undo it; *)
(* the FIXED techniques take primes congruent to 1.  The message is        *)
(* abstracted to the residue it really is multiplied by.                   *)
(***************************************************************************)
EXTENDS Integers

CONSTANTS
    SizeQ,            \* number of primes of a fresh ciphertext
    ScalTech,         \* the scaling technique of the crypto context
    T,                \* the plaintext modulus, a prime
    QModt,            \* m_qModt: QModt[i] is q_i modulo t
    MultDepth,        \* the multiplicative depth the context was generated for
    PlaintextLevels,  \* the levels the program makes plaintexts at
    Regs,             \* the program's ciphertext variables
    Null              \* a variable that holds no ciphertext

Flexible == ScalTech \in {"FLEXIBLEAUTO", "FLEXIBLEAUTOEXT"}

Ext == ScalTech = "FLEXIBLEAUTOEXT"

Manual == ScalTech = "FIXEDMANUAL"

ExtraPrime == IF Ext THEN 1 ELSE 0

Residues == 0 .. (T - 1)

ASSUME ModulusAssumption ==
    /\ T \in Nat /\ T > 2
    /\ \A x \in 2 .. (T - 1) : T % x # 0

ASSUME SizeAssumption ==
    /\ ScalTech \in {"FIXEDMANUAL", "FIXEDAUTO", "FLEXIBLEAUTO", "FLEXIBLEAUTOEXT"}
    /\ MultDepth \in Nat \ {0}
    /\ SizeQ = MultDepth + 1 + ExtraPrime
    /\ PlaintextLevels \subseteq 0 .. (SizeQ - 1)

\* getCyclicOrder makes the primes of the FIXED techniques 1 modulo t.
ASSUME PrimesAssumption ==
    /\ QModt \in [0 .. (SizeQ - 1) -> 1 .. (T - 1)]
    /\ ~Flexible => \A i \in 0 .. (SizeQ - 1) : QModt[i] = 1

-----------------------------------------------------------------------------

ModMul(x, y) == (x * y) % T

\* The library throws on zero, which has no inverse.
ModInverse(x) == IF x = 0 THEN 0 ELSE CHOOSE y \in 1 .. (T - 1) : ModMul(x, y) = 1

ModDiv(x, y) == ModMul(x, ModInverse(y))

\* m_scalingFactorsInt.  The loop stops one short of the table's end when
\* there is an extra prime; the last entry keeps its initial value.
ScalingFactorsInt ==
    LET sf[k \in 0 .. (SizeQ - 1)] ==
            IF k = 0 THEN QModt[SizeQ - 1]
            ELSE IF Ext /\ k = 1 THEN QModt[SizeQ - 2]
            ELSE IF k >= SizeQ - ExtraPrime THEN 0
            ELSE ModDiv(ModMul(sf[k - 1], sf[k - 1]), QModt[SizeQ - k])
    IN  sf

GetScalingFactorInt(l) == IF Flexible /\ l < SizeQ THEN ScalingFactorsInt[l] ELSE 1

GetScalingFactorIntBig(l) ==
    IF Flexible /\ l < SizeQ - 1
    THEN ModMul(ScalingFactorsInt[l], ScalingFactorsInt[IF Ext /\ l = 0 THEN 1 ELSE l])
    ELSE 1

GetModReduceFactorInt(i) == IF Flexible THEN QModt[i] ELSE 1

ModReduceFactorsInt == [i \in 0 .. (SizeQ - 1) |-> GetModReduceFactorInt(i)]

\* The product of f over the towers first .. last.
Product(f, first, last) ==
    LET prod[i \in (first - 1) .. last] ==
            IF i < first THEN 1 ELSE ModMul(prod[i - 1], f[i])
    IN  prod[last]

-----------------------------------------------------------------------------
(***************************************************************************)
(* Ciphertexts.  level, towers, deg and sf are the program's; the ghosts   *)
(* are scale (the residue the message is really multiplied by), depth      *)
(* (multiplications on the longest path, not counted when the caller       *)
(* rescales) and fault (what has gone wrong on the way).                   *)
(***************************************************************************)

Ciphertext ==
    [level : 0 .. SizeQ, towers : 0 .. SizeQ, deg : Nat, sf : Residues,
     scale : Residues, depth : Nat,
     fault : SUBSET {"no towers left", "towers differ", "scales differ"}]

Max2(x, y) == IF x > y THEN x ELSE y

Faulty(c, bad, f) == IF bad THEN c.fault \cup {f} ELSE c.fault

\* Mutant: the recorded factor is multiplied by the prime, not by its inverse.
ModReduceTimesPrime(c, n) ==
    LET first == c.towers - n
        last  == c.towers - 1
    IN  IF c.towers <= n
        THEN [c EXCEPT !.fault = @ \cup {"no towers left"}]
        ELSE [c EXCEPT !.towers = @ - n, !.deg = @ - n, !.level = @ + n,
                       !.sf = ModMul(@, Product(ModReduceFactorsInt, first, last)),
                       !.scale = ModDiv(@, Product(QModt, first, last))]

\* Mutant: rescaling forgets to lower the degree.
ModReduceKeepsDegree(c, n) ==
    LET first == c.towers - n
        last  == c.towers - 1
    IN  IF c.towers <= n
        THEN [c EXCEPT !.fault = @ \cup {"no towers left"}]
        ELSE [c EXCEPT !.towers = @ - n, !.level = @ + n,
                       !.sf = ModDiv(@, Product(ModReduceFactorsInt, first, last)),
                       !.scale = ModDiv(@, Product(QModt, first, last))]

ModReduceInternalInPlace(c, n) ==
    LET first == c.towers - n
        last  == c.towers - 1
    IN  IF c.towers <= n
        THEN [c EXCEPT !.fault = @ \cup {"no towers left"}]
        ELSE [c EXCEPT !.towers = @ - n, !.deg = @ - n, !.level = @ + n,
                       !.sf = ModDiv(@, Product(ModReduceFactorsInt, first, last)),
                       !.scale = ModDiv(@, Product(QModt, first, last))]

LevelReduceInternalInPlace(c, n) ==
    IF c.towers <= n
    THEN [c EXCEPT !.fault = @ \cup {"no towers left"}]
    ELSE [c EXCEPT !.towers = @ - n, !.level = @ + n]

EvalMultCoreConst(c, constant) ==
    [c EXCEPT !.deg = @ + 1,
              !.sf = IF Flexible THEN ModMul(@, constant) ELSE @,
              !.scale = ModMul(@, constant)]

\* cv1 += cv2: the metadata of the first operand is kept.
EvalAddCore(c, d) ==
    [c EXCEPT !.depth = Max2(c.depth, d.depth),
              !.fault = Faulty(c, c.towers # d.towers, "towers differ")
                            \cup Faulty(d, c.scale # d.scale, "scales differ")]

EvalMultCore(c, d) ==
    [c EXCEPT !.deg = c.deg + d.deg, !.sf = ModMul(c.sf, d.sf),
              !.scale = ModMul(c.scale, d.scale),
              !.depth = IF Manual THEN 0 ELSE Max2(c.depth, d.depth) + 1,
              !.fault = Faulty(c, c.towers # d.towers, "towers differ") \cup d.fault]

\* Mutant: the constant leaves out the prime that the rescaling divides by.
AdjustDownWithoutPrime(c, d) ==
    LET gap == d.level - c.level
        Recorded(x) == [x EXCEPT !.sf = d.sf]
    IN  IF c.deg = 2 /\ d.deg # 2 /\ gap = 1
        THEN ModReduceInternalInPlace(c, 1)
        ELSE IF c.deg = 2
        THEN Recorded(LevelReduceInternalInPlace(
                 ModReduceInternalInPlace(EvalMultCoreConst(c, ModDiv(d.sf, c.sf)), 1),
                 gap - 1))
        ELSE Recorded(LevelReduceInternalInPlace(
                 EvalMultCoreConst(c, ModDiv(d.sf, c.sf)), gap))

\* Bring c down to the level, the depth and the scaling factor of d.
AdjustDown(c, d) ==
    LET gap == d.level - c.level
        ql  == GetModReduceFactorInt(c.towers - 1)
        big == GetScalingFactorIntBig(d.level - 1)
        At(scf)    == EvalMultCoreConst(c, ModDiv(scf, c.sf))
        Below(scf) == ModReduceInternalInPlace(
                          EvalMultCoreConst(c, ModMul(ModDiv(scf, c.sf), ql)), 1)
        Recorded(x) == [x EXCEPT !.sf = d.sf]
    IN  IF c.deg = 2
        THEN IF d.deg = 2
             THEN Recorded(LevelReduceInternalInPlace(Below(d.sf), gap - 1))
             ELSE IF gap = 1
                  THEN ModReduceInternalInPlace(c, 1)
                  ELSE Recorded(ModReduceInternalInPlace(
                           LevelReduceInternalInPlace(Below(big), gap - 2), 1))
        ELSE IF d.deg = 2
             THEN Recorded(LevelReduceInternalInPlace(At(d.sf), gap))
             ELSE Recorded(ModReduceInternalInPlace(
                      LevelReduceInternalInPlace(At(big), gap - 1), 1))

\* The ghost depth of an operand that was brought down to d's level.
Aged(x, d) == [x EXCEPT !.depth = Max2(@, d.depth)]

\* What becomes of c when it meets d: the code treats both operands alike.
Lowered(c, d) ==
    IF c.level < d.level THEN Aged(AdjustDown(c, d), d)
    ELSE IF c.level = d.level /\ c.deg < d.deg
         THEN Aged(EvalMultCoreConst(c, c.sf), d)
    ELSE c

AdjustLevelsAndDepthInPlace(c, d) == <<Lowered(c, d), Lowered(d, c)>>

RescaledToOne(p) ==
    IF p[1].deg = 2
    THEN <<ModReduceInternalInPlace(p[1], 1), ModReduceInternalInPlace(p[2], 1)>>
    ELSE p

AdjustLevelsAndDepthToOneInPlace(c, d) ==
    RescaledToOne(AdjustLevelsAndDepthInPlace(c, d))

AdjustLevelsInPlace(c, d) ==
    <<IF c.towers > d.towers
      THEN LevelReduceInternalInPlace(c, c.towers - d.towers) ELSE c,
      IF d.towers > c.towers
      THEN LevelReduceInternalInPlace(d, d.towers - c.towers) ELSE d>>

AdjustForAddOrSubInPlace(c, d) ==
    IF Manual THEN AdjustLevelsInPlace(c, d) ELSE AdjustLevelsAndDepthInPlace(c, d)

AdjustForMultInPlace(c, d) ==
    IF Manual THEN AdjustLevelsInPlace(c, d) ELSE AdjustLevelsAndDepthToOneInPlace(c, d)

RescaleBeforeSquare(c) ==
    IF Manual \/ c.deg = 1 THEN c ELSE ModReduceInternalInPlace(c, 1)

\* MakePlaintext, with Encode raising the factor to the degree.  The FIXED
\* techniques ignore degree and level; the FLEXIBLE ones record the level
\* and give the plaintext every tower.
MakePlaintext(l, d) ==
    LET fresh == Ext /\ l = 0
        one   == GetScalingFactorInt(l)
        sf    == IF fresh THEN GetScalingFactorIntBig(0)
                 ELSE IF d = 2 THEN ModMul(one, one) ELSE one
        deg   == IF fresh THEN 2 ELSE d
    IN  IF Flexible
        THEN [level |-> l, towers |-> SizeQ, deg |-> deg, sf |-> sf, scale |-> sf,
              depth |-> l + deg - 1 - ExtraPrime, fault |-> {}]
        ELSE [level |-> 0, towers |-> SizeQ, deg |-> 1, sf |-> 1, scale |-> 1,
              depth |-> 0, fault |-> {}]

\* Decrypt reduces to one tower, in the polynomial (Decrypted) and in the
\* factor it hands to Decode (DecryptResult), which divides by it.
Decrypted(c) == ModDiv(c.scale, Product(QModt, 1, c.towers - 1))

DecryptResult(c) == ModDiv(c.sf, Product(ModReduceFactorsInt, 1, c.towers - 1))

-----------------------------------------------------------------------------
(***************************************************************************)
(* The program: any sequence of calls on the variables Regs.  An in-place  *)
(* call is the case where the result variable is the first operand.        *)
(***************************************************************************)

VARIABLES
    ct,      \* ct[r] is the ciphertext in variable r, or Null
    sent     \* the last ciphertext compressed for decryption, or Null

vars == <<ct, sent>>

Init ==
    /\ ct = [r \in Regs |-> Null]
    /\ sent = Null

Holds(a) == ct[a] # Null

\* What the library asks of its caller: a circuit no deeper than the context
\* was generated for or, with manual rescaling, a tower for every rescaling.
WithinDepth(c) ==
    IF Manual THEN c.level + c.deg <= SizeQ ELSE c.depth <= MultDepth

\* With manual rescaling the caller also sees that aligning the levels of two
\* operands leaves each the towers it needs.
Payable(p) == Manual => \A i \in {1, 2} : WithinDepth(p[i])

Plaintexts == {MakePlaintext(l, d) : l \in PlaintextLevels, d \in {1, 2}}

\* The result of a call goes to r, and the mutable calls leave the adjusted
\* operands p in the variables they came from.
SumOf(p) == EvalAddCore(p[1], p[2])

StoreSum(r, p) == Payable(p) /\ ct' = [ct EXCEPT ![r] = SumOf(p)]

StoreSumAndFirst(a, r, p) == Payable(p) /\ ct' = [ct EXCEPT ![a] = p[1], ![r] = SumOf(p)]

StoreSumAndBoth(a, b, r, p) ==
    Payable(p) /\ ct' = [ct EXCEPT ![a] = p[1], ![b] = p[2], ![r] = SumOf(p)]

Twice(x) == <<x, x>>

ProductOf(p) == EvalMultCore(p[1], p[2])

StoreProduct(r, p) ==
    WithinDepth(ProductOf(p)) /\ ct' = [ct EXCEPT ![r] = ProductOf(p)]

StoreProductAndFirst(a, r, p) ==
    WithinDepth(ProductOf(p)) /\ ct' = [ct EXCEPT ![a] = p[1], ![r] = ProductOf(p)]

StoreProductAndBoth(a, b, r, p) ==
    /\ WithinDepth(ProductOf(p))
    /\ ct' = [ct EXCEPT ![a] = p[1], ![b] = p[2], ![r] = ProductOf(p)]

Encrypt(r) ==
    \E p \in Plaintexts :
        /\ WithinDepth(p)
        /\ ct' = [ct EXCEPT ![r] = p]
        /\ UNCHANGED sent

\* EvalAdd, EvalSub and their in-place forms: the operands are cloned.
EvalAdd(a, b, r) ==
    /\ Holds(a) /\ Holds(b)
    /\ StoreSum(r, AdjustForAddOrSubInPlace(ct[a], ct[b]))
    /\ UNCHANGED sent

\* EvalAddMutable, EvalSubMutable: the operands themselves are adjusted.
EvalAddMutable(a, b, r) ==
    /\ a # b /\ Holds(a) /\ Holds(b)
    /\ StoreSumAndBoth(a, b, r, AdjustForAddOrSubInPlace(ct[a], ct[b]))
    /\ UNCHANGED sent

EvalAddPlaintext(a, r) ==
    /\ Holds(a)
    /\ \E pt \in Plaintexts :
        /\ WithinDepth(pt)
        /\ StoreSum(r, AdjustForAddOrSubInPlace(ct[a], pt))
    /\ UNCHANGED sent

EvalAddMutablePlaintext(a, r) ==
    /\ Holds(a)
    /\ \E pt \in Plaintexts :
        /\ WithinDepth(pt)
        /\ StoreSumAndFirst(a, r, AdjustForAddOrSubInPlace(ct[a], pt))
    /\ UNCHANGED sent

EvalMult(a, b, r) ==
    /\ Holds(a) /\ Holds(b)
    /\ StoreProduct(r, AdjustForMultInPlace(ct[a], ct[b]))
    /\ UNCHANGED sent

EvalMultMutable(a, b, r) ==
    /\ a # b /\ Holds(a) /\ Holds(b)
    /\ StoreProductAndBoth(a, b, r, AdjustForMultInPlace(ct[a], ct[b]))
    /\ UNCHANGED sent

EvalMultPlaintext(a, r) ==
    /\ Holds(a)
    /\ \E pt \in Plaintexts :
        /\ WithinDepth(pt)
        /\ StoreProduct(r, AdjustForMultInPlace(ct[a], pt))
    /\ UNCHANGED sent

EvalMultMutablePlaintext(a, r) ==
    /\ Holds(a)
    /\ \E pt \in Plaintexts :
        /\ WithinDepth(pt)
        /\ StoreProductAndFirst(a, r, AdjustForMultInPlace(ct[a], pt))
    /\ UNCHANGED sent

EvalSquare(a, r) ==
    /\ Holds(a)
    /\ StoreProduct(r, Twice(RescaleBeforeSquare(ct[a])))
    /\ UNCHANGED sent

\* ModReduce and LevelReduce act in the manual technique only.
ModReduce(a, r, n) ==
    /\ Holds(a)
    /\ Manual => n < ct[a].deg
    /\ ct' = [ct EXCEPT ![r] = IF Manual THEN ModReduceInternalInPlace(ct[a], n)
                               ELSE ct[a]]
    /\ UNCHANGED sent

LevelReduce(a, r, n) ==
    /\ Holds(a)
    /\ Manual => n < ct[a].towers
    /\ LET c == IF Manual THEN LevelReduceInternalInPlace(ct[a], n) ELSE ct[a]
       IN  WithinDepth(c) /\ ct' = [ct EXCEPT ![r] = c]
    /\ UNCHANGED sent

\* Compress rescales until the degree is 1, one tower at a time, and drops
\* towers until at most `towersLeft' are left.
Compress(a, towersLeft) ==
    /\ Holds(a)
    /\ LET c == ModReduceInternalInPlace(ct[a], Max2(ct[a].deg - 1, 0))
       IN  sent' = IF towersLeft < c.towers
                   THEN LevelReduceInternalInPlace(c, c.towers - towersLeft) ELSE c
    /\ UNCHANGED ct

Next ==
    \/ \E r \in Regs : Encrypt(r)
    \/ \E a, b, r \in Regs :
        \/ EvalAdd(a, b, r)
        \/ EvalAddMutable(a, b, r)
        \/ EvalMult(a, b, r)
        \/ EvalMultMutable(a, b, r)
    \/ \E a, r \in Regs :
        \/ EvalAddPlaintext(a, r)
        \/ EvalAddMutablePlaintext(a, r)
        \/ EvalMultPlaintext(a, r)
        \/ EvalMultMutablePlaintext(a, r)
        \/ EvalSquare(a, r)
    \/ \E a, r \in Regs, n \in 1 .. SizeQ : ModReduce(a, r, n) \/ LevelReduce(a, r, n)
    \/ \E a \in Regs, n \in 1 .. SizeQ : Compress(a, n)

Spec == Init /\ [][Next]_vars

-----------------------------------------------------------------------------

Stored == {ct[r] : r \in {x \in Regs : Holds(x)}}

\* Every variable holds nothing or a ciphertext with metadata in range.
TypeOK ==
    /\ ct \in [Regs -> Ciphertext \cup {Null}]
    /\ sent \in Ciphertext \cup {Null}

\* Decrypting any ciphertext, whatever it went through, divides the message by
\* exactly the factor it was multiplied by, and that factor is invertible: the
\* residue kept by ModReduceInternalInPlace and overwritten by
\* AdjustLevelsAndDepthInPlace is the one in the ring elements.
DecryptsToMessage ==
    \A c \in Stored \cup ({sent} \ {Null}) :
        /\ DecryptResult(c) # 0
        /\ DecryptResult(c) = Decrypted(c)

\* Sums are only formed of ring elements with the same towers and the same
\* true factor, and no operation within the declared depth runs out of towers.
NoFault == \A c \in Stored : c.fault = {}

\* A ciphertext can always be rescaled to degree 1 and leave a tower, and its
\* level counts the towers that are gone.
RescaleHeadroom ==
    \A c \in Stored : /\ c.deg \in 1 .. c.towers
                      /\ c.level + c.towers = SizeQ

=============================================================================
