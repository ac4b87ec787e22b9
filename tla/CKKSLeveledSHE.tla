--------------------------- MODULE CKKSLeveledSHE ---------------------------
(***************************************************************************)
(* Level, depth and scale management of the RNS variant of CKKS: the       *)
(* operations of LeveledSHERNS as specialised by LeveledSHECKKSRNS.        *)
(*                                                                         *)
(* A ciphertext carries a modulus chain of `towers' primes and the metadata*)
(* the library keeps beside it: the level, the noise scale degree and the  *)
(* recorded scaling factor.  The message itself is abstracted to its true  *)
(* scale, the factor the plaintext really is multiplied by.  Scales form a *)
(* multiplicative group; they are written as integer logarithms, so that a *)
(* product of factors is a sum and dropping a prime subtracts its weight.  *)
(***************************************************************************)
EXTENDS Integers, FiniteSets

CONSTANTS
    SizeQ,               \* number of primes q_0 .. q_{SizeQ-1} of a fresh ciphertext
    ScalTech,            \* the scaling technique of the crypto context
    LogModulus,          \* LogModulus[i] is the log of q_0 * ... * q_{i-1}
    ScalingFactorsReal,  \* m_scalingFactorsReal, by level
    ApproxSF,            \* m_approxSF = 2^p, the scale of the FIXED techniques
    MultDepth,           \* the multiplicative depth the context was generated for
    Regs,                \* the program's ciphertext variables
    AliasedOperands,     \* may a mutable product be called with one object twice
    Null                 \* a variable that holds no ciphertext

\* FLEXIBLEAUTO and FLEXIBLEAUTOEXT keep one exact scaling factor per level.
Flexible == ScalTech \in {"FLEXIBLEAUTO", "FLEXIBLEAUTOEXT"}

Ext == ScalTech = "FLEXIBLEAUTOEXT"

Manual == ScalTech = "FIXEDMANUAL"

ExtraPrime == IF Ext THEN 1 ELSE 0

LogQ(i) == LogModulus[i + 1] - LogModulus[i]

\* Level k is reached by dropping q_{SizeQ-k} from a product of two ciphertexts
\* of level k-1, and its scale is what that leaves.  FLEXIBLEAUTOEXT starts
\* the recurrence at level 1, below the extra prime.
PrecomputeCRTTables(sf) ==
    /\ sf[0] = LogQ(SizeQ - 1)
    /\ Ext => sf[1] = LogQ(SizeQ - 2)
    /\ \A k \in (1 + ExtraPrime) .. (SizeQ - 1) :
           sf[k] = 2 * sf[k - 1] - LogQ(SizeQ - k)

ASSUME TechniqueAssumption ==
    ScalTech \in {"FIXEDMANUAL", "FIXEDAUTO", "FLEXIBLEAUTO", "FLEXIBLEAUTOEXT"}

ASSUME SizeAssumption ==
    /\ SizeQ \in Nat /\ MultDepth \in Nat \ {0}
    /\ SizeQ = MultDepth + 1 + ExtraPrime
    /\ AliasedOperands \in BOOLEAN

ASSUME TableAssumption ==
    /\ LogModulus \in [0 .. SizeQ -> Int]
    /\ ScalingFactorsReal \in [0 .. (SizeQ - 1) -> Int]
    /\ ApproxSF \in Int
    /\ Flexible => PrecomputeCRTTables(ScalingFactorsReal)

\* The FIXED techniques take every prime above q_0 to be 2^p.
ASSUME FixedAssumption ==
    ~Flexible => \A i \in 1 .. (SizeQ - 1) : LogQ(i) = ApproxSF

-----------------------------------------------------------------------------

GetScalingFactorReal(l) ==
    IF Flexible /\ l < SizeQ THEN ScalingFactorsReal[l] ELSE ApproxSF

GetScalingFactorRealBig(l) ==
    IF Flexible /\ l < SizeQ - 1
    THEN ScalingFactorsReal[l]
             + ScalingFactorsReal[IF Ext /\ l = 0 THEN 1 ELSE l]
    ELSE ApproxSF

\* The factors recorded for dropping the last n of t towers, multiplied.
GetModReduceFactor(t, n) ==
    IF Flexible THEN LogModulus[t] - LogModulus[t - n] ELSE n * ApproxSF

-----------------------------------------------------------------------------
(***************************************************************************)
(* Ciphertexts.  level, towers, deg and sf are the program's; the ghosts   *)
(* are scale (the true scale), depth (multiplications on the longest path  *)
(* to this ciphertext) and fault (what has gone wrong on the way: an       *)
(* exception for want of towers, or a sum of unequal scales or moduli).    *)
(***************************************************************************)

Ciphertext ==
    [level : 0 .. SizeQ, towers : 0 .. SizeQ, deg : Nat, sf : Int,
     scale : Int, depth : Nat,
     fault : SUBSET {"no towers left", "towers differ", "scales differ"}]

Max2(x, y) == IF x > y THEN x ELSE y

Faulty(c, bad, f) == IF bad THEN c.fault \cup {f} ELSE c.fault

\* Mutant: the recorded factor is that of the prime above the dropped one.
ModReduceWrongFactor(c, n) ==
    IF c.towers <= n
    THEN [c EXCEPT !.fault = @ \cup {"no towers left"}]
    ELSE [c EXCEPT !.towers = @ - n, !.deg = @ - n, !.level = @ + n,
                   !.sf = @ - GetModReduceFactor(c.towers - 1, n),
                   !.scale = @ - (LogModulus[c.towers] - LogModulus[c.towers - n])]

\* Mutant: rescaling forgets to lower the degree.
ModReduceKeepsDegree(c, n) ==
    IF c.towers <= n
    THEN [c EXCEPT !.fault = @ \cup {"no towers left"}]
    ELSE [c EXCEPT !.towers = @ - n, !.level = @ + n,
                   !.sf = @ - GetModReduceFactor(c.towers, n),
                   !.scale = @ - (LogModulus[c.towers] - LogModulus[c.towers - n])]

ModReduceInternalInPlace(c, n) ==
    IF c.towers <= n
    THEN [c EXCEPT !.fault = @ \cup {"no towers left"}]
    ELSE [c EXCEPT !.towers = @ - n, !.deg = @ - n, !.level = @ + n,
                   !.sf = @ - GetModReduceFactor(c.towers, n),
                   !.scale = @ - (LogModulus[c.towers] - LogModulus[c.towers - n])]

\* Mutant: the towers go, the level is not raised.
LevelReduceKeepsLevel(c, n) ==
    IF c.towers <= n
    THEN [c EXCEPT !.fault = @ \cup {"no towers left"}]
    ELSE [c EXCEPT !.towers = @ - n]

\* Mutant: the level is raised once per ciphertext element.
LevelReducePerElement(c, n) ==
    IF c.towers <= n
    THEN [c EXCEPT !.fault = @ \cup {"no towers left"}]
    ELSE [c EXCEPT !.towers = @ - n, !.level = @ + 2 * n]

LevelReduceInternalInPlace(c, n) ==
    IF c.towers <= n
    THEN [c EXCEPT !.fault = @ \cup {"no towers left"}]
    ELSE [c EXCEPT !.towers = @ - n, !.level = @ + n]

\* Multiplication by a real constant, encoded at the scale of the level.
EvalMultCoreConst(c, constant) ==
    [c EXCEPT !.deg = @ + 1,
              !.sf = @ + GetScalingFactorReal(c.level),
              !.scale = @ + constant + GetScalingFactorReal(c.level)]

\* cv1 += cv2: the metadata of the first operand is kept.
EvalAddCore(c, d) ==
    [c EXCEPT !.depth = Max2(c.depth, d.depth),
              !.fault = Faulty(c, c.towers # d.towers, "towers differ")
                            \cup Faulty(d, c.scale # d.scale, "scales differ")]

EvalMultCore(c, d) ==
    [c EXCEPT !.deg = c.deg + d.deg, !.sf = c.sf + d.sf,
              !.scale = c.scale + d.scale,
              !.depth = Max2(c.depth, d.depth) + 1,
              !.fault = Faulty(c, c.towers # d.towers, "towers differ") \cup d.fault]

\* Mutant: an operand two levels up is brought down as if it were one level up,
\* without the constant that corrects its scale.
AdjustDownUncorrected(c, d) ==
    LET x == LevelReduceInternalInPlace(c, d.level - c.level - 1)
    IN  IF c.deg = 2 /\ d.deg # 2 THEN ModReduceInternalInPlace(x, 1)
        ELSE [LevelReduceInternalInPlace(c, d.level - c.level)
                 EXCEPT !.deg = d.deg, !.sf = d.sf]

\* Bring c down to the level, the depth and the scale of d.
AdjustDown(c, d) ==
    LET gap  == d.level - c.level
        scf  == GetScalingFactorReal(c.level)
        q1   == GetModReduceFactor(c.towers, 1)
        big  == GetScalingFactorRealBig(d.level - 1)
        At(scale) == EvalMultCoreConst(c, scale - c.sf - scf)
        Below(scale) ==
            ModReduceInternalInPlace(EvalMultCoreConst(c, scale - c.sf + q1 - scf), 1)
        Recorded(x) == [x EXCEPT !.sf = d.sf]
    IN  IF c.deg = 2
        THEN IF d.deg = 2
             THEN Recorded(LevelReduceInternalInPlace(Below(d.sf), gap - 1))
             ELSE IF gap = 1
                  THEN ModReduceInternalInPlace(c, 1)
                  ELSE Recorded(ModReduceInternalInPlace(
                           LevelReduceInternalInPlace(Below(big), gap - 2), 1))
        ELSE IF d.deg = 2
             THEN Recorded(LevelReduceInternalInPlace(At(d.sf), gap))
             ELSE Recorded(ModReduceInternalInPlace(
                      LevelReduceInternalInPlace(At(big), gap - 1), 1))

\* The ghost depth of an operand that was brought down to d's level.
Aged(x, d) == [x EXCEPT !.depth = Max2(@, d.depth)]

\* What becomes of c when it meets d: the code treats both operands alike.
Lowered(c, d) ==
    IF c.level < d.level THEN Aged(AdjustDown(c, d), d)
    ELSE IF c.level = d.level /\ c.deg < d.deg THEN Aged(EvalMultCoreConst(c, 0), d)
    ELSE c

\* The operations on a pair of operands return the two adjusted operands.
AdjustLevelsAndDepthInPlace(c, d) == <<Lowered(c, d), Lowered(d, c)>>

RescaledToOne(p) ==
    IF p[1].deg = 2
    THEN <<ModReduceInternalInPlace(p[1], 1), ModReduceInternalInPlace(p[2], 1)>>
    ELSE p

AdjustLevelsAndDepthToOneInPlace(c, d) ==
    RescaledToOne(AdjustLevelsAndDepthInPlace(c, d))

AdjustLevelsInPlace(c, d) ==
    <<IF c.towers > d.towers
      THEN LevelReduceInternalInPlace(c, c.towers - d.towers) ELSE c,
      IF d.towers > c.towers
      THEN LevelReduceInternalInPlace(d, d.towers - c.towers) ELSE d>>

AdjustForAddOrSubInPlace(c, d) ==
    IF Manual THEN AdjustLevelsInPlace(c, d) ELSE AdjustLevelsAndDepthInPlace(c, d)

AdjustForMultInPlace(c, d) ==
    IF Manual THEN AdjustLevelsInPlace(c, d) ELSE AdjustLevelsAndDepthToOneInPlace(c, d)

\* One object passed for both operands: it is rescaled once per operand.
AdjustForMultAliased(c) ==
    IF ~Manual /\ c.deg = 2
    THEN ModReduceInternalInPlace(ModReduceInternalInPlace(c, 1), 1) ELSE c

\* Rescaling that precedes a square or a product with a constant.
RescaleBeforeSquare(c) ==
    IF Manual \/ c.deg = 1 THEN c ELSE ModReduceInternalInPlace(c, 1)

RescaleBeforeMultConst(c) ==
    IF ~Manual /\ c.deg = 2 THEN ModReduceInternalInPlace(c, 1) ELSE c

\* The scale a real constant is encoded at before it is added to c.
GetElementForEvalAddOrSub(c) ==
    IF Ext /\ c.level = 0 THEN GetScalingFactorRealBig(0)
    ELSE c.deg * GetScalingFactorReal(c.level)

EvalAddConstCore(c) ==
    [c EXCEPT !.fault =
        Faulty(c, c.scale # GetElementForEvalAddOrSub(c), "scales differ")]

\* A plaintext encoded at a level, and the ciphertext Encrypt makes of it or
\* the operand MorphPlaintext makes of it.
MakeCKKSPackedPlaintext(l, d) ==
    LET fresh == Ext /\ l = 0
        sf    == IF fresh THEN GetScalingFactorRealBig(0)
                 ELSE d * GetScalingFactorReal(l)
        deg   == IF fresh THEN 2 ELSE d
    IN  [level |-> l, towers |-> SizeQ - l, deg |-> deg, sf |-> sf,
         scale |-> sf, depth |-> l + deg - 1 - ExtraPrime, fault |-> {}]

\* The scale Decode divides by.
DecodeScale(c) ==
    IF Flexible THEN c.sf
    ELSE IF c.towers = 1 THEN ApproxSF ELSE c.deg * ApproxSF

-----------------------------------------------------------------------------
(***************************************************************************)
(* The program: any sequence of calls on the variables Regs.  An in-place  *)
(* call is the case where the result variable is the first operand.        *)
(***************************************************************************)

VARIABLES
    ct,      \* ct[r] is the ciphertext in variable r, or Null
    sent     \* the last ciphertext compressed for decryption, or Null

vars == <<ct, sent>>

Init ==
    /\ ct = [r \in Regs |-> Null]
    /\ sent = Null

Holds(a) == ct[a] # Null

\* What the library asks of its caller.  With automatic rescaling: a circuit
\* no deeper than the context was generated for.  With manual rescaling: to
\* keep a tower for every pending rescaling.
WithinDepth(c) ==
    IF Manual THEN c.level + c.deg <= SizeQ ELSE c.depth <= MultDepth

\* The plaintexts a caller may make; the level is checked by the code, the
\* degree is an argument.
Plaintexts ==
    {MakeCKKSPackedPlaintext(l, d) : l \in 0 .. (SizeQ - 1), d \in {1, 2}}

\* In the manual technique the caller adds only equal degrees.
Addable(c, d) == Manual => c.deg = d.deg

\* The result of a call goes to r, and the mutable calls leave the adjusted
\* operands p in the variables they came from.
SumOf(p) == EvalAddCore(p[1], p[2])

StoreSum(r, p) == ct' = [ct EXCEPT ![r] = SumOf(p)]

StoreSumAndFirst(a, r, p) == ct' = [ct EXCEPT ![a] = p[1], ![r] = SumOf(p)]

StoreSumAndBoth(a, b, r, p) ==
    ct' = [ct EXCEPT ![a] = p[1], ![b] = p[2], ![r] = SumOf(p)]

Twice(x) == <<x, x>>

ProductOf(p) == EvalMultCore(p[1], p[2])

StoreProduct(r, p) ==
    WithinDepth(ProductOf(p)) /\ ct' = [ct EXCEPT ![r] = ProductOf(p)]

StoreProductAndFirst(a, r, p) ==
    WithinDepth(ProductOf(p)) /\ ct' = [ct EXCEPT ![a] = p[1], ![r] = ProductOf(p)]

StoreProductAndBoth(a, b, r, p) ==
    /\ WithinDepth(ProductOf(p))
    /\ ct' = [ct EXCEPT ![a] = p[1], ![b] = p[2], ![r] = ProductOf(p)]

Encrypt(r) ==
    \E p \in Plaintexts :
        /\ WithinDepth(p)
        /\ ct' = [ct EXCEPT ![r] = p]
        /\ UNCHANGED sent

\* EvalAdd, EvalSub and their in-place forms: the operands are cloned.
EvalAdd(a, b, r) ==
    /\ Holds(a) /\ Holds(b) /\ Addable(ct[a], ct[b])
    /\ StoreSum(r, AdjustForAddOrSubInPlace(ct[a], ct[b]))
    /\ UNCHANGED sent

\* EvalAddMutable, EvalSubMutable: the operands themselves are adjusted.
EvalAddMutable(a, b, r) ==
    /\ a # b /\ Holds(a) /\ Holds(b) /\ Addable(ct[a], ct[b])
    /\ StoreSumAndBoth(a, b, r, AdjustForAddOrSubInPlace(ct[a], ct[b]))
    /\ UNCHANGED sent

EvalAddPlaintext(a, r) ==
    /\ Holds(a)
    /\ \E pt \in Plaintexts :
        /\ WithinDepth(pt) /\ Addable(ct[a], pt)
        /\ StoreSum(r, AdjustForAddOrSubInPlace(ct[a], pt))
    /\ UNCHANGED sent

\* The mutable form changes the ciphertext it is given as well.
EvalAddMutablePlaintext(a, r) ==
    /\ Holds(a)
    /\ \E pt \in Plaintexts :
        /\ WithinDepth(pt) /\ Addable(ct[a], pt)
        /\ StoreSumAndFirst(a, r, AdjustForAddOrSubInPlace(ct[a], pt))
    /\ UNCHANGED sent

EvalAddConst(a, r) ==
    /\ Holds(a)
    /\ ct' = [ct EXCEPT ![r] = EvalAddConstCore(ct[a])]
    /\ UNCHANGED sent

EvalMult(a, b, r) ==
    /\ Holds(a) /\ Holds(b)
    /\ StoreProduct(r, AdjustForMultInPlace(ct[a], ct[b]))
    /\ UNCHANGED sent

EvalMultMutable(a, b, r) ==
    /\ a # b /\ Holds(a) /\ Holds(b)
    /\ StoreProductAndBoth(a, b, r, AdjustForMultInPlace(ct[a], ct[b]))
    /\ UNCHANGED sent

EvalMultMutableAliased(a, r) ==
    /\ AliasedOperands /\ Holds(a)
    /\ StoreProductAndFirst(a, r, Twice(AdjustForMultAliased(ct[a])))
    /\ UNCHANGED sent

EvalSquare(a, r) ==
    /\ Holds(a)
    /\ StoreProduct(r, Twice(RescaleBeforeSquare(ct[a])))
    /\ UNCHANGED sent

EvalSquareMutable(a, r) ==
    /\ Holds(a)
    /\ StoreProductAndFirst(a, r, Twice(RescaleBeforeMultConst(ct[a])))
    /\ UNCHANGED sent

EvalMultPlaintext(a, r) ==
    /\ Holds(a)
    /\ \E pt \in Plaintexts :
        /\ WithinDepth(pt)
        /\ StoreProduct(r, AdjustForMultInPlace(ct[a], pt))
    /\ UNCHANGED sent

EvalMultMutablePlaintext(a, r) ==
    /\ Holds(a)
    /\ \E pt \in Plaintexts :
        /\ WithinDepth(pt)
        /\ StoreProductAndFirst(a, r, AdjustForMultInPlace(ct[a], pt))
    /\ UNCHANGED sent

EvalMultConst(a, r) ==
    /\ Holds(a)
    /\ LET c == [EvalMultCoreConst(RescaleBeforeMultConst(ct[a]), 0)
                   EXCEPT !.depth = @ + 1]
       IN  /\ WithinDepth(c)
           /\ ct' = [ct EXCEPT ![r] = c]
    /\ UNCHANGED sent

\* ModReduce and LevelReduce act in the manual technique only.
ModReduce(a, r, n) ==
    /\ Holds(a)
    /\ Manual => n < ct[a].deg
    /\ ct' = [ct EXCEPT ![r] = IF Manual THEN ModReduceInternalInPlace(ct[a], n)
                               ELSE ct[a]]
    /\ UNCHANGED sent

LevelReduce(a, r, n) ==
    /\ Holds(a)
    /\ Manual => n < ct[a].towers
    /\ LET c == IF Manual THEN LevelReduceInternalInPlace(ct[a], n) ELSE ct[a]
       IN  /\ WithinDepth(c)
           /\ ct' = [ct EXCEPT ![r] = c]
    /\ UNCHANGED sent

\* Mutant: towers are dropped before the pending rescalings are done.
CompressDropsFirst(a, towersLeft) ==
    /\ Holds(a)
    /\ sent' = IF towersLeft < ct[a].towers
               THEN LevelReduceInternalInPlace(ct[a], ct[a].towers - towersLeft)
               ELSE ModReduceInternalInPlace(ct[a], Max2(ct[a].deg - 1, 0))
    /\ UNCHANGED ct

\* Compress rescales until the degree is 1, one tower at a time, and drops
\* towers until at most `towersLeft' are left.
Compress(a, towersLeft) ==
    /\ Holds(a)
    /\ LET c == ModReduceInternalInPlace(ct[a], Max2(ct[a].deg - 1, 0))
       IN  sent' = IF towersLeft < c.towers
                   THEN LevelReduceInternalInPlace(c, c.towers - towersLeft) ELSE c
    /\ UNCHANGED ct

BinaryCall(a, b, r) ==
    \/ EvalAdd(a, b, r)
    \/ EvalAddMutable(a, b, r)
    \/ EvalMult(a, b, r)
    \/ EvalMultMutable(a, b, r)

UnaryCall(a, r) ==
    \/ EvalAddPlaintext(a, r)
    \/ EvalAddMutablePlaintext(a, r)
    \/ EvalAddConst(a, r)
    \/ EvalMultMutableAliased(a, r)
    \/ EvalSquare(a, r)
    \/ EvalSquareMutable(a, r)
    \/ EvalMultPlaintext(a, r)
    \/ EvalMultMutablePlaintext(a, r)
    \/ EvalMultConst(a, r)

Next ==
    \/ \E r \in Regs : Encrypt(r)
    \/ \E a, b, r \in Regs : BinaryCall(a, b, r)
    \/ \E a, r \in Regs : UnaryCall(a, r)
    \/ \E a, r \in Regs, n \in 1 .. SizeQ : ModReduce(a, r, n) \/ LevelReduce(a, r, n)
    \/ \E a \in Regs, n \in 1 .. SizeQ : Compress(a, n)

Spec == Init /\ [][Next]_vars

-----------------------------------------------------------------------------

\* Every variable holds nothing or a ciphertext with metadata in range.
TypeOK ==
    /\ ct \in [Regs -> Ciphertext \cup {Null}]
    /\ sent \in Ciphertext \cup {Null}

\* Decoding divides by the scale the message really has: the factor that
\* AdjustLevelsAndDepthInPlace and ModReduceInternalInPlace record, or the one
\* Decode derives from the degree, is the factor the ring elements carry.
DecodesAtTrueScale ==
    \A r \in Regs : Holds(r) => ct[r].scale = DecodeScale(ct[r])

\* Sums are only formed of ring elements with the same towers and the same
\* true scale (operator+= on DCRTPoly checks neither), and no operation of a
\* circuit within the declared depth runs out of towers.
NoFault ==
    \A r \in Regs : Holds(r) => ct[r].fault = {}

\* Every ciphertext can still be rescaled to degree 1 and leave a tower: what
\* GetNoiseScaleDeg promises is never more than the modulus chain can pay.  The
\* level counts the towers that are gone, whatever mix of rescaling, level
\* reduction and adjustment it went through (SetLevel beside DropLastElement).
RescaleHeadroom ==
    \A r \in Regs : Holds(r) => /\ ct[r].deg >= 1
                                /\ ct[r].deg <= ct[r].towers
                                /\ ct[r].level + ct[r].towers = SizeQ

\* A compressed ciphertext has degree 1, at least one tower and decodes at its
\* true scale, although its level is no longer the level of its scale.
SentDecodes ==
    sent # Null => /\ sent.fault = {} /\ sent.deg = 1 /\ sent.towers >= 1
                   /\ sent.scale = DecodeScale(sent)

=============================================================================
