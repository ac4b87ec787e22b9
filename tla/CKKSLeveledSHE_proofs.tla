------------------------ MODULE CKKSLeveledSHE_proofs ------------------------
(***************************************************************************)
(* For every number of primes, all weights of the primes and every set of  *)
(* variables: with FLEXIBLEAUTO and FLEXIBLEAUTOEXT the recorded scale is  *)
(* the true scale, sums meet at one scale and no call runs out of towers.  *)
(* The second half proves the same of FIXEDMANUAL, where the caller        *)
(* rescales.                                                               *)
(***************************************************************************)
EXTENDS CKKSLeveledSHE, TLAPS, NaturalsInduction, WellFoundedInduction

\* The one scale a ciphertext of level l and degree d may have.
Canon(l, d) ==
    IF d = 1 THEN GetScalingFactorReal(l) ELSE GetScalingFactorRealBig(l)

\* What every ciphertext of a program satisfies.  The last two conjuncts make
\* it inductive: a level is paid for by depth, and below FLEXIBLEAUTOEXT's
\* extra prime there is no ciphertext of degree 1.
Good(c) ==
    /\ c \in Ciphertext
    /\ c.level + c.towers = SizeQ
    /\ c.deg \in {1, 2}
    /\ c.sf = Canon(c.level, c.deg)
    /\ c.scale = c.sf
    /\ c.fault = {}
    /\ c.depth <= MultDepth
    /\ c.level + c.deg <= c.depth + ExtraPrime + 1
    /\ Ext /\ c.level = 0 => c.deg = 2

GoodSent(c) ==
    /\ c \in Ciphertext
    /\ c.deg = 1 /\ c.towers >= 1 /\ c.fault = {} /\ c.scale = c.sf

Store(f) ==
    /\ f \in [Regs -> Ciphertext \cup {Null}]
    /\ \A r \in Regs : f[r] # Null => Good(f[r])

\* The inductive invariant.
IInv ==
    /\ Store(ct)
    /\ sent \in Ciphertext \cup {Null}
    /\ sent # Null => GoodSent(sent)

-----------------------------------------------------------------------------

\* The table of scales is typed, and so are the factors read from it.
LEMMA ScaleTypes ==
    ASSUME Flexible
    PROVE  /\ SizeQ \in Nat /\ SizeQ >= 2 /\ MultDepth \in Nat
           /\ ExtraPrime \in {0, 1} /\ SizeQ = MultDepth + 1 + ExtraPrime
           /\ Ext => SizeQ >= 3
           /\ ~Manual
           /\ \A l \in Int : GetScalingFactorReal(l) \in Int \/ l < 0
           /\ \A l \in Nat : GetScalingFactorReal(l) \in Int
           /\ \A l \in Nat : GetScalingFactorRealBig(l) \in Int
BY SizeAssumption, TableAssumption, SMTT(60)
   DEF Flexible, Ext, Manual, ExtraPrime, GetScalingFactorReal, GetScalingFactorRealBig

LEMMA LogModulusInt == \A i \in 0 .. SizeQ : LogModulus[i] \in Int
BY TableAssumption, Zenon

\* One step of the recurrence: dropping the last prime of level l turns the
\* scale of degree 2 of level l into the scale of degree 1 of level l + 1.
LEMMA Recurrence ==
    ASSUME Flexible, NEW l \in Nat, l + 1 < SizeQ
    PROVE  /\ LogModulus[SizeQ - l] \in Int /\ LogModulus[SizeQ - l - 1] \in Int
           /\ GetScalingFactorRealBig(l) - (LogModulus[SizeQ - l] - LogModulus[SizeQ - l - 1])
                  = GetScalingFactorReal(l + 1)
<1>1. l \in 0 .. (SizeQ - 1) /\ l + 1 \in 0 .. (SizeQ - 1) /\ SizeQ \in Nat
  BY SizeAssumption
<1>2. LogModulus[SizeQ - l] \in Int /\ LogModulus[SizeQ - l - 1] \in Int
  BY <1>1, TableAssumption
<1>3. ScalingFactorsReal[l] \in Int /\ ScalingFactorsReal[l + 1] \in Int
  BY <1>1, TableAssumption, Zenon
<1>4. GetScalingFactorReal(l + 1) = ScalingFactorsReal[l + 1]
  BY <1>1, Zenon DEF GetScalingFactorReal
<1>5. CASE Ext /\ l = 0
  <2>1. /\ ScalingFactorsReal[0] = LogModulus[SizeQ] - LogModulus[SizeQ - 1]
        /\ GetScalingFactorRealBig(0) = ScalingFactorsReal[0] + ScalingFactorsReal[1]
    BY <1>5, <1>1, TableAssumption
       DEF PrecomputeCRTTables, LogQ, GetScalingFactorRealBig
  <2>2. SizeQ - l = SizeQ /\ SizeQ - l - 1 = SizeQ - 1 /\ l + 1 = 1
    BY <1>5, <1>1
  <2> QED BY <2>1, <2>2, <1>2, <1>3, <1>4, <1>5
<1>6. CASE ~(Ext /\ l = 0)
  <2>1. l + 1 \in (1 + ExtraPrime) .. (SizeQ - 1)
    BY <1>6, <1>1 DEF ExtraPrime
  <2>2. ScalingFactorsReal[l + 1] = 2 * ScalingFactorsReal[(l + 1) - 1] - LogQ(SizeQ - (l + 1))
    BY <2>1, TableAssumption, Zenon DEF PrecomputeCRTTables
  <2>3. /\ (l + 1) - 1 = l /\ SizeQ - (l + 1) = SizeQ - l - 1
        /\ (SizeQ - l - 1) + 1 = SizeQ - l
    BY <1>1
  <2>4. ScalingFactorsReal[l + 1] =
            2 * ScalingFactorsReal[l] - (LogModulus[SizeQ - l] - LogModulus[SizeQ - l - 1])
    BY <2>2, <2>3, Zenon DEF LogQ
  <2>5. GetScalingFactorRealBig(l) = ScalingFactorsReal[l] + ScalingFactorsReal[l]
    BY <1>6, <1>1 DEF GetScalingFactorRealBig
  <2> QED BY <2>4, <2>5, <1>2, <1>3, <1>4
<1> QED BY <1>5, <1>6, <1>2, Zenon

-----------------------------------------------------------------------------
\* What the three primitive operations do to each field.

LEMMA ModReduceFields ==
    ASSUME Flexible, NEW c \in Ciphertext, c.level + c.towers = SizeQ,
           c.deg >= 1, c.towers >= 2
    PROVE  LET x == ModReduceInternalInPlace(c, 1)
           IN  /\ x \in Ciphertext
               /\ x.level = c.level + 1 /\ x.towers = c.towers - 1
               /\ x.deg = c.deg - 1 /\ x.depth = c.depth /\ x.fault = c.fault
               /\ x.sf = c.sf - (LogModulus[c.towers] - LogModulus[c.towers - 1])
               /\ x.scale = c.scale - (LogModulus[c.towers] - LogModulus[c.towers - 1])
<1>1. /\ c.level \in 0 .. SizeQ /\ c.towers \in 0 .. SizeQ /\ c.deg \in Nat
      /\ c.sf \in Int /\ c.scale \in Int /\ SizeQ \in Nat
  BY ScaleTypes, Zenon DEF Ciphertext
<1>2. ~(c.towers <= 1) /\ c.level + 1 \in 0 .. SizeQ /\ c.towers - 1 \in 0 .. SizeQ
      /\ c.deg - 1 \in Nat
  BY <1>1
<1> DEFINE q == LogModulus[c.towers] - LogModulus[c.towers - 1]
           x == ModReduceInternalInPlace(c, 1)
<1>3. q \in Int
  BY <1>1, <1>2, LogModulusInt
<1>4. x = [c EXCEPT !.towers = c.towers - 1, !.deg = c.deg - 1, !.level = c.level + 1,
                    !.sf = c.sf - q, !.scale = c.scale - q]
  BY <1>2, Zenon DEF ModReduceInternalInPlace, GetModReduceFactor
<1> HIDE DEF q, x
<1>5. c.sf - q \in Int /\ c.scale - q \in Int
  BY <1>1, <1>3
<1>6. /\ x \in Ciphertext
      /\ x.level = c.level + 1 /\ x.towers = c.towers - 1
      /\ x.deg = c.deg - 1 /\ x.depth = c.depth /\ x.fault = c.fault
      /\ x.sf = c.sf - q /\ x.scale = c.scale - q
  BY <1>2, <1>4, <1>5, Zenon DEF Ciphertext
<1> QED BY <1>6, Zenon DEF x, q

LEMMA LevelReduceFields ==
    ASSUME Flexible, NEW c \in Ciphertext, c.level + c.towers = SizeQ,
           NEW n \in Nat, n < c.towers
    PROVE  LET x == LevelReduceInternalInPlace(c, n)
           IN  /\ x \in Ciphertext
               /\ x.level = c.level + n /\ x.towers = c.towers - n
               /\ x.deg = c.deg /\ x.depth = c.depth /\ x.fault = c.fault
               /\ x.sf = c.sf /\ x.scale = c.scale
<1>1. /\ c.level \in 0 .. SizeQ /\ c.towers \in 0 .. SizeQ /\ SizeQ \in Nat
  BY ScaleTypes, Zenon DEF Ciphertext
<1>2. ~(c.towers <= n) /\ c.level + n \in 0 .. SizeQ /\ c.towers - n \in 0 .. SizeQ
  BY <1>1
<1> QED
  BY <1>2, Zenon DEF LevelReduceInternalInPlace, Ciphertext

LEMMA MultConstFields ==
    ASSUME Flexible, NEW c \in Ciphertext, NEW k \in Int
    PROVE  LET x == EvalMultCoreConst(c, k)
           IN  /\ x \in Ciphertext
               /\ x.level = c.level /\ x.towers = c.towers
               /\ x.deg = c.deg + 1 /\ x.depth = c.depth /\ x.fault = c.fault
               /\ x.sf = c.sf + GetScalingFactorReal(c.level)
               /\ x.scale = c.scale + k + GetScalingFactorReal(c.level)
<1>0. c.level \in 0 .. SizeQ /\ c.deg \in Nat /\ c.sf \in Int /\ c.scale \in Int
  BY Zenon DEF Ciphertext
<1>1. c.level \in Nat /\ c.deg \in Nat /\ c.sf \in Int /\ c.scale \in Int
  BY <1>0, SizeAssumption
<1>2. GetScalingFactorReal(c.level) \in Int
  BY <1>1, ScaleTypes, Zenon
<1> DEFINE x == EvalMultCoreConst(c, k)
           f == GetScalingFactorReal(c.level)
<1>3. x = [c EXCEPT !.deg = c.deg + 1, !.sf = c.sf + f, !.scale = c.scale + k + f]
  BY Zenon DEF EvalMultCoreConst
<1> HIDE DEF x, f
<1>4. c.sf + f \in Int /\ c.scale + k + f \in Int /\ c.deg + 1 \in Nat
  BY <1>1, <1>2 DEF f
<1>5. /\ x \in Ciphertext
      /\ x.level = c.level /\ x.towers = c.towers
      /\ x.deg = c.deg + 1 /\ x.depth = c.depth /\ x.fault = c.fault
      /\ x.sf = c.sf + f /\ x.scale = c.scale + k + f
  BY <1>3, <1>4, Zenon DEF Ciphertext
<1> QED BY <1>5, Zenon DEF x, f

-----------------------------------------------------------------------------
\* Facts about a good ciphertext that the later steps use.
LEMMA GoodFacts ==
    ASSUME Flexible, NEW c, Good(c)
    PROVE  /\ c \in Ciphertext /\ c.level \in Nat /\ c.towers \in Nat /\ c.depth \in Nat
           /\ c.level < SizeQ /\ c.deg <= c.towers /\ c.level + c.towers = SizeQ
           /\ c.sf \in Int /\ c.scale \in Int
<1>1. /\ c \in Ciphertext /\ c.level \in 0 .. SizeQ /\ c.towers \in 0 .. SizeQ
      /\ c.depth \in Nat /\ c.sf \in Int /\ c.scale \in Int
  BY Zenon DEF Good, Ciphertext
<1>2. /\ c.level + c.towers = SizeQ /\ c.deg \in {1, 2} /\ c.depth <= MultDepth
      /\ c.level + c.deg <= c.depth + ExtraPrime + 1
  BY Zenon DEF Good
<1> QED BY <1>1, <1>2, ScaleTypes

\* Rescaling a good ciphertext of degree 2 gives a good one of degree 1.
LEMMA ModReduceGood ==
    ASSUME Flexible, NEW c, Good(c), c.deg = 2
    PROVE  LET x == ModReduceInternalInPlace(c, 1)
           IN  Good(x) /\ x.deg = 1 /\ x.level = c.level + 1 /\ x.depth = c.depth
<1> DEFINE x == ModReduceInternalInPlace(c, 1)
<1>1. /\ c \in Ciphertext /\ c.level \in Nat /\ c.towers = SizeQ - c.level
      /\ c.level + 1 < SizeQ /\ c.level + c.towers = SizeQ /\ c.towers >= 2
      /\ SizeQ \in Nat /\ c.towers - 1 = SizeQ - c.level - 1
  BY GoodFacts, ScaleTypes
<1>2. /\ x \in Ciphertext
      /\ x.level = c.level + 1 /\ x.towers = c.towers - 1
      /\ x.deg = c.deg - 1 /\ x.depth = c.depth /\ x.fault = c.fault
      /\ x.sf = c.sf - (LogModulus[c.towers] - LogModulus[c.towers - 1])
      /\ x.scale = c.scale - (LogModulus[c.towers] - LogModulus[c.towers - 1])
  BY <1>1, ModReduceFields
<1>3. x.sf = GetScalingFactorReal(c.level + 1)
  BY <1>1, <1>2, Recurrence DEF Good, Canon
<1>4. x.sf = x.scale
  BY <1>2, Zenon DEF Good
<1>5. x.sf = Canon(x.level, x.deg)
  BY <1>2, <1>3 DEF Canon
<1> HIDE DEF x
<1>6. Good(x) /\ x.deg = 1
  BY <1>1, <1>2, <1>4, <1>5, ScaleTypes DEF Good
<1> QED BY <1>6, <1>2, Zenon DEF x

LEMMA RecordedFields ==
    ASSUME NEW c \in Ciphertext, NEW s \in Int
    PROVE  LET x == [c EXCEPT !.sf = s]
           IN  /\ x \in Ciphertext
               /\ x.level = c.level /\ x.towers = c.towers /\ x.deg = c.deg
               /\ x.depth = c.depth /\ x.fault = c.fault /\ x.scale = c.scale
               /\ x.sf = s
BY Zenon DEF Ciphertext

\* An operand of a lower level is brought to exactly the other operand's level,
\* towers, degree and scale, recorded and true.
LEMMA AdjustDownMeets ==
    ASSUME Flexible, NEW c, NEW d, Good(c), Good(d), c.level < d.level
    PROVE  LET x == AdjustDown(c, d)
           IN  /\ x \in Ciphertext
               /\ x.level = d.level /\ x.towers = d.towers /\ x.deg = d.deg
               /\ x.sf = d.sf /\ x.scale = d.sf
               /\ x.fault = {} /\ x.depth = c.depth
<1> DEFINE gap == d.level - c.level
           scf == GetScalingFactorReal(c.level)
           q1  == GetModReduceFactor(c.towers, 1)
           big == GetScalingFactorRealBig(d.level - 1)
           Meets(x) == /\ x \in Ciphertext
                       /\ x.level = d.level /\ x.towers = d.towers /\ x.deg = d.deg
                       /\ x.sf = d.sf /\ x.scale = d.sf
                       /\ x.fault = {} /\ x.depth = c.depth
           Recorded(x) == [x EXCEPT !.sf = d.sf]
           At(s) == EvalMultCoreConst(c, s - c.sf - scf)
           Up(s) == EvalMultCoreConst(c, s - c.sf + q1 - scf)
           Below(s) == ModReduceInternalInPlace(Up(s), 1)
<1>1. /\ c \in Ciphertext /\ c.level \in Nat /\ c.towers \in Nat
      /\ c.level + c.towers = SizeQ /\ c.sf \in Int /\ c.scale \in Int
      /\ d \in Ciphertext /\ d.level \in Nat /\ d.towers \in Nat
      /\ d.level + d.towers = SizeQ /\ d.sf \in Int /\ d.level < SizeQ
      /\ SizeQ \in Nat
  BY GoodFacts, SizeAssumption, Zenon
<1>2. /\ c.deg \in {1, 2} /\ d.deg \in {1, 2} /\ c.scale = c.sf /\ c.fault = {}
  BY Zenon DEF Good
<1>3. /\ gap \in Nat /\ gap >= 1 /\ c.towers >= 2 /\ d.level - 1 \in Nat
      /\ c.level + gap = d.level /\ c.towers - gap = d.towers /\ gap < c.towers
  BY <1>1
<1>4. scf \in Int /\ big \in Int
  BY <1>1, <1>3, ScaleTypes, Zenon
<1>5. q1 = LogModulus[c.towers] - LogModulus[c.towers - 1] /\ q1 \in Int
  <2>1. c.towers \in 0 .. SizeQ /\ c.towers - 1 \in 0 .. SizeQ
    BY <1>1, <1>3
  <2> QED BY <2>1, LogModulusInt DEF GetModReduceFactor
<1>6. big - (LogModulus[SizeQ - (d.level - 1)] - LogModulus[SizeQ - (d.level - 1) - 1])
          = GetScalingFactorReal((d.level - 1) + 1)
  <2>1. (d.level - 1) + 1 < SizeQ
    BY <1>1, <1>3
  <2> QED BY <2>1, <1>3, Recurrence, Zenon
<1>7. (d.level - 1) + 1 = d.level /\ SizeQ - (d.level - 1) = d.towers + 1
      /\ SizeQ - (d.level - 1) - 1 = d.towers
  BY <1>1, <1>3
<1>8. big - (LogModulus[d.towers + 1] - LogModulus[d.towers]) = GetScalingFactorReal(d.level)
  BY <1>6, <1>7, Zenon
<1> HIDE DEF gap, scf, q1, big
<1>9. ASSUME NEW s \in Int
      PROVE  LET x == At(s)
             IN  /\ x \in Ciphertext /\ x.level = c.level /\ x.towers = c.towers
                 /\ x.deg = c.deg + 1 /\ x.depth = c.depth /\ x.fault = {}
                 /\ x.scale = s
  <2>1. s - c.sf - scf \in Int
    BY <1>1, <1>4
  <2>2. c.scale + (s - c.sf - scf) + scf = s
    BY <1>1, <1>2, <1>4
  <2> QED BY <2>1, <2>2, <1>1, <1>2, MultConstFields, Zenon DEF scf
<1>10. ASSUME NEW s \in Int
       PROVE  LET x == Below(s)
              IN  /\ x \in Ciphertext /\ x.level = c.level + 1 /\ x.towers = c.towers - 1
                  /\ x.deg = c.deg /\ x.depth = c.depth /\ x.fault = {}
                  /\ x.scale = s
  <2>1. s - c.sf + q1 - scf \in Int
    BY <1>1, <1>4, <1>5
  <2>2. c.scale + (s - c.sf + q1 - scf) + scf = s + q1
    BY <1>1, <1>2, <1>4, <1>5
  <2>3. LET y == Up(s)
        IN  /\ y \in Ciphertext /\ y.level = c.level /\ y.towers = c.towers
            /\ y.deg = c.deg + 1 /\ y.depth = c.depth /\ y.fault = {}
            /\ y.scale = s + q1
    BY <2>1, <2>2, <1>1, <1>2, MultConstFields, ZenonT(60) DEF scf
  <2> HIDE DEF Up
  <2>4. /\ Up(s) \in Ciphertext /\ Up(s).level + Up(s).towers = SizeQ
        /\ Up(s).deg >= 1 /\ Up(s).towers >= 2
    BY <2>3, <1>1, <1>2, <1>3
  <2>5. (s + q1) - q1 = s /\ (c.deg + 1) - 1 = c.deg
    BY <1>2, <1>5
  <2> QED BY <2>3, <2>4, <2>5, <1>5, ModReduceFields, ZenonT(60)
<1> HIDE DEF At, Below
<1>11. ASSUME NEW z \in Ciphertext, z.level = d.level - 1, z.towers = d.towers + 1,
              z.deg = 2, z.fault = {}, z.depth = c.depth, z.scale = big, d.deg = 1
       PROVE  Meets(Recorded(ModReduceInternalInPlace(z, 1)))
  <2> DEFINE y == ModReduceInternalInPlace(z, 1)
  <2>1. z.level + z.towers = SizeQ /\ z.towers >= 2 /\ z.deg >= 1
        /\ z.level + 1 = d.level /\ z.towers - 1 = d.towers
    <3>1. d.towers >= 1
      BY <1>1
    <3> QED BY <1>1, <1>11, <3>1
  <2>2. /\ y \in Ciphertext /\ y.level = d.level /\ y.towers = d.towers
        /\ y.deg = 1 /\ y.depth = c.depth /\ y.fault = {}
        /\ y.scale = big - (LogModulus[d.towers + 1] - LogModulus[d.towers])
    BY <2>1, <1>11, ModReduceFields
  <2>3. d.sf = GetScalingFactorReal(d.level)
    BY <1>11, Zenon DEF Good, Canon
  <2> HIDE DEF y
  <2>4. Meets(Recorded(y))
    BY <2>2, <2>3, <1>1, <1>8, <1>11, RecordedFields
  <2> QED BY <2>4, Zenon DEF y
<1>12. CASE c.deg = 2 /\ d.deg = 2
  <2> DEFINE y == Below(d.sf)
             z == LevelReduceInternalInPlace(y, gap - 1)
  <2>1. /\ y \in Ciphertext /\ y.level = c.level + 1 /\ y.towers = c.towers - 1
        /\ y.deg = c.deg /\ y.depth = c.depth /\ y.fault = {} /\ y.scale = d.sf
    BY <1>10, <1>1, Zenon
  <2> HIDE DEF y
  <2>2. /\ gap - 1 \in Nat /\ gap - 1 < y.towers /\ y.level + y.towers = SizeQ
        /\ y.level + (gap - 1) = d.level /\ y.towers - (gap - 1) = d.towers
    BY <2>1, <1>1, <1>3
  <2>3. /\ z \in Ciphertext /\ z.level = d.level /\ z.towers = d.towers /\ z.deg = d.deg
        /\ z.depth = c.depth /\ z.fault = {} /\ z.scale = d.sf
    BY <2>1, <2>2, <1>12, LevelReduceFields, Zenon
  <2> HIDE DEF z
  <2>4. Meets(Recorded(z))
    BY <2>3, <1>1, RecordedFields
  <2>5. AdjustDown(c, d) = Recorded(z)
    BY <1>12, Zenon DEF AdjustDown, z, y, Below, Up, gap, scf, q1
  <2> QED BY <2>4, <2>5, Zenon
<1>13. CASE c.deg = 2 /\ d.deg = 1 /\ gap = 1
  <2> DEFINE x == ModReduceInternalInPlace(c, 1)
  <2>1. Good(x) /\ x.deg = 1 /\ x.level = c.level + 1 /\ x.depth = c.depth
    BY <1>13, ModReduceGood, Zenon
  <2> HIDE DEF x
  <2>2. x.level = d.level
    BY <2>1, <1>13, <1>3, Zenon
  <2>3. x \in Ciphertext /\ x.level + x.towers = SizeQ /\ x.towers \in Nat
    BY <2>1, GoodFacts, Zenon
  <2>4. x.towers = d.towers
    BY <2>2, <2>3, <1>1
  <2>5. x.sf = d.sf /\ x.scale = d.sf /\ x.fault = {}
    BY <2>1, <2>2, <1>13, Zenon DEF Good
  <2>6. Meets(x)
    BY <2>1, <2>2, <2>3, <2>4, <2>5, <1>13, Zenon
  <2>7. AdjustDown(c, d) = x
    BY <1>13 DEF AdjustDown, x, gap
  <2> QED BY <2>6, <2>7, Zenon
<1>14. CASE c.deg = 2 /\ d.deg = 1 /\ gap # 1
  <2> DEFINE y == Below(big)
             z == LevelReduceInternalInPlace(y, gap - 2)
  <2>1. /\ y \in Ciphertext /\ y.level = c.level + 1 /\ y.towers = c.towers - 1
        /\ y.deg = c.deg /\ y.depth = c.depth /\ y.fault = {} /\ y.scale = big
    BY <1>10, <1>4, Zenon
  <2> HIDE DEF y
  <2>2. /\ gap - 2 \in Nat /\ gap - 2 < y.towers /\ y.level + y.towers = SizeQ
        /\ y.level + (gap - 2) = d.level - 1 /\ y.towers - (gap - 2) = d.towers + 1
    BY <2>1, <1>1, <1>3, <1>14
  <2>3. /\ z \in Ciphertext /\ z.level = d.level - 1 /\ z.towers = d.towers + 1 /\ z.deg = 2
        /\ z.depth = c.depth /\ z.fault = {} /\ z.scale = big
    BY <2>1, <2>2, <1>14, LevelReduceFields, Zenon
  <2> HIDE DEF z
  <2>4. Meets(Recorded(ModReduceInternalInPlace(z, 1)))
    BY <2>3, <1>11, <1>14, Zenon
  <2>5. AdjustDown(c, d) = Recorded(ModReduceInternalInPlace(z, 1))
    BY <1>14 DEF AdjustDown, z, y, Below, Up, gap, scf, q1, big
  <2> QED BY <2>4, <2>5, Zenon
<1>15. CASE c.deg = 1 /\ d.deg = 2
  <2> DEFINE y == At(d.sf)
             z == LevelReduceInternalInPlace(y, gap)
  <2>1. /\ y \in Ciphertext /\ y.level = c.level /\ y.towers = c.towers
        /\ y.deg = c.deg + 1 /\ y.depth = c.depth /\ y.fault = {} /\ y.scale = d.sf
    BY <1>9, <1>1, Zenon
  <2> HIDE DEF y
  <2>2. /\ z \in Ciphertext /\ z.level = d.level /\ z.towers = d.towers /\ z.deg = d.deg
        /\ z.depth = c.depth /\ z.fault = {} /\ z.scale = d.sf
    BY <2>1, <1>1, <1>3, <1>15, LevelReduceFields
  <2> HIDE DEF z
  <2>3. Meets(Recorded(z))
    BY <2>2, <1>1, RecordedFields, ZenonT(60)
  <2>4. AdjustDown(c, d) = Recorded(z)
    BY <1>15 DEF AdjustDown, z, y, At, gap, scf
  <2> QED BY <2>3, <2>4, Zenon
<1>16. CASE c.deg = 1 /\ d.deg = 1
  <2> DEFINE y == At(big)
             z == LevelReduceInternalInPlace(y, gap - 1)
  <2>1. /\ y \in Ciphertext /\ y.level = c.level /\ y.towers = c.towers
        /\ y.deg = c.deg + 1 /\ y.depth = c.depth /\ y.fault = {} /\ y.scale = big
    BY <1>9, <1>4, Zenon
  <2> HIDE DEF y
  <2>2. /\ gap - 1 \in Nat /\ gap - 1 < y.towers /\ y.level + y.towers = SizeQ
        /\ y.level + (gap - 1) = d.level - 1 /\ y.towers - (gap - 1) = d.towers + 1
    BY <2>1, <1>1, <1>3
  <2>3. /\ z \in Ciphertext /\ z.level = d.level - 1 /\ z.towers = d.towers + 1 /\ z.deg = 2
        /\ z.depth = c.depth /\ z.fault = {} /\ z.scale = big
    BY <2>1, <2>2, <1>16, LevelReduceFields
  <2> HIDE DEF z
  <2>4. Meets(Recorded(ModReduceInternalInPlace(z, 1)))
    BY <2>3, <1>11, <1>16, Zenon
  <2>5. AdjustDown(c, d) = Recorded(ModReduceInternalInPlace(z, 1))
    BY <1>16 DEF AdjustDown, z, y, At, gap, scf, big
  <2> QED BY <2>4, <2>5, Zenon
<1> QED BY <1>2, <1>12, <1>13, <1>14, <1>15, <1>16, Zenon

\* Doubling the scale of a level is what a degree-2 ciphertext of it has.
LEMMA DoubleScale ==
    ASSUME Flexible, NEW l \in Nat, l + 1 < SizeQ, ~(Ext /\ l = 0)
    PROVE  GetScalingFactorReal(l) + GetScalingFactorReal(l) = Canon(l, 2)
BY SizeAssumption DEF Canon, GetScalingFactorReal, GetScalingFactorRealBig

LEMMA MaxFacts ==
    ASSUME NEW a \in Nat, NEW b \in Nat
    PROVE  Max2(a, b) \in Nat /\ a <= Max2(a, b) /\ b <= Max2(a, b)
           /\ (Max2(a, b) = a \/ Max2(a, b) = b)
BY DEF Max2

LEMMA AgedFields ==
    ASSUME NEW c \in Ciphertext, NEW d \in Ciphertext
    PROVE  LET x == Aged(c, d)
           IN  /\ x \in Ciphertext
               /\ x.level = c.level /\ x.towers = c.towers /\ x.deg = c.deg
               /\ x.fault = c.fault /\ x.scale = c.scale /\ x.sf = c.sf
               /\ x.depth = Max2(c.depth, d.depth)
<1>1. c.depth \in Nat /\ d.depth \in Nat
  BY Zenon DEF Ciphertext
<1>2. Max2(c.depth, d.depth) \in Nat
  BY <1>1, MaxFacts, Zenon
<1> QED BY <1>2, Zenon DEF Aged, Ciphertext

\* Whatever two good ciphertexts meet, the first one stays good and ends at the
\* higher of the two levels, and at the higher degree where the levels agree.
LEMMA LoweredGood ==
    ASSUME Flexible, NEW c, NEW d, Good(c), Good(d)
    PROVE  LET x == Lowered(c, d)
           IN  /\ Good(x)
               /\ c.level < d.level => x.level = d.level /\ x.deg = d.deg
               /\ c.level = d.level => x.level = d.level /\ x.deg = Max2(c.deg, d.deg)
               /\ c.level > d.level => x = c
<1>1. /\ c \in Ciphertext /\ c.level \in Nat /\ c.depth \in Nat /\ c.level + c.towers = SizeQ
      /\ d \in Ciphertext /\ d.level \in Nat /\ d.depth \in Nat /\ d.level + d.towers = SizeQ
      /\ c.towers \in Nat /\ d.towers \in Nat /\ d.deg <= d.towers
  BY GoodFacts, Zenon
<1>2. /\ c.deg \in {1, 2} /\ d.deg \in {1, 2}
      /\ c.depth <= MultDepth /\ d.depth <= MultDepth
      /\ d.level + d.deg <= d.depth + ExtraPrime + 1
      /\ ExtraPrime \in {0, 1} /\ MultDepth \in Nat
  BY ScaleTypes, Zenon DEF Good
<1>3. /\ Max2(c.depth, d.depth) \in Nat /\ Max2(c.depth, d.depth) <= MultDepth
      /\ d.level + d.deg <= Max2(c.depth, d.depth) + ExtraPrime + 1
  <2> DEFINE mx == Max2(c.depth, d.depth)
  <2>1. /\ mx \in Nat /\ d.depth <= mx /\ (mx = c.depth \/ mx = d.depth)
    BY <1>1, MaxFacts, Zenon
  <2> HIDE DEF mx
  <2>2. mx <= MultDepth /\ d.level + d.deg <= mx + ExtraPrime + 1
    BY <2>1, <1>1, <1>2
  <2> QED BY <2>1, <2>2, Zenon DEF mx
<1>4. CASE c.level < d.level
  <2> DEFINE y == AdjustDown(c, d)
             x == Aged(y, d)
  <2>1. /\ y \in Ciphertext
        /\ y.level = d.level /\ y.towers = d.towers /\ y.deg = d.deg
        /\ y.sf = d.sf /\ y.scale = d.sf /\ y.fault = {} /\ y.depth = c.depth
    BY <1>4, AdjustDownMeets
  <2> HIDE DEF y
  <2>2. /\ x \in Ciphertext
        /\ x.level = d.level /\ x.towers = d.towers /\ x.deg = d.deg
        /\ x.sf = d.sf /\ x.scale = d.sf /\ x.fault = {}
        /\ x.depth = Max2(c.depth, d.depth)
    BY <2>1, <1>1, AgedFields
  <2>3. Lowered(c, d) = x
    BY <1>4, Zenon DEF Lowered, x, y
  <2> HIDE DEF x
  <2>4. d.sf = Canon(d.level, d.deg) /\ (Ext /\ d.level = 0 => d.deg = 2)
    BY Zenon DEF Good
  <2>5. Good(x)
    BY <2>2, <2>4, <1>1, <1>2, <1>3, Zenon DEF Good
  <2> QED BY <2>2, <2>3, <2>5, <1>4, <1>1
<1>5. CASE c.level = d.level /\ c.deg < d.deg
  <2> DEFINE y == EvalMultCoreConst(c, 0)
             x == Aged(y, d)
  <2>1. c.deg = 1 /\ d.deg = 2 /\ c.level + 1 < SizeQ /\ c.towers = d.towers
    BY <1>1, <1>2, <1>5
  <2>2. /\ c.sf = GetScalingFactorReal(c.level) /\ c.scale = c.sf /\ c.fault = {}
        /\ ~(Ext /\ c.level = 0)
    BY <2>1 DEF Good, Canon
  <2>3. GetScalingFactorReal(c.level) \in Int
    BY <1>1, ScaleTypes, Zenon
  <2>4. c.sf + GetScalingFactorReal(c.level) = Canon(c.level, 2)
        /\ c.scale + 0 + GetScalingFactorReal(c.level) = Canon(c.level, 2)
    BY <2>1, <2>2, <2>3, <1>1, DoubleScale, SMTT(60)
  <2>5. /\ y \in Ciphertext /\ y.level = c.level /\ y.towers = c.towers
        /\ y.deg = 2 /\ y.depth = c.depth /\ y.fault = {}
        /\ y.sf = Canon(c.level, 2) /\ y.scale = Canon(c.level, 2)
    <3>1. /\ y \in Ciphertext /\ y.level = c.level /\ y.towers = c.towers
          /\ y.deg = c.deg + 1 /\ y.depth = c.depth /\ y.fault = c.fault
          /\ y.sf = c.sf + GetScalingFactorReal(c.level)
          /\ y.scale = c.scale + 0 + GetScalingFactorReal(c.level)
      BY <1>1, MultConstFields
    <3> HIDE DEF y
    <3> QED BY <3>1, <2>1, <2>2, <2>4, SMTT(60)
  <2> HIDE DEF y
  <2>6. /\ x \in Ciphertext /\ x.level = d.level /\ x.towers = d.towers
        /\ x.deg = 2 /\ x.depth = Max2(c.depth, d.depth) /\ x.fault = {}
        /\ x.sf = Canon(d.level, 2) /\ x.scale = Canon(d.level, 2)
    BY <2>1, <2>5, <1>1, <1>5, AgedFields
  <2>7. Lowered(c, d) = x
    <3>1. ~(c.level < d.level)
      BY <1>5, <1>1
    <3> QED BY <3>1, <1>5, Zenon DEF Lowered, x, y
  <2> HIDE DEF x
  <2>8. Good(x)
    BY <2>1, <2>6, <1>1, <1>2, <1>3, Zenon DEF Good
  <2>9. Max2(c.deg, d.deg) = 2
    BY <2>1 DEF Max2
  <2> QED BY <2>6, <2>7, <2>8, <2>9, <1>5, <1>1, SMTT(60)
<1>6. CASE c.level > d.level \/ (c.level = d.level /\ ~(c.deg < d.deg))
  <2>1. Lowered(c, d) = c
    BY <1>6, <1>1 DEF Lowered
  <2>2. c.level = d.level => c.deg = Max2(c.deg, d.deg)
    BY <1>6, <1>1, <1>2 DEF Max2
  <2> QED BY <2>1, <2>2, <1>6, <1>1
<1> QED BY <1>1, <1>2, <1>4, <1>5, <1>6

-----------------------------------------------------------------------------
\* The two operands of a sum: both good, at one level, degree and scale.
LEMMA AddOperands ==
    ASSUME Flexible, NEW c, NEW d, Good(c), Good(d)
    PROVE  LET p == AdjustForAddOrSubInPlace(c, d)
           IN  /\ Good(p[1]) /\ Good(p[2])
               /\ p[1].level = p[2].level /\ p[1].deg = p[2].deg
<1> DEFINE x == Lowered(c, d)
           y == Lowered(d, c)
<1>1. AdjustForAddOrSubInPlace(c, d) = <<x, y>>
  BY ScaleTypes, Zenon DEF AdjustForAddOrSubInPlace, AdjustLevelsAndDepthInPlace
<1>2. /\ Good(x)
      /\ c.level < d.level => x.level = d.level /\ x.deg = d.deg
      /\ c.level = d.level => x.level = d.level /\ x.deg = Max2(c.deg, d.deg)
      /\ c.level > d.level => x = c
  BY LoweredGood, Zenon
<1>3. /\ Good(y)
      /\ d.level < c.level => y.level = c.level /\ y.deg = c.deg
      /\ d.level = c.level => y.level = c.level /\ y.deg = Max2(d.deg, c.deg)
      /\ d.level > c.level => y = d
  BY LoweredGood, Zenon
<1> HIDE DEF x, y
<1>4. c.level \in Nat /\ d.level \in Nat
  BY GoodFacts, Zenon
<1>5. Max2(c.deg, d.deg) = Max2(d.deg, c.deg)
  BY DEF Max2, Good
<1>6. x.level = y.level /\ x.deg = y.deg
  BY <1>2, <1>3, <1>4, <1>5
<1> QED BY <1>1, <1>2, <1>3, <1>6

\* The two operands of a product: both good, of degree 1, at one level.
LEMMA MultOperands ==
    ASSUME Flexible, NEW c, NEW d, Good(c), Good(d)
    PROVE  LET p == AdjustForMultInPlace(c, d)
           IN  /\ Good(p[1]) /\ Good(p[2])
               /\ p[1].level = p[2].level /\ p[1].deg = 1 /\ p[2].deg = 1
<1> DEFINE p == AdjustLevelsAndDepthInPlace(c, d)
<1>1. /\ Good(p[1]) /\ Good(p[2]) /\ p[1].level = p[2].level /\ p[1].deg = p[2].deg
  BY AddOperands, ScaleTypes, Zenon DEF AdjustForAddOrSubInPlace
<1>2. AdjustForMultInPlace(c, d) =
          IF p[1].deg = 2
          THEN <<ModReduceInternalInPlace(p[1], 1), ModReduceInternalInPlace(p[2], 1)>>
          ELSE p
  BY ScaleTypes, Zenon DEF AdjustForMultInPlace, AdjustLevelsAndDepthToOneInPlace, RescaledToOne
<1> HIDE DEF p
<1>3. p[1].deg \in {1, 2}
  BY <1>1, Zenon DEF Good
<1>4. CASE p[1].deg = 2
  <2> DEFINE x == ModReduceInternalInPlace(p[1], 1)
             y == ModReduceInternalInPlace(p[2], 1)
  <2>1. AdjustForMultInPlace(c, d) = <<x, y>>
    BY <1>2, <1>4, Zenon
  <2>2. Good(x) /\ x.deg = 1 /\ x.level = p[1].level + 1
    BY <1>1, <1>4, ModReduceGood, Zenon
  <2>3. Good(y) /\ y.deg = 1 /\ y.level = p[2].level + 1
    BY <1>1, <1>4, ModReduceGood, Zenon
  <2> HIDE DEF x, y
  <2> QED BY <2>1, <2>2, <2>3, <1>1
<1>5. CASE p[1].deg = 1
  <2>1. AdjustForMultInPlace(c, d) = p
    BY <1>2, <1>5
  <2> QED BY <2>1, <1>1, <1>5, Zenon
<1> QED BY <1>3, <1>4, <1>5, Zenon

\* A sum of operands at one level and degree is good.
LEMMA AddGood ==
    ASSUME Flexible, NEW x, NEW y, Good(x), Good(y), x.level = y.level, x.deg = y.deg
    PROVE  Good(EvalAddCore(x, y))
<1> DEFINE c == EvalAddCore(x, y)
           mx == Max2(x.depth, y.depth)
<1>1. /\ x \in Ciphertext /\ x.depth \in Nat /\ y.depth \in Nat
      /\ x.level \in Nat /\ y.level \in Nat
      /\ x.towers \in Nat /\ y.towers \in Nat
      /\ x.level + x.towers = SizeQ /\ y.level + y.towers = SizeQ
  BY GoodFacts, Zenon
<1>2. /\ x.scale = y.scale /\ x.fault = {} /\ y.fault = {}
      /\ x.depth <= MultDepth /\ y.depth <= MultDepth /\ x.deg \in {1, 2}
      /\ x.level + x.deg <= x.depth + ExtraPrime + 1
      /\ ExtraPrime \in {0, 1} /\ MultDepth \in Nat
  BY ScaleTypes, Zenon DEF Good
<1>3. x.towers = y.towers
  BY <1>1
<1>4. mx \in Nat /\ x.depth <= mx /\ (mx = x.depth \/ mx = y.depth)
  BY <1>1, MaxFacts, Zenon
<1>5. c = [x EXCEPT !.depth = mx, !.fault = {}]
  BY <1>2, <1>3, Zenon DEF EvalAddCore, Faulty
<1> HIDE DEF c, mx
<1>6. /\ c \in Ciphertext
      /\ c.level = x.level /\ c.towers = x.towers /\ c.deg = x.deg
      /\ c.sf = x.sf /\ c.scale = x.scale /\ c.fault = {} /\ c.depth = mx
  BY <1>1, <1>4, <1>5, Zenon DEF Ciphertext
<1>7. mx <= MultDepth /\ x.level + x.deg <= mx + ExtraPrime + 1
  BY <1>1, <1>2, <1>4
<1>8. Good(c)
  BY <1>6, <1>7, Zenon DEF Good
<1> QED BY <1>8, Zenon DEF c

\* A product of operands of degree 1 at one level is good, if within depth.
LEMMA MultGood ==
    ASSUME Flexible, NEW x, NEW y, Good(x), Good(y), x.level = y.level,
           x.deg = 1, y.deg = 1, WithinDepth(EvalMultCore(x, y))
    PROVE  Good(EvalMultCore(x, y))
<1> DEFINE c == EvalMultCore(x, y)
           mx == Max2(x.depth, y.depth)
<1>1. /\ x \in Ciphertext /\ x.depth \in Nat /\ y.depth \in Nat
      /\ x.level \in Nat /\ y.level \in Nat
      /\ x.towers \in Nat /\ y.towers \in Nat
      /\ x.level + x.towers = SizeQ /\ y.level + y.towers = SizeQ
  BY GoodFacts, Zenon
<1>2. /\ x.sf = GetScalingFactorReal(x.level) /\ y.sf = GetScalingFactorReal(x.level)
      /\ x.scale = x.sf /\ y.scale = y.sf /\ x.fault = {} /\ y.fault = {}
      /\ x.level + x.deg <= x.depth + ExtraPrime + 1
      /\ ~(Ext /\ x.level = 0)
  BY DEF Good, Canon
<1>3. x.towers = y.towers /\ GetScalingFactorReal(x.level) \in Int
  BY <1>1, ScaleTypes
<1>4. mx \in Nat /\ x.depth <= mx
  BY <1>1, MaxFacts, Zenon
<1> DEFINE two == GetScalingFactorReal(x.level) + GetScalingFactorReal(x.level)
<1>5. c = [x EXCEPT !.deg = 2, !.sf = two, !.scale = two, !.depth = mx + 1, !.fault = {}]
  BY <1>2, <1>3 DEF EvalMultCore, Faulty
<1>6. c.depth <= MultDepth
  BY ScaleTypes, Zenon DEF WithinDepth
<1> HIDE DEF c, mx
<1>7. mx + 1 \in Nat /\ two \in Int
  BY <1>3, <1>4
<1>8. x.level + 1 < SizeQ /\ x.level + 2 <= (mx + 1) + ExtraPrime + 1
  <2>1. mx + 1 <= MultDepth
    BY <1>5, <1>6, <1>1, Zenon DEF Ciphertext
  <2> QED BY <2>1, <1>1, <1>2, <1>4, ScaleTypes
<1>9. two = Canon(x.level, 2)
  BY <1>1, <1>2, <1>8, DoubleScale, Zenon
<1> HIDE DEF two
<1>10. /\ c \in Ciphertext
       /\ c.level = x.level /\ c.towers = x.towers /\ c.deg = 2
       /\ c.sf = two /\ c.scale = two /\ c.fault = {} /\ c.depth = mx + 1
  BY <1>1, <1>5, <1>7, Zenon DEF Ciphertext
<1>11. Good(c)
  BY <1>1, <1>6, <1>8, <1>9, <1>10, Zenon DEF Good
<1> QED BY <1>11, Zenon DEF c

\* A plaintext encoded at a level of the chain, with enough towers below it.
LEMMA PlaintextGood ==
    ASSUME Flexible, NEW pt \in Plaintexts, WithinDepth(pt)
    PROVE  Good(pt)
<1>1. PICK l \in 0 .. (SizeQ - 1), d \in {1, 2} : pt = MakeCKKSPackedPlaintext(l, d)
  BY DEF Plaintexts
<1>2. l \in Nat /\ l < SizeQ /\ SizeQ \in Nat /\ MultDepth \in Nat /\ ExtraPrime \in {0, 1}
  BY SizeAssumption, ScaleTypes
<1>3. pt.depth <= MultDepth
  BY ScaleTypes, Zenon DEF WithinDepth
<1>4. CASE Ext /\ l = 0
  <2> DEFINE sf == GetScalingFactorRealBig(0)
  <2>1. sf \in Int
    BY ScaleTypes, Zenon
  <2>2. pt = [level |-> 0, towers |-> SizeQ - 0, deg |-> 2, sf |-> sf, scale |-> sf,
              depth |-> 0 + 2 - 1 - ExtraPrime, fault |-> {}]
    BY <1>1, <1>4, Zenon DEF MakeCKKSPackedPlaintext
  <2>3. ExtraPrime = 1
    BY <1>4, Zenon DEF ExtraPrime
  <2>4. sf = Canon(0, 2)
    BY DEF Canon
  <2> HIDE DEF sf
  <2>5. pt = [level |-> 0, towers |-> SizeQ, deg |-> 2, sf |-> sf, scale |-> sf,
              depth |-> 0, fault |-> {}]
    <3>1. SizeQ - 0 = SizeQ /\ 0 + 2 - 1 - ExtraPrime = 0
      BY <2>3, <1>2
    <3> QED BY <2>2, <3>1, Zenon
  <2>6. pt \in Ciphertext
    BY <2>1, <2>5, <1>2 DEF Ciphertext
  <2> QED BY <2>3, <2>4, <2>5, <2>6, <1>2, <1>3 DEF Good
<1>5. CASE ~(Ext /\ l = 0)
  <2> DEFINE sf == d * GetScalingFactorReal(l)
             dp == l + d - 1 - ExtraPrime
  <2>1. pt = [level |-> l, towers |-> SizeQ - l, deg |-> d, sf |-> sf, scale |-> sf,
              depth |-> dp, fault |-> {}]
    BY <1>1, <1>5, Zenon DEF MakeCKKSPackedPlaintext
  <2>2. dp \in Nat /\ l + d = dp + ExtraPrime + 1
    <3>1. Ext => l >= 1
      BY <1>2, <1>5
    <3> QED BY <3>1, <1>2 DEF ExtraPrime
  <2>3. dp <= MultDepth
    BY <2>1, <1>3, Zenon
  <2>4. sf \in Int /\ sf = Canon(l, d)
    <3>1. GetScalingFactorReal(l) \in Int
      BY <1>2, ScaleTypes, Zenon
    <3>2. CASE d = 1
      BY <3>1, <3>2 DEF Canon
    <3>3. CASE d = 2
      <4>1. l + 1 < SizeQ
        BY <2>2, <2>3, <1>2, <3>3, ScaleTypes
      <4>2. GetScalingFactorReal(l) + GetScalingFactorReal(l) = Canon(l, 2)
        BY <4>1, <1>2, <1>5, DoubleScale, Zenon
      <4> QED BY <4>2, <3>1, <3>3
    <3> QED BY <3>2, <3>3, Zenon
  <2> HIDE DEF sf, dp
  <2>5. l \in 0 .. SizeQ /\ SizeQ - l \in 0 .. SizeQ /\ l + (SizeQ - l) = SizeQ /\ d \in Nat
    BY <1>2
  <2>6. pt \in Ciphertext
    BY <2>1, <2>2, <2>4, <2>5, Zenon DEF Ciphertext
  <2> QED BY <2>1, <2>2, <2>3, <2>4, <2>5, <2>6, <1>5, <1>2 DEF Good
<1> QED BY <1>4, <1>5, Zenon

\* Rescaling before a square or a constant leaves degree 1.
LEMMA OneOperand ==
    ASSUME Flexible, NEW c, Good(c)
    PROVE  /\ Good(RescaleBeforeSquare(c)) /\ RescaleBeforeSquare(c).deg = 1
           /\ RescaleBeforeMultConst(c) = RescaleBeforeSquare(c)
<1>1. c.deg \in {1, 2} /\ ~Manual
  BY ScaleTypes, Zenon DEF Good
<1>2. CASE c.deg = 1
  BY <1>1, <1>2 DEF RescaleBeforeSquare, RescaleBeforeMultConst
<1>3. CASE c.deg = 2
  <2>1. RescaleBeforeSquare(c) = ModReduceInternalInPlace(c, 1)
        /\ RescaleBeforeMultConst(c) = ModReduceInternalInPlace(c, 1)
    BY <1>1, <1>3 DEF RescaleBeforeSquare, RescaleBeforeMultConst
  <2> QED BY <2>1, <1>3, ModReduceGood, Zenon
<1> QED BY <1>1, <1>2, <1>3, Zenon

\* The constant of EvalAdd is encoded at the scale the ciphertext has.
LEMMA AddConstGood ==
    ASSUME Flexible, NEW c, Good(c)
    PROVE  Good(EvalAddConstCore(c))
<1>1. c.deg \in {1, 2} /\ c.scale = Canon(c.level, c.deg) /\ c.fault = {}
      /\ (Ext /\ c.level = 0 => c.deg = 2)
  BY Zenon DEF Good
<1>2. /\ c \in Ciphertext /\ c.level \in Nat /\ c.deg <= c.towers /\ c.level + c.towers = SizeQ
      /\ c.towers \in Nat /\ SizeQ \in Nat
  BY GoodFacts, SizeAssumption, Zenon
<1>3. GetScalingFactorReal(c.level) \in Int
  BY <1>2, ScaleTypes, Zenon
<1>4. c.scale = GetElementForEvalAddOrSub(c)
  <2>1. CASE Ext /\ c.level = 0
    BY <1>1, <2>1 DEF GetElementForEvalAddOrSub, Canon
  <2>2. CASE ~(Ext /\ c.level = 0)
    <3>1. GetElementForEvalAddOrSub(c) = c.deg * GetScalingFactorReal(c.level)
      BY <2>2, Zenon DEF GetElementForEvalAddOrSub
    <3>2. CASE c.deg = 1
      BY <3>1, <3>2, <1>1, <1>3 DEF Canon
    <3>3. CASE c.deg = 2
      <4>1. GetScalingFactorReal(c.level) + GetScalingFactorReal(c.level) = Canon(c.level, 2)
        BY <2>2, <3>3, <1>2, DoubleScale
      <4> QED BY <4>1, <3>1, <3>3, <1>1, <1>3
    <3> QED BY <3>2, <3>3, <1>1, Zenon
  <2> QED BY <2>1, <2>2, Zenon
<1>5. EvalAddConstCore(c) = [c EXCEPT !.fault = {}]
  BY <1>1, <1>4, Zenon DEF EvalAddConstCore, Faulty
<1>6. [c EXCEPT !.fault = {}] = c
  BY <1>1, <1>2, Zenon DEF Ciphertext
<1> QED BY <1>5, <1>6, Zenon

\* Multiplication by a constant is a product with a fresh scale of the level.
LEMMA MultConstGood ==
    ASSUME Flexible, NEW x, Good(x), x.deg = 1,
           WithinDepth([EvalMultCoreConst(x, 0) EXCEPT !.depth = @ + 1])
    PROVE  Good([EvalMultCoreConst(x, 0) EXCEPT !.depth = @ + 1])
<1> DEFINE y == EvalMultCoreConst(x, 0)
           c == [y EXCEPT !.depth = @ + 1]
           f == GetScalingFactorReal(x.level)
<1>1. /\ x \in Ciphertext /\ x.level \in Nat /\ x.depth \in Nat /\ x.towers \in Nat
      /\ x.level + x.towers = SizeQ /\ SizeQ \in Nat
  BY GoodFacts, SizeAssumption, Zenon
<1>2. /\ x.sf = f /\ x.scale = f /\ x.fault = {} /\ ~(Ext /\ x.level = 0)
      /\ x.level + 1 <= x.depth + ExtraPrime + 1
  BY DEF Good, Canon
<1>3. f \in Int
  BY <1>1, ScaleTypes, Zenon
<1>4. c.depth <= MultDepth
  BY ScaleTypes, Zenon DEF WithinDepth
<1>5. /\ y \in Ciphertext /\ y.level = x.level /\ y.towers = x.towers
      /\ y.deg = 2 /\ y.depth = x.depth /\ y.fault = {}
      /\ y.sf = f + f /\ y.scale = f + f
  <2>1. /\ y \in Ciphertext /\ y.level = x.level /\ y.towers = x.towers
        /\ y.deg = x.deg + 1 /\ y.depth = x.depth /\ y.fault = x.fault
        /\ y.sf = x.sf + GetScalingFactorReal(x.level)
        /\ y.scale = x.scale + 0 + GetScalingFactorReal(x.level)
    <3> HIDE DEF f
    <3>1. 0 \in Int
      OBVIOUS
    <3> QED BY <1>1, <3>1, MultConstFields, Zenon
  <2>2. f + 0 + f = f + f
    BY <1>3
  <2> HIDE DEF y
  <2> QED BY <2>1, <2>2, <1>2
<1> HIDE DEF y, f
<1>6. /\ c \in Ciphertext /\ c.level = x.level /\ c.towers = x.towers
      /\ c.deg = 2 /\ c.depth = x.depth + 1 /\ c.fault = {}
      /\ c.sf = f + f /\ c.scale = f + f
  <2>1. x.depth + 1 \in Nat
    BY <1>1
  <2> QED BY <2>1, <1>5, Zenon DEF Ciphertext
<1> HIDE DEF c
<1>7. x.level + 1 < SizeQ
  BY <1>1, <1>2, <1>4, <1>6, ScaleTypes
<1>8. f + f = Canon(x.level, 2)
  BY <1>1, <1>2, <1>7, DoubleScale, Zenon DEF f
<1>9. x.level + 2 <= (x.depth + 1) + ExtraPrime + 1
  BY <1>1, <1>2, ScaleTypes
<1>10. Good(c)
  BY <1>1, <1>4, <1>6, <1>8, <1>9, Zenon DEF Good
<1> QED BY <1>10, Zenon DEF c, y

\* Compressing a good ciphertext leaves degree 1, a tower and the true scale.
LEMMA CompressGood ==
    ASSUME Flexible, NEW c, Good(c), NEW n \in 1 .. SizeQ
    PROVE  LET x == ModReduceInternalInPlace(c, Max2(c.deg - 1, 0))
           IN  GoodSent(IF n < x.towers THEN LevelReduceInternalInPlace(x, x.towers - n) ELSE x)
<1> DEFINE x == ModReduceInternalInPlace(c, Max2(c.deg - 1, 0))
<1>1. c.deg \in {1, 2} /\ c.scale = c.sf /\ c.fault = {}
  BY Zenon DEF Good
<1>2. /\ c \in Ciphertext /\ c.level \in Nat /\ c.deg <= c.towers /\ c.level + c.towers = SizeQ
      /\ c.towers \in Nat /\ SizeQ \in Nat /\ c.sf \in Int /\ c.scale \in Int
  BY GoodFacts, SizeAssumption, Zenon
<1>3. /\ x \in Ciphertext /\ x.deg = 1 /\ x.towers >= 1 /\ x.level + x.towers = SizeQ
      /\ x.fault = {} /\ x.scale = x.sf
  <2>1. CASE c.deg = 1
    <3>1. Max2(c.deg - 1, 0) = 0
      BY <2>1 DEF Max2
    <3>2. LogModulus[c.towers] - LogModulus[c.towers - 0] = 0
      <4>1. c.towers \in 0 .. SizeQ /\ c.towers - 0 = c.towers
        BY <1>2
      <4> QED BY <4>1, LogModulusInt
    <3>3. ~(c.towers <= 0) /\ c.towers - 0 = c.towers /\ c.level + 0 = c.level
          /\ c.deg - 0 = c.deg /\ c.sf - 0 = c.sf /\ c.scale - 0 = c.scale
      BY <1>1, <1>2, <2>1
    <3>4. x = [c EXCEPT !.towers = c.towers, !.deg = c.deg, !.level = c.level,
                        !.sf = c.sf, !.scale = c.scale]
      BY <3>1, <3>2, <3>3, Zenon DEF ModReduceInternalInPlace, GetModReduceFactor
    <3>5. x = c
      BY <3>4, <1>2, Zenon DEF Ciphertext
    <3> QED BY <3>5, <1>1, <1>2, <2>1, Zenon
  <2>2. CASE c.deg = 2
    <3>1. Max2(c.deg - 1, 0) = 1
      BY <2>2 DEF Max2
    <3>2. Good(x) /\ x.deg = 1
      BY <3>1, <2>2, ModReduceGood, Zenon
    <3> HIDE DEF x
    <3>3. x \in Ciphertext /\ x.deg <= x.towers /\ x.level + x.towers = SizeQ
      BY <3>2, GoodFacts, Zenon
    <3> QED BY <3>2, <3>3, Zenon DEF Good
  <2> QED BY <1>1, <2>1, <2>2, Zenon
<1> HIDE DEF x
<1>4. x.towers \in Nat /\ n \in Nat /\ n >= 1
  <2>1. x.towers \in 0 .. SizeQ
    BY <1>3, Zenon DEF Ciphertext
  <2>2. x.towers \in Nat
    BY <2>1, <1>2
  <2> QED BY <2>2, <1>2
<1>5. CASE n < x.towers
  <2> DEFINE z == LevelReduceInternalInPlace(x, x.towers - n)
  <2>1. x.towers - n \in Nat /\ x.towers - n < x.towers /\ x.towers - (x.towers - n) = n
    BY <1>4, <1>5
  <2>2. /\ z \in Ciphertext /\ z.towers = x.towers - (x.towers - n) /\ z.deg = x.deg
        /\ z.fault = x.fault /\ z.sf = x.sf /\ z.scale = x.scale
    BY <2>1, <1>3, LevelReduceFields, Zenon
  <2> HIDE DEF z
  <2>3. GoodSent(z)
    BY <2>1, <2>2, <1>3, <1>4, Zenon DEF GoodSent
  <2> QED BY <2>3, <1>5, Zenon DEF z, x
<1>6. CASE ~(n < x.towers)
  <2>1. GoodSent(x)
    BY <1>3, Zenon DEF GoodSent
  <2> QED BY <2>1, <1>6, Zenon DEF x
<1> QED BY <1>5, <1>6, Zenon

-----------------------------------------------------------------------------
\* Assigning good ciphertexts to variables keeps the store good.
LEMMA StoreUpdate ==
    ASSUME NEW f, Store(f), NEW r \in Regs, NEW c, Good(c)
    PROVE  Store([f EXCEPT ![r] = c])
<1>1. c \in Ciphertext
  BY Zenon DEF Good
<1> QED BY <1>1, Zenon DEF Store

LEMMA StoreUpdates ==
    ASSUME NEW f, Store(f), NEW a \in Regs, NEW r \in Regs,
           NEW x, NEW c, Good(x), Good(c)
    PROVE  Store([f EXCEPT ![a] = x, ![r] = c])
<1>1. Store([f EXCEPT ![a] = x])
  BY StoreUpdate, Zenon
<1>2. Store([[f EXCEPT ![a] = x] EXCEPT ![r] = c])
  BY <1>1, StoreUpdate, Zenon
<1> QED BY <1>2, Zenon DEF Store

\* Calls on two ciphertexts.
LEMMA BinaryCallGood ==
    ASSUME Flexible, Store(ct), NEW a \in Regs, NEW b \in Regs, NEW r \in Regs,
           BinaryCall(a, b, r)
    PROVE  Store(ct') /\ sent' = sent
<1>1. Good(ct[a]) /\ Good(ct[b])
  BY Zenon DEF BinaryCall, EvalAdd, EvalAddMutable, EvalMult, EvalMultMutable, Holds, Store
<1> DEFINE p == AdjustForAddOrSubInPlace(ct[a], ct[b])
           q == AdjustForMultInPlace(ct[a], ct[b])
<1>2. Good(p[1]) /\ Good(p[2]) /\ Good(EvalAddCore(p[1], p[2]))
  <2>1. Good(p[1]) /\ Good(p[2]) /\ p[1].level = p[2].level /\ p[1].deg = p[2].deg
    BY <1>1, AddOperands, ZenonT(60)
  <2> HIDE DEF p
  <2> QED BY <2>1, AddGood, Zenon
<1>3. Good(q[1]) /\ Good(q[2])
      /\ (WithinDepth(EvalMultCore(q[1], q[2])) => Good(EvalMultCore(q[1], q[2])))
  <2>1. Good(q[1]) /\ Good(q[2]) /\ q[1].level = q[2].level /\ q[1].deg = 1 /\ q[2].deg = 1
    BY <1>1, MultOperands, ZenonT(60)
  <2> HIDE DEF q
  <2> QED BY <2>1, MultGood, Zenon
<1>4. CASE EvalAdd(a, b, r)
  <2>1. ct' = [ct EXCEPT ![r] = EvalAddCore(p[1], p[2])] /\ sent' = sent
    BY <1>4, Zenon DEF EvalAdd, StoreSum, SumOf
  <2> HIDE DEF p
  <2> QED BY <2>1, <1>2, StoreUpdate, Zenon
<1>5. CASE EvalAddMutable(a, b, r)
  <2>1. /\ ct' = [ct EXCEPT ![a] = p[1], ![b] = p[2], ![r] = EvalAddCore(p[1], p[2])]
        /\ sent' = sent
    BY <1>5, Zenon DEF EvalAddMutable, StoreSumAndBoth, SumOf
  <2> HIDE DEF p
  <2> DEFINE f == [ct EXCEPT ![a] = p[1]]
  <2>2. Store(f)
    BY <1>2, StoreUpdate, Zenon
  <2>3. ct' = [f EXCEPT ![b] = p[2], ![r] = EvalAddCore(p[1], p[2])]
    BY <2>1, Zenon
  <2> HIDE DEF f
  <2>4. Store([f EXCEPT ![b] = p[2], ![r] = EvalAddCore(p[1], p[2])])
    <3>1. Good(p[2]) /\ Good(EvalAddCore(p[1], p[2]))
      BY <1>2, Zenon
    <3> QED BY <2>2, <3>1, StoreUpdates, Zenon
  <2>5. Store(ct')
    BY <2>3, <2>4, Zenon
  <2> QED BY <2>1, <2>5, Zenon
<1>6. CASE EvalMult(a, b, r)
  <2>1. /\ ct' = [ct EXCEPT ![r] = EvalMultCore(q[1], q[2])] /\ sent' = sent
        /\ WithinDepth(EvalMultCore(q[1], q[2]))
    BY <1>6, Zenon DEF EvalMult, StoreProduct, ProductOf
  <2> HIDE DEF q
  <2> QED BY <2>1, <1>3, StoreUpdate, Zenon
<1>7. CASE EvalMultMutable(a, b, r)
  <2>1. /\ ct' = [ct EXCEPT ![a] = q[1], ![b] = q[2], ![r] = EvalMultCore(q[1], q[2])]
        /\ sent' = sent /\ WithinDepth(EvalMultCore(q[1], q[2]))
    BY <1>7, Zenon DEF EvalMultMutable, StoreProductAndBoth, ProductOf
  <2> HIDE DEF q
  <2> DEFINE f == [ct EXCEPT ![a] = q[1]]
  <2>2. Store(f)
    BY <1>3, StoreUpdate, Zenon
  <2>3. ct' = [f EXCEPT ![b] = q[2], ![r] = EvalMultCore(q[1], q[2])]
    BY <2>1, Zenon
  <2> HIDE DEF f
  <2>4. Store([f EXCEPT ![b] = q[2], ![r] = EvalMultCore(q[1], q[2])])
    <3>1. Good(q[2]) /\ Good(EvalMultCore(q[1], q[2]))
      BY <2>1, <1>3, Zenon
    <3> QED BY <2>2, <3>1, StoreUpdates, Zenon
  <2>5. Store(ct')
    BY <2>3, <2>4, Zenon
  <2> QED BY <2>1, <2>5, Zenon
<1> QED BY <1>4, <1>5, <1>6, <1>7, Zenon DEF BinaryCall

\* Calls on one ciphertext, a plaintext or a constant.
LEMMA UnaryCallGood ==
    ASSUME Flexible, ~AliasedOperands, Store(ct), NEW a \in Regs, NEW r \in Regs,
           UnaryCall(a, r)
    PROVE  Store(ct') /\ sent' = sent
<1>1. Good(ct[a])
  BY Zenon DEF UnaryCall, EvalAddPlaintext, EvalAddMutablePlaintext, EvalAddConst,
         EvalMultMutableAliased, EvalSquare, EvalSquareMutable, EvalMultPlaintext,
         EvalMultMutablePlaintext, EvalMultConst, Holds, Store
<1>2. ASSUME NEW pt \in Plaintexts, WithinDepth(pt)
      PROVE  LET p == AdjustForAddOrSubInPlace(ct[a], pt)
             IN  Good(p[1]) /\ Good(EvalAddCore(p[1], p[2]))
  <2> DEFINE p == AdjustForAddOrSubInPlace(ct[a], pt)
  <2>1. Good(pt)
    BY <1>2, PlaintextGood, Zenon
  <2>2. Good(p[1]) /\ Good(p[2]) /\ p[1].level = p[2].level /\ p[1].deg = p[2].deg
    BY <1>1, <2>1, AddOperands, Zenon
  <2> HIDE DEF p
  <2>3. Good(p[1]) /\ Good(EvalAddCore(p[1], p[2]))
    BY <2>2, AddGood, Zenon
  <2> QED BY <2>3, Zenon DEF p
<1>3. ASSUME NEW pt \in Plaintexts, WithinDepth(pt),
             LET p == AdjustForMultInPlace(ct[a], pt)
             IN  WithinDepth(EvalMultCore(p[1], p[2]))
      PROVE  LET p == AdjustForMultInPlace(ct[a], pt)
             IN  Good(p[1]) /\ Good(EvalMultCore(p[1], p[2]))
  <2> DEFINE p == AdjustForMultInPlace(ct[a], pt)
  <2>1. Good(pt)
    BY <1>3, PlaintextGood, Zenon
  <2>2. Good(p[1]) /\ Good(p[2]) /\ p[1].level = p[2].level /\ p[1].deg = 1 /\ p[2].deg = 1
    BY <1>1, <2>1, MultOperands, Zenon
  <2>3. WithinDepth(EvalMultCore(p[1], p[2]))
    BY <1>3, Zenon
  <2> HIDE DEF p
  <2>4. Good(p[1]) /\ Good(EvalMultCore(p[1], p[2]))
    BY <2>2, <2>3, MultGood, Zenon
  <2> QED BY <2>4, Zenon DEF p
<1> DEFINE s == RescaleBeforeSquare(ct[a])
<1>4. Good(s) /\ s.deg = 1 /\ RescaleBeforeMultConst(ct[a]) = s
  BY <1>1, OneOperand, Zenon
<1>5. WithinDepth(EvalMultCore(s, s)) => Good(EvalMultCore(s, s))
  <2> HIDE DEF s
  <2> QED BY <1>4, MultGood, Zenon
<1>6. CASE EvalAddPlaintext(a, r)
  <2>1. PICK pt \in Plaintexts :
            LET p == AdjustForAddOrSubInPlace(ct[a], pt)
            IN  WithinDepth(pt) /\ ct' = [ct EXCEPT ![r] = EvalAddCore(p[1], p[2])]
    BY <1>6, Zenon DEF EvalAddPlaintext, StoreSum, SumOf
  <2> DEFINE p == AdjustForAddOrSubInPlace(ct[a], pt)
  <2>2. Good(p[1]) /\ Good(EvalAddCore(p[1], p[2]))
    BY <2>1, <1>2, Zenon
  <2>3. ct' = [ct EXCEPT ![r] = EvalAddCore(p[1], p[2])] /\ sent' = sent
    BY <2>1, <1>6, Zenon DEF EvalAddPlaintext, StoreSum, SumOf
  <2> HIDE DEF p
  <2> QED BY <2>2, <2>3, StoreUpdate, Zenon
<1>7. CASE EvalAddMutablePlaintext(a, r)
  <2>1. PICK pt \in Plaintexts :
            LET p == AdjustForAddOrSubInPlace(ct[a], pt)
            IN  /\ WithinDepth(pt)
                /\ ct' = [ct EXCEPT ![a] = p[1], ![r] = EvalAddCore(p[1], p[2])]
    BY <1>7, Zenon DEF EvalAddMutablePlaintext, StoreSumAndFirst, SumOf
  <2> DEFINE p == AdjustForAddOrSubInPlace(ct[a], pt)
  <2>2. Good(p[1]) /\ Good(EvalAddCore(p[1], p[2]))
    BY <2>1, <1>2, Zenon
  <2>3. ct' = [ct EXCEPT ![a] = p[1], ![r] = EvalAddCore(p[1], p[2])] /\ sent' = sent
    BY <2>1, <1>7, Zenon DEF EvalAddMutablePlaintext, StoreSumAndFirst, SumOf
  <2> HIDE DEF p
  <2> QED BY <2>2, <2>3, StoreUpdates, Zenon
<1>8. CASE EvalAddConst(a, r)
  BY <1>8, <1>1, AddConstGood, StoreUpdate, Zenon DEF EvalAddConst
<1>9. CASE EvalMultMutableAliased(a, r)
  BY <1>9, Zenon DEF EvalMultMutableAliased
<1>10. CASE EvalSquare(a, r)
  <2>1. ct' = [ct EXCEPT ![r] = EvalMultCore(s, s)] /\ sent' = sent
        /\ WithinDepth(EvalMultCore(s, s))
    BY <1>10, Zenon DEF EvalSquare, StoreProduct, ProductOf, Twice
  <2> HIDE DEF s
  <2> QED BY <2>1, <1>5, StoreUpdate, Zenon
<1>11. CASE EvalSquareMutable(a, r)
  <2> HIDE DEF s
  <2>1. ct' = [ct EXCEPT ![a] = s, ![r] = EvalMultCore(s, s)] /\ sent' = sent
        /\ WithinDepth(EvalMultCore(s, s))
    BY <1>4, <1>11, Zenon DEF EvalSquareMutable, StoreProductAndFirst, ProductOf, Twice
  <2> QED BY <2>1, <1>4, <1>5, StoreUpdates, Zenon
<1>12. CASE EvalMultPlaintext(a, r)
  <2>1. PICK pt \in Plaintexts :
            LET p == AdjustForMultInPlace(ct[a], pt)
            IN  /\ WithinDepth(pt) /\ WithinDepth(EvalMultCore(p[1], p[2]))
                /\ ct' = [ct EXCEPT ![r] = EvalMultCore(p[1], p[2])]
    BY <1>12, Zenon DEF EvalMultPlaintext, StoreProduct, ProductOf
  <2> DEFINE p == AdjustForMultInPlace(ct[a], pt)
  <2>2. Good(p[1]) /\ Good(EvalMultCore(p[1], p[2]))
    BY <2>1, <1>3, Zenon
  <2>3. ct' = [ct EXCEPT ![r] = EvalMultCore(p[1], p[2])] /\ sent' = sent
    BY <2>1, <1>12, Zenon DEF EvalMultPlaintext, StoreProduct, ProductOf
  <2> HIDE DEF p
  <2> QED BY <2>2, <2>3, StoreUpdate, Zenon
<1>13. CASE EvalMultMutablePlaintext(a, r)
  <2>1. PICK pt \in Plaintexts :
            LET p == AdjustForMultInPlace(ct[a], pt)
            IN  /\ WithinDepth(pt) /\ WithinDepth(EvalMultCore(p[1], p[2]))
                /\ ct' = [ct EXCEPT ![a] = p[1], ![r] = EvalMultCore(p[1], p[2])]
    BY <1>13, Zenon DEF EvalMultMutablePlaintext, StoreProductAndFirst, ProductOf
  <2> DEFINE p == AdjustForMultInPlace(ct[a], pt)
  <2>2. Good(p[1]) /\ Good(EvalMultCore(p[1], p[2]))
    BY <2>1, <1>3, Zenon
  <2>3. ct' = [ct EXCEPT ![a] = p[1], ![r] = EvalMultCore(p[1], p[2])] /\ sent' = sent
    BY <2>1, <1>13, Zenon DEF EvalMultMutablePlaintext, StoreProductAndFirst, ProductOf
  <2> HIDE DEF p
  <2> QED BY <2>2, <2>3, StoreUpdates, Zenon
<1>14. CASE EvalMultConst(a, r)
  <2> DEFINE c == [EvalMultCoreConst(s, 0) EXCEPT !.depth = @ + 1]
  <2>1. ct' = [ct EXCEPT ![r] = c] /\ sent' = sent /\ WithinDepth(c)
    <3> HIDE DEF s
    <3> QED BY <1>4, <1>14, Zenon DEF EvalMultConst
  <2>2. Good(c)
    <3> HIDE DEF s
    <3> QED BY <2>1, <1>4, MultConstGood, Zenon
  <2> HIDE DEF c
  <2> QED BY <2>1, <2>2, StoreUpdate, Zenon
<1> QED BY <1>6, <1>7, <1>8, <1>9, <1>10, <1>11, <1>12, <1>13, <1>14, Zenon DEF UnaryCall

-----------------------------------------------------------------------------
\* With the FLEXIBLE techniques, and no object passed twice to a mutable
\* product, every ciphertext of every program is good.
THEOREM FlexibleInvariant ==
    ASSUME Flexible, ~AliasedOperands
    PROVE  Spec => []IInv
<1>1. Init => IInv
  BY Zenon DEF Init, IInv, Store
<1>2. IInv /\ [Next]_vars => IInv'
  <2> SUFFICES ASSUME IInv, [Next]_vars PROVE IInv'
    BY Zenon
  <2>1. ASSUME NEW r \in Regs, Encrypt(r) PROVE IInv'
    <3>1. PICK pt \in Plaintexts : WithinDepth(pt) /\ ct' = [ct EXCEPT ![r] = pt]
      BY <2>1, Zenon DEF Encrypt
    <3>2. Good(pt)
      BY <3>1, PlaintextGood, Zenon
    <3>3. Store(ct')
      BY <3>1, <3>2, StoreUpdate, Zenon DEF IInv
    <3> QED BY <3>3, <2>1, Zenon DEF IInv, Encrypt
  <2>2. ASSUME NEW a \in Regs, NEW b \in Regs, NEW r \in Regs, BinaryCall(a, b, r)
        PROVE  IInv'
    BY <2>2, BinaryCallGood, Zenon DEF IInv
  <2>3. ASSUME NEW a \in Regs, NEW r \in Regs, UnaryCall(a, r) PROVE IInv'
    BY <2>3, UnaryCallGood, Zenon DEF IInv
  <2>4. ASSUME NEW a \in Regs, NEW r \in Regs, NEW n \in 1 .. SizeQ,
               ModReduce(a, r, n) \/ LevelReduce(a, r, n)
        PROVE  IInv'
    <3>1. ct' = [ct EXCEPT ![r] = ct[a]] /\ sent' = sent /\ ct[a] # Null
      BY <2>4, ScaleTypes, Zenon DEF ModReduce, LevelReduce, Holds
    <3>2. Good(ct[a])
      BY <3>1, Zenon DEF IInv, Store
    <3>3. Store(ct')
      BY <3>1, <3>2, StoreUpdate, Zenon DEF IInv
    <3> QED BY <3>1, <3>3, Zenon DEF IInv
  <2>5. ASSUME NEW a \in Regs, NEW n \in 1 .. SizeQ, Compress(a, n) PROVE IInv'
    <3> DEFINE x == ModReduceInternalInPlace(ct[a], Max2(ct[a].deg - 1, 0))
               z == IF n < x.towers THEN LevelReduceInternalInPlace(x, x.towers - n) ELSE x
    <3>1. sent' = z /\ ct' = ct /\ ct[a] # Null
      BY <2>5, Zenon DEF Compress, Holds
    <3>2. Good(ct[a])
      BY <3>1, Zenon DEF IInv, Store
    <3>3. GoodSent(z)
      BY <3>2, CompressGood, Zenon
    <3> HIDE DEF z
    <3> QED BY <3>1, <3>3, Zenon DEF IInv, GoodSent
  <2>6. CASE UNCHANGED vars
    BY <2>6, Zenon DEF IInv, vars
  <2> QED BY <2>1, <2>2, <2>3, <2>4, <2>5, <2>6, Zenon DEF Next
<1> QED BY <1>1, <1>2, PTL DEF Spec

\* The invariant gives every property of a good ciphertext.
LEMMA InvariantProperties ==
    ASSUME Flexible, IInv
    PROVE  /\ TypeOK /\ DecodesAtTrueScale
           /\ NoFault /\ RescaleHeadroom /\ SentDecodes
<1>1. TypeOK
  BY Zenon DEF IInv, Store, TypeOK
<1>2. SentDecodes
  BY Zenon DEF IInv, GoodSent, SentDecodes, DecodeScale
<1>3. ASSUME NEW r \in Regs, Holds(r)
      PROVE  /\ ct[r].level + ct[r].towers = SizeQ
             /\ ct[r].scale = DecodeScale(ct[r])
             /\ ct[r].fault = {}
             /\ ct[r].deg >= 1 /\ ct[r].deg <= ct[r].towers
  <2>1. Good(ct[r])
    BY <1>3, Zenon DEF IInv, Store, Holds
  <2>2. ct[r].deg <= ct[r].towers
    BY <2>1, GoodFacts, Zenon
  <2> QED BY <2>1, <2>2 DEF Good, DecodeScale
<1> QED
  BY <1>1, <1>2, <1>3, Zenon DEF DecodesAtTrueScale, NoFault, RescaleHeadroom

\* Metadata stays in range: levels and towers between 0 and the number of
\* primes, degrees natural numbers, in every variable and in the sent result.
THEOREM FlexibleTyped ==
    ASSUME Flexible, ~AliasedOperands
    PROVE  Spec => []TypeOK
<1>1. IInv => TypeOK
  BY InvariantProperties, Zenon
<1> QED BY <1>1, FlexibleInvariant, PTL

\* The scale Decode divides by is the scale the message has: automatic
\* rescaling and level adjustment never lose track of it.
THEOREM FlexibleDecodesAtTrueScale ==
    ASSUME Flexible, ~AliasedOperands
    PROVE  Spec => []DecodesAtTrueScale
<1>1. IInv => DecodesAtTrueScale
  BY InvariantProperties, Zenon
<1> QED BY <1>1, FlexibleInvariant, PTL

\* No sum of unequal moduli or scales, and no exception for want of towers in
\* a circuit that keeps to the depth the context was generated for.
THEOREM FlexibleNoFault ==
    ASSUME Flexible, ~AliasedOperands
    PROVE  Spec => []NoFault
<1>1. IInv => NoFault
  BY InvariantProperties, Zenon
<1> QED BY <1>1, FlexibleInvariant, PTL

\* The level is the number of primes gone, and the degree never exceeds the
\* number of towers, so every pending rescaling can be paid for.
THEOREM FlexibleRescaleHeadroom ==
    ASSUME Flexible, ~AliasedOperands
    PROVE  Spec => []RescaleHeadroom
<1>1. IInv => RescaleHeadroom
  BY InvariantProperties, Zenon
<1> QED BY <1>1, FlexibleInvariant, PTL

\* What Compress sends decodes at its true scale.
THEOREM FlexibleSentDecodes ==
    ASSUME Flexible, ~AliasedOperands
    PROVE  Spec => []SentDecodes
<1>1. IInv => SentDecodes
  BY InvariantProperties, Zenon
<1> QED BY <1>1, FlexibleInvariant, PTL

------------------------------------------------------------------------------

\* Every set of natural numbers that is not empty has a least one.
LEMMA LeastNat ==
    ASSUME NEW S, S \subseteq Nat, S # {}
    PROVE  \E x \in S : \A y \in S : x <= y
<1>1. PICK x \in S : \A y \in S : ~(<<y, x>> \in OpToRel(<, Nat))
  BY NatLessThanWellFounded, WFMin
<1>2. \A y \in S : ~(y < x)
  BY <1>1 DEF OpToRel
<1> QED BY <1>2

-----------------------------------------------------------------------------
(***************************************************************************)
(* FIXEDMANUAL.  The program rescales; the scale of a ciphertext of degree *)
(* d is d times that of degree 1, whatever its level.                      *)
(***************************************************************************)

\* The scale of degree n, and that of n dropped primes.
Scaled(n) == n * ApproxSF

\* What every ciphertext of a program with manual rescaling satisfies.
GoodManual(c) ==
    /\ c \in Ciphertext
    /\ c.level + c.towers = SizeQ
    /\ c.deg >= 1 /\ c.deg <= c.towers
    /\ c.scale = Scaled(c.deg)
    /\ c.fault = {}

GoodManualSent(c) ==
    /\ c \in Ciphertext
    /\ c.deg = 1 /\ c.towers >= 1 /\ c.fault = {} /\ c.scale = ApproxSF

StoreManual(f) ==
    /\ f \in [Regs -> Ciphertext \cup {Null}]
    /\ \A r \in Regs : f[r] # Null => GoodManual(f[r])

\* The inductive invariant of manual rescaling.
IInvManual ==
    /\ StoreManual(ct)
    /\ sent \in Ciphertext \cup {Null}
    /\ sent # Null => GoodManualSent(sent)

LEMMA ManualTypes ==
    ASSUME Manual
    PROVE  /\ SizeQ \in Nat /\ SizeQ >= 2 /\ ~Flexible /\ ~Ext /\ ExtraPrime = 0
           /\ \A l \in Nat : GetScalingFactorReal(l) = ApproxSF
BY SizeAssumption DEF Flexible, Ext, Manual, ExtraPrime, GetScalingFactorReal

LEMMA ScaledSums ==
    /\ ApproxSF \in Int /\ Scaled(0) = 0 /\ Scaled(1) = ApproxSF
    /\ \A n \in Int : Scaled(n) \in Int
    /\ \A m, n \in Int : Scaled(m + n) = Scaled(m) + Scaled(n)
    /\ \A m, n \in Int : Scaled(m - n) = Scaled(m) - Scaled(n)
<1>1. ApproxSF \in Int
  BY TableAssumption
<1>2. ASSUME NEW m \in Int, NEW n \in Int
      PROVE  /\ (m + n) * ApproxSF = m * ApproxSF + n * ApproxSF
             /\ (m - n) * ApproxSF = m * ApproxSF - n * ApproxSF
  BY <1>1
<1> QED BY <1>1, <1>2 DEF Scaled

\* Dropping n towers, but not the last, divides by n primes of weight ApproxSF.
LEMMA DroppedScaled ==
    ASSUME Manual, NEW t \in 1 .. SizeQ, NEW n \in Nat, n < t
    PROVE  LogModulus[t] - LogModulus[t - n] = Scaled(n)
<1> DEFINE Bad == {k \in Nat : k < t /\ LogModulus[t] - LogModulus[t - k] # Scaled(k)}
<1> SUFFICES ASSUME Bad # {} PROVE FALSE
  OBVIOUS
<1>0. SizeQ \in Nat /\ ~Flexible /\ t \in Nat /\ t <= SizeQ
  BY ManualTypes
<1>1. PICK k \in Bad : \A j \in Bad : k <= j
  <2>1. Bad \subseteq Nat
    OBVIOUS
  <2> HIDE DEF Bad
  <2> QED BY <2>1, LeastNat
<1>2. k \in Nat /\ k < t /\ LogModulus[t] - LogModulus[t - k] # Scaled(k)
  OBVIOUS
<1>3. t \in 0 .. SizeQ /\ t - k \in 0 .. SizeQ
  BY <1>0, <1>2
<1>4. LogModulus[t] \in Int /\ LogModulus[t - k] \in Int
  BY <1>3, TableAssumption
<1>5. k # 0
  <2>1. t - 0 = t
    BY <1>0
  <2>2. LogModulus[t] - LogModulus[t] = 0
    BY <1>4
  <2>3. LogModulus[t] - LogModulus[t - 0] = Scaled(0)
    BY <2>1, <2>2, ScaledSums, Zenon
  <2> HIDE DEF Bad
  <2> QED BY <2>3, <1>2
<1>6. k - 1 \in Nat /\ k - 1 < t /\ ~(k <= k - 1) /\ (t - k) + 1 = t - (k - 1)
      /\ t - k \in 1 .. (SizeQ - 1) /\ t - (k - 1) \in 0 .. SizeQ /\ (k - 1) + 1 = k
  BY <1>0, <1>2, <1>5
<1>7. LogModulus[t] - LogModulus[t - (k - 1)] = Scaled(k - 1)
  <2>1. k - 1 \notin Bad
    <3> HIDE DEF Bad
    <3> QED BY <1>1, <1>6
  <2> QED BY <2>1, <1>6
<1>8. LogModulus[t - (k - 1)] - LogModulus[t - k] = ApproxSF
  <2>1. LogQ(t - k) = ApproxSF
    BY <1>0, <1>6, FixedAssumption
  <2> QED BY <2>1, <1>6 DEF LogQ
<1>9. LogModulus[t - (k - 1)] \in Int
  BY <1>6, TableAssumption
<1>10. Scaled(k) = Scaled(k - 1) + ApproxSF /\ Scaled(k - 1) \in Int /\ ApproxSF \in Int
  <2>1. Scaled((k - 1) + 1) = Scaled(k - 1) + Scaled(1)
    BY <1>6, ScaledSums
  <2> QED BY <2>1, <1>6, ScaledSums
<1> QED BY <1>2, <1>4, <1>7, <1>8, <1>9, <1>10

LEMMA GoodManualFacts ==
    ASSUME Manual, NEW c, GoodManual(c)
    PROVE  /\ c \in Ciphertext /\ c.level \in Nat /\ c.towers \in Nat /\ c.deg \in Nat
           /\ c.towers \in 1 .. SizeQ /\ c.depth \in Nat /\ c.sf \in Int /\ c.scale \in Int
           /\ c.level + c.towers = SizeQ /\ c.deg >= 1 /\ c.deg <= c.towers
           /\ c.fault = {} /\ c.scale = Scaled(c.deg) /\ SizeQ \in Nat
<1>1. /\ c.level \in 0 .. SizeQ /\ c.towers \in 0 .. SizeQ /\ c.deg \in Nat
      /\ c.depth \in Nat /\ c.sf \in Int /\ c.scale \in Int
  BY DEF GoodManual, Ciphertext
<1> QED BY <1>1, ManualTypes DEF GoodManual

-----------------------------------------------------------------------------
\* Rescaling fewer times than the degree, or not at all.
LEMMA ManualModReduce ==
    ASSUME Manual, NEW c, GoodManual(c), NEW n \in Nat, n < c.deg
    PROVE  LET x == ModReduceInternalInPlace(c, n)
           IN  GoodManual(x) /\ x.deg = c.deg - n
<1> DEFINE x == ModReduceInternalInPlace(c, n)
           q == LogModulus[c.towers] - LogModulus[c.towers - n]
<1>1. /\ c \in Ciphertext /\ c.level \in Nat /\ c.towers \in Nat /\ c.deg \in Nat
      /\ c.towers \in 1 .. SizeQ /\ c.sf \in Int /\ c.scale \in Int
      /\ c.level + c.towers = SizeQ /\ c.deg <= c.towers /\ c.fault = {}
      /\ c.scale = Scaled(c.deg) /\ SizeQ \in Nat
  BY GoodManualFacts
<1>2. /\ ~(c.towers <= n) /\ c.level + n \in 0 .. SizeQ /\ c.towers - n \in 0 .. SizeQ
      /\ c.deg - n \in Nat /\ n < c.towers /\ n \in Int /\ c.deg \in Int
  BY <1>1
<1>3. q = Scaled(n)
  BY <1>1, <1>2, DroppedScaled
<1>4. n * ApproxSF = Scaled(n) /\ Scaled(n) \in Int
      /\ c.scale - Scaled(n) = Scaled(c.deg - n) /\ Scaled(c.deg - n) \in Int
  BY <1>1, <1>2, ScaledSums DEF Scaled
<1>5. x = [c EXCEPT !.towers = c.towers - n, !.deg = c.deg - n, !.level = c.level + n,
                    !.sf = c.sf - Scaled(n), !.scale = c.scale - Scaled(n)]
  <2>1. GetModReduceFactor(c.towers, n) = Scaled(n)
    BY ManualTypes DEF GetModReduceFactor, Scaled
  <2>2. x = [c EXCEPT !.towers = c.towers - n, !.deg = c.deg - n, !.level = c.level + n,
                      !.sf = c.sf - GetModReduceFactor(c.towers, n), !.scale = c.scale - q]
    BY <1>2 DEF ModReduceInternalInPlace
  <2> QED BY <2>1, <2>2, <1>3
<1> HIDE DEF x, q
<1>6. /\ x \in Ciphertext
      /\ x.level = c.level + n /\ x.towers = c.towers - n /\ x.deg = c.deg - n
      /\ x.fault = {} /\ x.scale = Scaled(c.deg - n)
  <2>1. c.sf - Scaled(n) \in Int /\ c.scale - Scaled(n) \in Int
    BY <1>1, <1>4
  <2> QED BY <2>1, <1>1, <1>2, <1>4, <1>5 DEF Ciphertext
<1>7. /\ (c.level + n) + (c.towers - n) = SizeQ /\ c.deg - n >= 1
      /\ c.deg - n <= c.towers - n
  BY <1>1, <1>2
<1>8. GoodManual(x)
  BY <1>6, <1>7 DEF GoodManual
<1> QED BY <1>6, <1>8 DEF x

\* Dropping towers, as long as there is one for each degree.
LEMMA ManualLevelReduce ==
    ASSUME Manual, NEW c, GoodManual(c), NEW n \in Nat, n < c.towers
    PROVE  LET x == LevelReduceInternalInPlace(c, n)
           IN  /\ x \in Ciphertext /\ x.level = c.level + n /\ x.towers = c.towers - n
               /\ x.deg = c.deg /\ x.depth = c.depth /\ x.scale = c.scale /\ x.fault = {}
               /\ c.deg <= c.towers - n => GoodManual(x)
<1> DEFINE x == LevelReduceInternalInPlace(c, n)
<1>1. /\ c \in Ciphertext /\ c.level \in Nat /\ c.towers \in Nat /\ c.deg \in Nat
      /\ c.level + c.towers = SizeQ /\ c.fault = {} /\ c.deg >= 1
      /\ c.scale = Scaled(c.deg) /\ SizeQ \in Nat
  BY GoodManualFacts
<1>2. /\ ~(c.towers <= n) /\ c.level + n \in 0 .. SizeQ /\ c.towers - n \in 0 .. SizeQ
      /\ (c.level + n) + (c.towers - n) = SizeQ
  BY <1>1
<1>3. x = [c EXCEPT !.towers = c.towers - n, !.level = c.level + n]
  BY <1>2 DEF LevelReduceInternalInPlace
<1> HIDE DEF x
<1>4. /\ x \in Ciphertext /\ x.level = c.level + n /\ x.towers = c.towers - n
      /\ x.deg = c.deg /\ x.depth = c.depth /\ x.scale = c.scale /\ x.fault = {}
  BY <1>1, <1>2, <1>3 DEF Ciphertext
<1>5. c.deg <= c.towers - n => GoodManual(x)
  BY <1>1, <1>2, <1>4, SMTT(60) DEF GoodManual
<1> QED BY <1>4, <1>5 DEF x

\* x is c after some of its towers were dropped.
Trimmed(x, c) ==
    /\ x \in Ciphertext
    /\ x.level + x.towers = SizeQ /\ x.towers >= 1
    /\ x.deg = c.deg /\ x.scale = c.scale /\ x.fault = {}
    /\ c.deg <= x.towers => GoodManual(x)

LEMMA TrimmedFacts ==
    ASSUME Manual, NEW c, GoodManual(c), NEW x, Trimmed(x, c)
    PROVE  /\ x \in Ciphertext /\ x.level \in Nat /\ x.towers \in Nat /\ x.depth \in Nat
           /\ x.sf \in Int /\ x.level + x.towers = SizeQ /\ x.level \in 0 .. SizeQ
           /\ x.deg = c.deg /\ c.deg \in Nat /\ c.deg >= 1 /\ x.fault = {} /\ SizeQ \in Nat
           /\ x.scale = Scaled(c.deg) /\ Scaled(c.deg) \in Int
           /\ c.deg <= x.towers => GoodManual(x)
<1>1. /\ x.level \in 0 .. SizeQ /\ x.towers \in 0 .. SizeQ /\ x.depth \in Nat /\ x.sf \in Int
  BY DEF Trimmed, Ciphertext
<1>2. SizeQ \in Nat /\ c.deg \in Nat /\ c.deg >= 1 /\ c.scale = Scaled(c.deg)
      /\ Scaled(c.deg) \in Int
  BY GoodManualFacts, ScaledSums
<1> QED BY <1>1, <1>2 DEF Trimmed

\* AdjustLevelsInPlace trims the operand with more towers.
LEMMA ManualOperands ==
    ASSUME Manual, NEW c, NEW d, GoodManual(c), GoodManual(d)
    PROVE  LET p == AdjustLevelsInPlace(c, d)
           IN  /\ Trimmed(p[1], c) /\ Trimmed(p[2], d)
               /\ p[1].towers = p[2].towers /\ p[1].level = p[2].level
               /\ c.deg = d.deg => c.deg <= p[1].towers
<1>1. /\ c.towers \in Nat /\ d.towers \in Nat /\ SizeQ \in Nat /\ c.towers >= 1 /\ d.towers >= 1
      /\ c.level \in Nat /\ d.level \in Nat /\ c.deg \in Nat /\ d.deg \in Nat
      /\ c.level + c.towers = SizeQ /\ d.level + d.towers = SizeQ
      /\ c.deg <= c.towers /\ d.deg <= d.towers
  BY GoodManualFacts
<1>2. Trimmed(c, c) /\ Trimmed(d, d)
  BY <1>1 DEF Trimmed, GoodManual
<1>3. ASSUME NEW x, NEW y, GoodManual(x), x.towers \in Nat, x.level \in Nat,
             x.level + x.towers = SizeQ,
             y \in Nat, y >= 1, x.towers > y
      PROVE  LET z == LevelReduceInternalInPlace(x, x.towers - y)
             IN  Trimmed(z, x) /\ z.towers = y
  <2> DEFINE z == LevelReduceInternalInPlace(x, x.towers - y)
  <2>1. /\ x.towers - y \in Nat /\ x.towers - y < x.towers
        /\ x.towers - (x.towers - y) = y
        /\ (x.level + (x.towers - y)) + y = SizeQ
    BY <1>1, <1>3
  <2>2. /\ z \in Ciphertext /\ z.level = x.level + (x.towers - y)
        /\ z.towers = x.towers - (x.towers - y) /\ z.deg = x.deg /\ z.scale = x.scale
        /\ z.fault = {}
        /\ x.deg <= x.towers - (x.towers - y) => GoodManual(z)
    BY <2>1, <1>3, ManualLevelReduce
  <2> HIDE DEF z
  <2>3. z.towers = y /\ z.level + z.towers = SizeQ /\ z.towers >= 1
        /\ (x.deg <= z.towers => GoodManual(z))
    BY <2>1, <2>2, <1>3, Zenon
  <2>4. Trimmed(z, x) /\ z.towers = y
    BY <2>2, <2>3, Zenon DEF Trimmed
  <2> QED BY <2>4 DEF z
<1> DEFINE x1 == IF c.towers > d.towers
                 THEN LevelReduceInternalInPlace(c, c.towers - d.towers) ELSE c
           x2 == IF d.towers > c.towers
                 THEN LevelReduceInternalInPlace(d, d.towers - c.towers) ELSE d
<1>4. CASE c.towers > d.towers
  <2>1. x2 = d /\ x1 = LevelReduceInternalInPlace(c, c.towers - d.towers)
    BY <1>4, <1>1
  <2>2. Trimmed(x1, c) /\ x1.towers = d.towers
    BY <2>1, <1>1, <1>3, <1>4, SMTT(60)
  <2> HIDE DEF x1, x2
  <2>3. x1.level + x1.towers = SizeQ /\ x1.level \in Nat
    BY <2>2, TrimmedFacts
  <2>4. x1.level = x2.level
    BY <2>1, <2>2, <2>3, <1>1
  <2>5. Trimmed(x2, d) /\ x2.towers = d.towers
    BY <2>1, <1>2
  <2>6. c.deg = d.deg => c.deg <= x1.towers
    BY <2>2, <1>1, SMTT(60)
  <2> QED BY <2>2, <2>4, <2>5, <2>6 DEF AdjustLevelsInPlace, x1, x2
<1>5. CASE d.towers > c.towers
  <2>1. x1 = c /\ x2 = LevelReduceInternalInPlace(d, d.towers - c.towers)
    BY <1>5, <1>1
  <2>2. Trimmed(x2, d) /\ x2.towers = c.towers
    BY <2>1, <1>1, <1>3, <1>5, SMTT(60)
  <2> HIDE DEF x1, x2
  <2>3. x2.level + x2.towers = SizeQ /\ x2.level \in Nat
    BY <2>2, TrimmedFacts
  <2>4. x1.level = x2.level
    BY <2>1, <2>2, <2>3, <1>1
  <2>5. Trimmed(x1, c) /\ x1.towers = c.towers
    BY <2>1, <1>2
  <2>6. c.deg = d.deg => c.deg <= x1.towers
    BY <2>1, <1>1, SMTT(60)
  <2> QED BY <2>2, <2>4, <2>5, <2>6, SMTT(60) DEF AdjustLevelsInPlace, x1, x2
<1>6. CASE c.towers = d.towers
  <2>1. x1 = c /\ x2 = d
    BY <1>6, <1>1
  <2>2. c.level = d.level
    BY <1>6, <1>1
  <2> HIDE DEF x1, x2
  <2>3. /\ Trimmed(x1, c) /\ Trimmed(x2, d) /\ x1.towers = x2.towers
        /\ x1.level = x2.level /\ (c.deg = d.deg => c.deg <= x1.towers)
    BY <2>1, <2>2, <1>1, <1>2, <1>6
  <2> QED BY <2>3 DEF AdjustLevelsInPlace, x1, x2
<1> QED BY <1>1, <1>4, <1>5, <1>6

LEMMA MaxOfDepths ==
    ASSUME NEW m \in Nat, NEW n \in Nat PROVE Max2(m, n) \in Nat
BY DEF Max2

\* Sums of equal degrees.
LEMMA ManualAdd ==
    ASSUME Manual, NEW c, NEW d, GoodManual(c), GoodManual(d), c.deg = d.deg
    PROVE  LET p == AdjustLevelsInPlace(c, d)
           IN  GoodManual(p[1]) /\ GoodManual(p[2]) /\ GoodManual(EvalAddCore(p[1], p[2]))
<1> DEFINE p == AdjustLevelsInPlace(c, d)
           x == p[1]
           y == p[2]
           z == EvalAddCore(x, y)
<1>1. /\ Trimmed(x, c) /\ Trimmed(y, d) /\ x.towers = y.towers /\ c.deg <= x.towers
  BY ManualOperands
<1> HIDE DEF p, x, y
<1>2. /\ x \in Ciphertext /\ x.depth \in Nat /\ x.fault = {} /\ x.scale = Scaled(c.deg)
      /\ GoodManual(x)
  BY <1>1, TrimmedFacts
<1>3. /\ y \in Ciphertext /\ y.depth \in Nat /\ y.fault = {} /\ y.scale = Scaled(d.deg)
      /\ GoodManual(y)
  BY <1>1, TrimmedFacts
<1>4. Max2(x.depth, y.depth) \in Nat
  BY <1>2, <1>3, MaxOfDepths
<1>5. z = [x EXCEPT !.depth = Max2(x.depth, y.depth), !.fault = {}]
  BY <1>1, <1>2, <1>3 DEF EvalAddCore, Faulty
<1> HIDE DEF z
<1>6. /\ z \in Ciphertext /\ z.level = x.level /\ z.towers = x.towers /\ z.deg = x.deg
      /\ z.scale = x.scale /\ z.fault = {}
  BY <1>2, <1>4, <1>5 DEF Ciphertext
<1>7. GoodManual(z)
  BY <1>2, <1>6 DEF GoodManual
<1> QED BY <1>2, <1>3, <1>7, SMTT(60) DEF z, x, y, p

\* Products: the check that a tower remains for every degree of the product
\* covers the operands as well.
LEMMA ManualProduct ==
    ASSUME Manual, NEW c, NEW d, GoodManual(c), GoodManual(d), NEW x, NEW y,
           Trimmed(x, c), Trimmed(y, d), x.towers = y.towers,
           WithinDepth(EvalMultCore(x, y))
    PROVE  GoodManual(x) /\ GoodManual(y) /\ GoodManual(EvalMultCore(x, y))
<1> DEFINE z == EvalMultCore(x, y)
<1>2. /\ x \in Ciphertext /\ x.level \in Nat /\ x.towers \in Nat /\ x.depth \in Nat
      /\ x.fault = {} /\ x.deg = c.deg /\ c.deg \in Nat /\ c.deg >= 1 /\ x.sf \in Int
      /\ x.scale = Scaled(c.deg) /\ x.level + x.towers = SizeQ /\ Scaled(c.deg) \in Int
      /\ c.deg <= x.towers => GoodManual(x)
  BY TrimmedFacts
<1>3. /\ y \in Ciphertext /\ y.depth \in Nat /\ y.fault = {} /\ y.deg = d.deg
      /\ d.deg \in Nat /\ d.deg >= 1 /\ y.sf \in Int
      /\ y.scale = Scaled(d.deg) /\ Scaled(d.deg) \in Int
      /\ d.deg <= y.towers => GoodManual(y)
  BY TrimmedFacts
<1>4. Max2(x.depth, y.depth) + 1 \in Nat
  <2>1. Max2(x.depth, y.depth) \in Nat
    BY <1>2, <1>3, MaxOfDepths
  <2> QED BY <2>1
<1>5. z = [x EXCEPT !.deg = x.deg + y.deg, !.sf = x.sf + y.sf, !.scale = x.scale + y.scale,
                    !.depth = Max2(x.depth, y.depth) + 1, !.fault = {}]
  BY <1>2, <1>3 DEF EvalMultCore, Faulty
<1>6. /\ x.deg + y.deg \in Nat /\ x.sf + y.sf \in Int /\ x.scale + y.scale \in Int
      /\ x.scale + y.scale = Scaled(x.deg + y.deg)
  <2>1. c.deg \in Int /\ d.deg \in Int /\ c.deg + d.deg \in Nat /\ x.sf + y.sf \in Int
        /\ Scaled(c.deg) + Scaled(d.deg) \in Int
    BY <1>2, <1>3
  <2>2. Scaled(c.deg + d.deg) = Scaled(c.deg) + Scaled(d.deg)
    BY <2>1, ScaledSums, Zenon
  <2> QED BY <2>1, <2>2, <1>2, <1>3, Zenon
<1> HIDE DEF z
<1>7. /\ z \in Ciphertext /\ z.level = x.level /\ z.towers = x.towers
      /\ z.deg = x.deg + y.deg /\ z.scale = Scaled(x.deg + y.deg) /\ z.fault = {}
  BY <1>2, <1>4, <1>5, <1>6 DEF Ciphertext
<1>8. x.level + (x.deg + y.deg) <= SizeQ
  BY <1>7, SMTT(60) DEF WithinDepth, z
<1>9. /\ c.deg <= x.towers /\ d.deg <= y.towers
      /\ x.deg + y.deg <= x.towers /\ x.deg + y.deg >= 1
  BY <1>2, <1>3, <1>8, ManualTypes, SMTT(60)
<1>10. GoodManual(z)
  BY <1>2, <1>7, <1>9, SMTT(60) DEF GoodManual
<1> QED BY <1>2, <1>3, <1>9, <1>10 DEF z

\* A product of a ciphertext with itself.
LEMMA ManualSquare ==
    ASSUME Manual, NEW c, GoodManual(c), WithinDepth(EvalMultCore(c, c))
    PROVE  GoodManual(EvalMultCore(c, c))
<1>1. c.towers >= 1
  BY GoodManualFacts
<1>2. Trimmed(c, c)
  BY <1>1 DEF Trimmed, GoodManual
<1> QED BY <1>2, ManualProduct, SMTT(60)

\* Plaintexts, which a caller makes at any level and degree there are towers for.
LEMMA ManualPlaintext ==
    ASSUME Manual, NEW p \in Plaintexts, WithinDepth(p)
    PROVE  GoodManual(p)
<1>1. PICK l \in 0 .. (SizeQ - 1), d \in {1, 2} : p = MakeCKKSPackedPlaintext(l, d)
  BY DEF Plaintexts
<1>2. p = [level |-> l, towers |-> SizeQ - l, deg |-> d, sf |-> Scaled(d),
           scale |-> Scaled(d), depth |-> l + d - 1 - 0, fault |-> {}]
  <2>1. l \in Nat
    BY ManualTypes
  <2> QED BY <1>1, <2>1, ManualTypes, SMTT(60) DEF MakeCKKSPackedPlaintext, Scaled
<1>3. /\ l \in 0 .. SizeQ /\ SizeQ - l \in 0 .. SizeQ /\ d \in Nat /\ d >= 1
      /\ l + d - 1 - 0 \in Nat /\ l + (SizeQ - l) = SizeQ
  BY ManualTypes
<1>4. Scaled(d) \in Int
  BY <1>3, ScaledSums, SMTT(60)
<1>5. /\ p \in Ciphertext /\ p.level = l /\ p.towers = SizeQ - l /\ p.deg = d
      /\ p.scale = Scaled(d) /\ p.fault = {}
  BY <1>2, <1>3, <1>4, SMTT(60) DEF Ciphertext
<1>6. l + d <= SizeQ
  BY <1>5 DEF WithinDepth
<1>7. d <= SizeQ - l
  BY <1>6, <1>3, ManualTypes
<1> QED BY <1>3, <1>5, <1>7, SMTT(60) DEF GoodManual

\* Sums with a real constant, which is encoded at the scale of the degree.
LEMMA ManualAddConst ==
    ASSUME Manual, NEW c, GoodManual(c)
    PROVE  GoodManual(EvalAddConstCore(c))
<1>1. c \in Ciphertext /\ c.level \in Nat /\ c.fault = {} /\ c.scale = Scaled(c.deg)
  BY GoodManualFacts
<1>2. c.scale = GetElementForEvalAddOrSub(c)
  BY <1>1, ManualTypes DEF GetElementForEvalAddOrSub, Scaled
<1>3. EvalAddConstCore(c) = [c EXCEPT !.fault = {}]
  BY <1>1, <1>2 DEF EvalAddConstCore, Faulty
<1>4. EvalAddConstCore(c) = c
  BY <1>1, <1>3 DEF Ciphertext
<1> QED BY <1>4

\* Products with a real constant.
LEMMA ManualMultConst ==
    ASSUME Manual, NEW c, GoodManual(c),
           WithinDepth([EvalMultCoreConst(c, 0) EXCEPT !.depth = @ + 1])
    PROVE  GoodManual([EvalMultCoreConst(c, 0) EXCEPT !.depth = @ + 1])
<1> DEFINE y == EvalMultCoreConst(c, 0)
           z == [y EXCEPT !.depth = @ + 1]
<1>1. /\ c \in Ciphertext /\ c.level \in Nat /\ c.towers \in Nat /\ c.deg \in Nat
      /\ c.sf \in Int /\ c.scale \in Int /\ c.depth \in Nat /\ c.deg >= 1
      /\ c.level + c.towers = SizeQ /\ c.fault = {} /\ c.scale = Scaled(c.deg)
  BY GoodManualFacts
<1>2. GetScalingFactorReal(c.level) = ApproxSF
  BY <1>1, ManualTypes
<1>3. /\ c.scale + 0 + ApproxSF = Scaled(c.deg + 1) /\ Scaled(c.deg + 1) \in Int
      /\ c.sf + ApproxSF \in Int /\ c.deg + 1 \in Nat /\ c.depth + 1 \in Nat
  <2>1. /\ c.deg \in Int /\ c.deg + 1 \in Nat /\ c.depth + 1 \in Nat /\ ApproxSF \in Int
        /\ c.deg + 1 \in Int /\ 1 \in Int
    BY <1>1, ScaledSums, SMTT(60)
  <2>2. Scaled(c.deg + 1) = Scaled(c.deg) + Scaled(1) /\ Scaled(1) = ApproxSF
        /\ Scaled(c.deg) \in Int /\ Scaled(c.deg + 1) \in Int
    BY <2>1, ScaledSums, Zenon
  <2>3. Scaled(c.deg) + 0 + ApproxSF = Scaled(c.deg) + ApproxSF
    BY <2>1, <2>2
  <2>4. c.sf + ApproxSF \in Int
    BY <2>1, <1>1
  <2> QED BY <2>1, <2>2, <2>3, <2>4, <1>1, Zenon
<1>4. y = [c EXCEPT !.deg = c.deg + 1, !.sf = c.sf + ApproxSF, !.scale = Scaled(c.deg + 1)]
  BY <1>2, <1>3 DEF EvalMultCoreConst
<1> HIDE DEF y
<1>5. y.depth = c.depth
  BY <1>1, <1>4 DEF Ciphertext
<1>6. z = [c EXCEPT !.deg = c.deg + 1, !.sf = c.sf + ApproxSF, !.scale = Scaled(c.deg + 1),
                    !.depth = c.depth + 1]
  BY <1>1, <1>4, <1>5 DEF Ciphertext
<1> HIDE DEF z
<1>7. /\ z \in Ciphertext /\ z.level = c.level /\ z.towers = c.towers
      /\ z.deg = c.deg + 1 /\ z.scale = Scaled(c.deg + 1) /\ z.fault = {}
  BY <1>1, <1>3, <1>6 DEF Ciphertext
<1>8. c.level + (c.deg + 1) <= SizeQ
  BY <1>7 DEF WithinDepth, z, y
<1>9. c.deg + 1 <= c.towers /\ c.deg + 1 >= 1
  BY <1>1, <1>8, ManualTypes
<1>10. GoodManual(z)
  BY <1>1, <1>7, <1>9 DEF GoodManual
<1> QED BY <1>10 DEF z, y

\* Compress rescales to degree 1 and then drops towers, never the last one.
LEMMA ManualCompress ==
    ASSUME Manual, NEW c, GoodManual(c), NEW n \in 1 .. SizeQ
    PROVE  LET x == ModReduceInternalInPlace(c, Max2(c.deg - 1, 0))
           IN  GoodManualSent(IF n < x.towers THEN LevelReduceInternalInPlace(x, x.towers - n)
                              ELSE x)
<1> DEFINE x == ModReduceInternalInPlace(c, Max2(c.deg - 1, 0))
<1>1. c.deg \in Nat /\ c.deg >= 1 /\ SizeQ \in Nat
  BY GoodManualFacts
<1>2. Max2(c.deg - 1, 0) = c.deg - 1 /\ c.deg - 1 \in Nat /\ c.deg - 1 < c.deg
      /\ c.deg - (c.deg - 1) = 1
  BY <1>1 DEF Max2
<1>3. GoodManual(x) /\ x.deg = 1
  BY <1>2, ManualModReduce, SMTT(60)
<1> HIDE DEF x
<1>4. x \in Ciphertext /\ x.towers \in Nat /\ x.towers >= 1 /\ x.fault = {} /\ x.scale = ApproxSF
  BY <1>3, GoodManualFacts, ScaledSums
<1>5. CASE n < x.towers
  <2> DEFINE z == LevelReduceInternalInPlace(x, x.towers - n)
  <2>1. x.towers - n \in Nat /\ x.towers - n < x.towers /\ x.towers - (x.towers - n) = n
        /\ n >= 1
    BY <1>1, <1>4, <1>5
  <2>2. /\ z \in Ciphertext /\ z.towers = x.towers - (x.towers - n) /\ z.deg = x.deg
        /\ z.fault = {} /\ z.scale = x.scale
    BY <2>1, <1>3, ManualLevelReduce
  <2> HIDE DEF z
  <2>3. GoodManualSent(z)
    BY <2>1, <2>2, <1>3, <1>4 DEF GoodManualSent
  <2> QED BY <2>3, <1>5 DEF z, x
<1>6. CASE ~(n < x.towers)
  <2>1. GoodManualSent(x)
    BY <1>3, <1>4, SMTT(60) DEF GoodManualSent
  <2> QED BY <2>1, <1>6 DEF x
<1> QED BY <1>5, <1>6, SMTT(60)

-----------------------------------------------------------------------------
LEMMA StoreManualUpdate ==
    ASSUME NEW f, StoreManual(f), NEW r \in Regs, NEW c, GoodManual(c)
    PROVE  StoreManual([f EXCEPT ![r] = c])
<1>1. c \in Ciphertext
  BY DEF GoodManual
<1> QED BY <1>1 DEF StoreManual

LEMMA StoreManualUpdates ==
    ASSUME NEW f, StoreManual(f), NEW a \in Regs, NEW r \in Regs,
           NEW x, NEW c, GoodManual(x), GoodManual(c)
    PROVE  StoreManual([f EXCEPT ![a] = x, ![r] = c])
<1>1. StoreManual([f EXCEPT ![a] = x])
  BY StoreManualUpdate
<1>2. StoreManual([[f EXCEPT ![a] = x] EXCEPT ![r] = c])
  BY <1>1, StoreManualUpdate
<1> QED BY <1>2 DEF StoreManual

\* Calls on two ciphertexts.
LEMMA ManualBinaryCall ==
    ASSUME Manual, StoreManual(ct), NEW a \in Regs, NEW b \in Regs, NEW r \in Regs,
           BinaryCall(a, b, r)
    PROVE  StoreManual(ct') /\ sent' = sent
<1>1. GoodManual(ct[a]) /\ GoodManual(ct[b])
  BY DEF BinaryCall, EvalAdd, EvalAddMutable, EvalMult, EvalMultMutable, Holds, StoreManual
<1> DEFINE p == AdjustLevelsInPlace(ct[a], ct[b])
<1>2. ct[a].deg = ct[b].deg =>
          GoodManual(p[1]) /\ GoodManual(p[2]) /\ GoodManual(EvalAddCore(p[1], p[2]))
  BY <1>1, ManualAdd
<1>3. WithinDepth(EvalMultCore(p[1], p[2])) =>
          GoodManual(p[1]) /\ GoodManual(p[2]) /\ GoodManual(EvalMultCore(p[1], p[2]))
  <2>1. Trimmed(p[1], ct[a]) /\ Trimmed(p[2], ct[b]) /\ p[1].towers = p[2].towers
    BY <1>1, ManualOperands, SMTT(60)
  <2> HIDE DEF p
  <2> QED BY <2>1, <1>1, ManualProduct
<1>4. AdjustForAddOrSubInPlace(ct[a], ct[b]) = p /\ AdjustForMultInPlace(ct[a], ct[b]) = p
  BY DEF AdjustForAddOrSubInPlace, AdjustForMultInPlace
<1> HIDE DEF p
<1>5. ASSUME NEW c, GoodManual(p[1]), GoodManual(p[2]), GoodManual(c),
             ct' = [ct EXCEPT ![a] = p[1], ![b] = p[2], ![r] = c]
      PROVE  StoreManual(ct')
  <2> DEFINE f == [ct EXCEPT ![a] = p[1]]
  <2>1. StoreManual(f)
    BY <1>5, StoreManualUpdate
  <2>2. ct' = [f EXCEPT ![b] = p[2], ![r] = c]
    BY <1>5
  <2> HIDE DEF f
  <2>3. StoreManual([f EXCEPT ![b] = p[2], ![r] = c])
    BY <2>1, <1>5, StoreManualUpdates
  <2> QED BY <2>2, <2>3, SMTT(60)
<1>6. CASE EvalAdd(a, b, r)
  <2>1. ct' = [ct EXCEPT ![r] = EvalAddCore(p[1], p[2])] /\ sent' = sent
        /\ ct[a].deg = ct[b].deg
    BY <1>4, <1>6 DEF EvalAdd, StoreSum, SumOf, Addable
  <2> QED BY <2>1, <1>2, StoreManualUpdate
<1>7. CASE EvalAddMutable(a, b, r)
  <2>1. /\ ct' = [ct EXCEPT ![a] = p[1], ![b] = p[2], ![r] = EvalAddCore(p[1], p[2])]
        /\ sent' = sent /\ ct[a].deg = ct[b].deg
    BY <1>4, <1>7 DEF EvalAddMutable, StoreSumAndBoth, SumOf, Addable
  <2> QED BY <2>1, <1>2, <1>5
<1>8. CASE EvalMult(a, b, r)
  <2>1. /\ ct' = [ct EXCEPT ![r] = EvalMultCore(p[1], p[2])] /\ sent' = sent
        /\ WithinDepth(EvalMultCore(p[1], p[2]))
    BY <1>4, <1>8 DEF EvalMult, StoreProduct, ProductOf
  <2> QED BY <2>1, <1>3, StoreManualUpdate
<1>9. CASE EvalMultMutable(a, b, r)
  <2>1. /\ ct' = [ct EXCEPT ![a] = p[1], ![b] = p[2], ![r] = EvalMultCore(p[1], p[2])]
        /\ sent' = sent /\ WithinDepth(EvalMultCore(p[1], p[2]))
    BY <1>4, <1>9 DEF EvalMultMutable, StoreProductAndBoth, ProductOf
  <2> QED BY <2>1, <1>3, <1>5
<1> QED BY <1>6, <1>7, <1>8, <1>9 DEF BinaryCall

\* Calls on one ciphertext, a plaintext or a constant.  One object passed twice
\* to a mutable product is harmless here: nothing is rescaled.
LEMMA ManualUnaryCall ==
    ASSUME Manual, StoreManual(ct), NEW a \in Regs, NEW r \in Regs, UnaryCall(a, r)
    PROVE  StoreManual(ct') /\ sent' = sent
<1>1. GoodManual(ct[a])
  BY DEF UnaryCall, EvalAddPlaintext, EvalAddMutablePlaintext, EvalAddConst,
         EvalMultMutableAliased, EvalSquare, EvalSquareMutable, EvalMultPlaintext,
         EvalMultMutablePlaintext, EvalMultConst, Holds, StoreManual
<1> DEFINE P(pt) == AdjustLevelsInPlace(ct[a], pt)
           c == ct[a]
<1>2. ASSUME NEW pt \in Plaintexts, WithinDepth(pt), c.deg = pt.deg
      PROVE  GoodManual(P(pt)[1]) /\ GoodManual(EvalAddCore(P(pt)[1], P(pt)[2]))
  <2>1. GoodManual(pt)
    BY <1>2, ManualPlaintext, SMTT(60)
  <2> QED BY <2>1, <1>1, <1>2, ManualAdd
<1>3. ASSUME NEW pt \in Plaintexts, WithinDepth(pt),
             WithinDepth(EvalMultCore(P(pt)[1], P(pt)[2]))
      PROVE  GoodManual(P(pt)[1]) /\ GoodManual(EvalMultCore(P(pt)[1], P(pt)[2]))
  <2>1. GoodManual(pt)
    BY <1>3, ManualPlaintext, SMTT(60)
  <2> DEFINE p == P(pt)
  <2>2. Trimmed(p[1], c) /\ Trimmed(p[2], pt) /\ p[1].towers = p[2].towers
    BY <2>1, <1>1, ManualOperands, ZenonT(60)
  <2>3. WithinDepth(EvalMultCore(p[1], p[2]))
    BY <1>3, SMTT(60)
  <2> HIDE DEF p
  <2>4. GoodManual(p[1]) /\ GoodManual(EvalMultCore(p[1], p[2]))
    BY <2>1, <2>2, <2>3, <1>1, ManualProduct, ZenonT(60)
  <2> QED BY <2>4 DEF p
<1>4. \A pt : /\ AdjustForAddOrSubInPlace(c, pt) = P(pt)
              /\ AdjustForMultInPlace(c, pt) = P(pt)
  BY DEF AdjustForAddOrSubInPlace, AdjustForMultInPlace
<1>5. /\ RescaleBeforeSquare(c) = c /\ RescaleBeforeMultConst(c) = c
      /\ AdjustForMultAliased(c) = c
  BY SMTT(60) DEF RescaleBeforeSquare, RescaleBeforeMultConst, AdjustForMultAliased
<1> HIDE DEF P
<1>6. CASE EvalAddPlaintext(a, r)
  <2>1. PICK pt \in Plaintexts :
            /\ WithinDepth(pt) /\ c.deg = pt.deg
            /\ ct' = [ct EXCEPT ![r] = EvalAddCore(P(pt)[1], P(pt)[2])]
    BY <1>4, <1>6 DEF EvalAddPlaintext, StoreSum, SumOf, Addable
  <2>2. sent' = sent
    BY <1>6 DEF EvalAddPlaintext
  <2> QED BY <2>1, <2>2, <1>2, StoreManualUpdate
<1>7. CASE EvalAddMutablePlaintext(a, r)
  <2>1. PICK pt \in Plaintexts :
            /\ WithinDepth(pt) /\ c.deg = pt.deg
            /\ ct' = [ct EXCEPT ![a] = P(pt)[1], ![r] = EvalAddCore(P(pt)[1], P(pt)[2])]
    BY <1>4, <1>7 DEF EvalAddMutablePlaintext, StoreSumAndFirst, SumOf, Addable
  <2>2. sent' = sent
    BY <1>7 DEF EvalAddMutablePlaintext
  <2> QED BY <2>1, <2>2, <1>2, StoreManualUpdates
<1>8. CASE EvalAddConst(a, r)
  BY <1>8, <1>1, ManualAddConst, StoreManualUpdate DEF EvalAddConst
<1>9. CASE EvalMultMutableAliased(a, r) \/ EvalSquareMutable(a, r)
  <2>1. /\ ct' = [ct EXCEPT ![a] = c, ![r] = EvalMultCore(c, c)] /\ sent' = sent
        /\ WithinDepth(EvalMultCore(c, c))
    BY <1>5, <1>9
       DEF EvalMultMutableAliased, EvalSquareMutable, StoreProductAndFirst, ProductOf, Twice
  <2>2. GoodManual(EvalMultCore(c, c))
    BY <2>1, <1>1, ManualSquare, SMTT(60)
  <2> QED BY <2>1, <2>2, <1>1, StoreManualUpdates
<1>10. CASE EvalSquare(a, r)
  <2>1. /\ ct' = [ct EXCEPT ![r] = EvalMultCore(c, c)] /\ sent' = sent
        /\ WithinDepth(EvalMultCore(c, c))
    BY <1>5, <1>10 DEF EvalSquare, StoreProduct, ProductOf, Twice
  <2>2. GoodManual(EvalMultCore(c, c))
    BY <2>1, <1>1, ManualSquare
  <2> QED BY <2>1, <2>2, StoreManualUpdate
<1>11. CASE EvalMultPlaintext(a, r)
  <2>1. PICK pt \in Plaintexts :
            /\ WithinDepth(pt) /\ WithinDepth(EvalMultCore(P(pt)[1], P(pt)[2]))
            /\ ct' = [ct EXCEPT ![r] = EvalMultCore(P(pt)[1], P(pt)[2])]
    BY <1>4, <1>11 DEF EvalMultPlaintext, StoreProduct, ProductOf
  <2>2. sent' = sent
    BY <1>11 DEF EvalMultPlaintext
  <2> QED BY <2>1, <2>2, <1>3, StoreManualUpdate
<1>12. CASE EvalMultMutablePlaintext(a, r)
  <2>1. PICK pt \in Plaintexts :
            /\ WithinDepth(pt) /\ WithinDepth(EvalMultCore(P(pt)[1], P(pt)[2]))
            /\ ct' = [ct EXCEPT ![a] = P(pt)[1], ![r] = EvalMultCore(P(pt)[1], P(pt)[2])]
    BY <1>4, <1>12 DEF EvalMultMutablePlaintext, StoreProductAndFirst, ProductOf
  <2>2. sent' = sent
    BY <1>12 DEF EvalMultMutablePlaintext
  <2> QED BY <2>1, <2>2, <1>3, StoreManualUpdates
<1>13. CASE EvalMultConst(a, r)
  <2> DEFINE z == [EvalMultCoreConst(c, 0) EXCEPT !.depth = @ + 1]
  <2>1. ct' = [ct EXCEPT ![r] = z] /\ sent' = sent /\ WithinDepth(z)
    BY <1>5, <1>13 DEF EvalMultConst
  <2>2. GoodManual(z)
    BY <2>1, <1>1, ManualMultConst
  <2> HIDE DEF z
  <2> QED BY <2>1, <2>2, StoreManualUpdate, ZenonT(60)
<1> QED BY <1>6, <1>7, <1>8, <1>9, <1>10, <1>11, <1>12, <1>13 DEF UnaryCall

\* With manual rescaling, and one object possibly passed twice to a mutable
\* product, every ciphertext of every program has the scale of its degree.
THEOREM ManualInvariant ==
    ASSUME Manual
    PROVE  Spec => []IInvManual
<1>1. Init => IInvManual
  BY DEF Init, IInvManual, StoreManual
<1>2. IInvManual /\ [Next]_vars => IInvManual'
  <2> SUFFICES ASSUME IInvManual, [Next]_vars PROVE IInvManual'
    OBVIOUS
  <2>1. ASSUME NEW r \in Regs, Encrypt(r) PROVE IInvManual'
    <3>1. PICK pt \in Plaintexts : WithinDepth(pt) /\ ct' = [ct EXCEPT ![r] = pt]
      BY <2>1 DEF Encrypt
    <3>2. GoodManual(pt)
      BY <3>1, ManualPlaintext
    <3>3. StoreManual(ct')
      BY <3>1, <3>2, StoreManualUpdate DEF IInvManual
    <3> QED BY <3>3, <2>1, SMTT(60) DEF IInvManual, Encrypt
  <2>2. ASSUME NEW a \in Regs, NEW b \in Regs, NEW r \in Regs, BinaryCall(a, b, r)
        PROVE  IInvManual'
    BY <2>2, ManualBinaryCall DEF IInvManual
  <2>3. ASSUME NEW a \in Regs, NEW r \in Regs, UnaryCall(a, r) PROVE IInvManual'
    BY <2>3, ManualUnaryCall, SMTT(60) DEF IInvManual
  <2>4. ASSUME NEW a \in Regs, NEW r \in Regs, NEW n \in 1 .. SizeQ, ModReduce(a, r, n)
        PROVE  IInvManual'
    <3> DEFINE x == ModReduceInternalInPlace(ct[a], n)
    <3>1. ct' = [ct EXCEPT ![r] = x] /\ sent' = sent /\ ct[a] # Null /\ n < ct[a].deg
      BY <2>4, SMTT(60) DEF ModReduce, Holds
    <3>2. GoodManual(ct[a]) /\ n \in Nat
      BY <3>1, ManualTypes, SMTT(60) DEF IInvManual, StoreManual
    <3>3. GoodManual(x)
      BY <3>1, <3>2, ManualModReduce, SMTT(60)
    <3> HIDE DEF x
    <3>4. StoreManual(ct')
      BY <3>1, <3>3, StoreManualUpdate DEF IInvManual
    <3> QED BY <3>1, <3>4, SMTT(60) DEF IInvManual
  <2>5. ASSUME NEW a \in Regs, NEW r \in Regs, NEW n \in 1 .. SizeQ, LevelReduce(a, r, n)
        PROVE  IInvManual'
    <3> DEFINE x == LevelReduceInternalInPlace(ct[a], n)
    <3>1. /\ ct' = [ct EXCEPT ![r] = x] /\ sent' = sent /\ ct[a] # Null
          /\ n < ct[a].towers /\ WithinDepth(x)
      BY <2>5 DEF LevelReduce, Holds
    <3>2. GoodManual(ct[a]) /\ n \in Nat
      BY <3>1, ManualTypes DEF IInvManual, StoreManual
    <3>3. /\ x.level = ct[a].level + n /\ x.deg = ct[a].deg
          /\ ct[a].deg <= ct[a].towers - n => GoodManual(x)
      BY <3>1, <3>2, ManualLevelReduce
    <3> HIDE DEF x
    <3>4. (ct[a].level + n) + ct[a].deg <= SizeQ
      BY <3>1, <3>3 DEF WithinDepth
    <3>5. ct[a].deg <= ct[a].towers - n
      <4>1. /\ ct[a].level \in Nat /\ ct[a].towers \in Nat /\ ct[a].deg \in Nat /\ SizeQ \in Nat
            /\ ct[a].level + ct[a].towers = SizeQ
        BY <3>2, GoodManualFacts, SMTT(60)
      <4> QED BY <4>1, <3>2, <3>4, SMTT(60)
    <3>6. StoreManual(ct')
      BY <3>1, <3>3, <3>5, StoreManualUpdate DEF IInvManual
    <3> QED BY <3>1, <3>6 DEF IInvManual
  <2>6. ASSUME NEW a \in Regs, NEW n \in 1 .. SizeQ, Compress(a, n) PROVE IInvManual'
    <3> DEFINE x == ModReduceInternalInPlace(ct[a], Max2(ct[a].deg - 1, 0))
               z == IF n < x.towers THEN LevelReduceInternalInPlace(x, x.towers - n) ELSE x
    <3>1. sent' = z /\ ct' = ct /\ ct[a] # Null
      BY <2>6 DEF Compress, Holds
    <3>2. GoodManual(ct[a])
      BY <3>1 DEF IInvManual, StoreManual
    <3>3. GoodManualSent(z)
      BY <3>2, ManualCompress
    <3> HIDE DEF z
    <3> QED BY <3>1, <3>3 DEF IInvManual, GoodManualSent
  <2>7. CASE UNCHANGED vars
    BY <2>7, SMTT(60) DEF IInvManual, vars
  <2> QED BY <2>1, <2>2, <2>3, <2>4, <2>5, <2>6, <2>7 DEF Next
<1> QED BY <1>1, <1>2, PTL DEF Spec

\* The scale that Decode derives from the degree and the number of towers is
\* the one the message has, and sums, rescalings and compression are sound.
LEMMA ManualProperties ==
    ASSUME Manual, IInvManual
    PROVE  /\ TypeOK /\ DecodesAtTrueScale
           /\ NoFault /\ RescaleHeadroom /\ SentDecodes
<1>1. TypeOK
  BY DEF IInvManual, StoreManual, TypeOK
<1>2. SentDecodes
  <2>1. SUFFICES ASSUME sent # Null
                 PROVE  /\ sent.fault = {} /\ sent.deg = 1 /\ sent.towers >= 1
                        /\ sent.scale = DecodeScale(sent)
    BY DEF SentDecodes
  <2>2. GoodManualSent(sent)
    BY <2>1 DEF IInvManual
  <2>3. sent.deg * ApproxSF = ApproxSF
    BY <2>2, TableAssumption, SMTT(60) DEF GoodManualSent
  <2> QED BY <2>2, <2>3, ManualTypes, SMTT(60) DEF GoodManualSent, DecodeScale
<1>3. ASSUME NEW r \in Regs, Holds(r)
      PROVE  /\ ct[r].level + ct[r].towers = SizeQ
             /\ ct[r].scale = DecodeScale(ct[r])
             /\ ct[r].fault = {}
             /\ ct[r].deg >= 1 /\ ct[r].deg <= ct[r].towers
  <2>1. GoodManual(ct[r])
    BY <1>3, SMTT(60) DEF IInvManual, StoreManual, Holds
  <2>2. /\ ct[r].deg \in Nat /\ ct[r].deg >= 1 /\ ct[r].deg <= ct[r].towers
        /\ ct[r].towers \in Nat /\ ct[r].scale = Scaled(ct[r].deg)
    BY <2>1, GoodManualFacts, SMTT(60)
  <2>3. CASE ct[r].towers = 1
    <3>1. ct[r].deg = 1
      BY <2>2, <2>3, SMTT(60)
    <3> QED BY <3>1, <2>1, <2>2, <2>3, ManualTypes, ScaledSums, ZenonT(60) DEF DecodeScale, GoodManual
  <2>4. CASE ct[r].towers # 1
    BY <2>1, <2>2, <2>4, ManualTypes DEF DecodeScale, Scaled, GoodManual
  <2> QED BY <2>3, <2>4, SMTT(60)
<1> QED
  BY <1>1, <1>2, <1>3, SMTT(60) DEF DecodesAtTrueScale, NoFault, RescaleHeadroom

\* With manual rescaling a program that keeps a tower for every pending
\* rescaling, and adds equal degrees, decodes every ciphertext at the scale it
\* has; a ciphertext of one tower, which another branch of Decode treats, has
\* degree 1.  This also covers aliased operands.
THEOREM ManualDecodes ==
    ASSUME Manual
    PROVE  Spec => [](DecodesAtTrueScale /\ SentDecodes)
<1>1. IInvManual => DecodesAtTrueScale /\ SentDecodes
  BY ManualProperties
<1> QED BY <1>1, ManualInvariant, PTL

\* Such a program never combines unequal moduli or scales, never runs out of
\* towers, and can rescale every ciphertext to degree 1.
THEOREM ManualNoFault ==
    ASSUME Manual
    PROVE  Spec => [](TypeOK /\ NoFault /\ RescaleHeadroom)
<1>1. IInvManual => TypeOK /\ NoFault /\ RescaleHeadroom
  BY ManualProperties
<1> QED BY <1>1, ManualInvariant, PTL

==============================================================================
