------------------------ MODULE BGVLeveledSHE_proofs ------------------------
(***************************************************************************)
(* For every plaintext modulus, number of primes, residues of the primes   *)
(* and set of variables, and for each of the four scaling techniques: the  *)
(* recorded factor is the factor the message is multiplied by, sums meet   *)
(* at one factor and no call runs out of towers.                           *)
(***************************************************************************)
EXTENDS BGVLeveledSHE, TLAPS, WellFoundedInduction, NaturalsInduction

\* The invertible residues.
Units == 1 .. (T - 1)

-----------------------------------------------------------------------------
(* Residues modulo the prime T.                                            *)

\* A set of naturals that has a member has a least one.
LEMMA LeastNat ==
    ASSUME NEW S, S \subseteq Nat, S # {}
    PROVE  \E x \in S : \A y \in S : x <= y
<1>1. PICK x \in S : \A y \in S : ~(<<y, x>> \in OpToRel(<, Nat))
  BY NatLessThanWellFounded, WFMin, Zenon
<1>2. \A y \in S : ~(y < x)
  BY <1>1, Zenon DEF OpToRel
<1> QED BY <1>2

\* Division with remainder, and its uniqueness.
LEMMA Remainder ==
    ASSUME NEW a \in Int
    PROVE  /\ a % T \in Residues
           /\ a \div T \in Int
           /\ a = T * (a \div T) + (a % T)
BY ModulusAssumption DEF Residues

LEMMA RemainderUnique ==
    ASSUME NEW a \in Int, NEW q \in Int, NEW r \in Residues, a = T * q + r
    PROVE  a % T = r
<1> DEFINE p == a \div T
           s == a % T
<1>1. p \in Int /\ s \in 0 .. (T - 1) /\ a = T * p + s /\ T \in Nat /\ r \in 0 .. (T - 1)
  BY Remainder, ModulusAssumption, Zenon DEF Residues
<1> SUFFICES s = r
  BY Zenon
<1> HIDE DEF p, s
<1>2. CASE p < q
  <2>1. q = p + 1 + (q - p - 1) /\ q - p - 1 \in Nat
    BY <1>1, <1>2
  <2>2. T * q = T * p + T + T * (q - p - 1) /\ T * (q - p - 1) >= 0
    BY <1>1, <2>1
  <2> QED BY <1>1, <2>2
<1>3. CASE q < p
  <2>1. p = q + 1 + (p - q - 1) /\ p - q - 1 \in Nat
    BY <1>1, <1>3
  <2>2. T * p = T * q + T + T * (p - q - 1) /\ T * (p - q - 1) >= 0
    BY <1>1, <2>1
  <2> QED BY <1>1, <2>2
<1>4. CASE p = q
  BY <1>1, <1>4
<1> QED BY <1>1, <1>2, <1>3, <1>4

\* A factor may be reduced before it is multiplied.
LEMMA MulReduce ==
    ASSUME NEW a \in Int, NEW b \in Int
    PROVE  ((a % T) * b) % T = (a * b) % T
<1> DEFINE p == a \div T
           s == a % T
           q == (s * b) \div T
           r == (s * b) % T
<1>1. p \in Int /\ s \in Int /\ a = T * p + s /\ T \in Int
  BY Remainder, ModulusAssumption DEF Residues
<1>2. s * b \in Int
  BY <1>1
<1>3. q \in Int /\ r \in Residues /\ s * b = T * q + r
  BY <1>2, Remainder, Zenon
<1> HIDE DEF p, s, q, r
<1>4. r \in Int
  BY <1>3, ModulusAssumption DEF Residues
<1>5. a * b = (T * p) * b + s * b
  BY <1>1
<1>6. (T * p) * b = T * (p * b) /\ p * b \in Int
  BY <1>1
<1>7. T * (p * b) + T * q = T * (p * b + q) /\ p * b + q \in Int
  BY <1>1, <1>3, <1>6
<1>8. a * b = T * (p * b + q) + r
  <2>1. T * (p * b) \in Int /\ T * q \in Int
    BY <1>1, <1>3, <1>6
  <2> QED BY <1>3, <1>4, <1>5, <1>6, <1>7, <2>1
<1>9. (a * b) % T = r
  <2>1. a * b \in Int
    OBVIOUS
  <2> QED BY <2>1, <1>3, <1>7, <1>8, RemainderUnique, Zenon
<1> QED BY <1>9, Zenon DEF r, s

LEMMA MulType ==
    ASSUME NEW x \in Int, NEW y \in Int
    PROVE  ModMul(x, y) \in Residues /\ ModMul(x, y) \in Int
<1>1. x * y \in Int
  OBVIOUS
<1> QED BY <1>1, Remainder, ModulusAssumption DEF ModMul, Residues

LEMMA MulComm ==
    ASSUME NEW x \in Int, NEW y \in Int
    PROVE  ModMul(x, y) = ModMul(y, x)
<1>1. x * y = y * x
  OBVIOUS
<1> QED BY <1>1, Zenon DEF ModMul

LEMMA MulAssoc ==
    ASSUME NEW x \in Int, NEW y \in Int, NEW z \in Int
    PROVE  ModMul(ModMul(x, y), z) = ModMul(x, ModMul(y, z))
<1>1. ModMul(ModMul(x, y), z) = ((x * y) * z) % T
  <2>1. x * y \in Int
    OBVIOUS
  <2> QED BY <2>1, MulReduce, Zenon DEF ModMul
<1>2. ModMul(ModMul(y, z), x) = ((y * z) * x) % T
  <2>1. y * z \in Int
    OBVIOUS
  <2> QED BY <2>1, MulReduce, Zenon DEF ModMul
<1>3. ModMul(x, ModMul(y, z)) = ModMul(ModMul(y, z), x)
  BY MulType, MulComm, Zenon
<1>4. (x * y) * z = (y * z) * x
  OBVIOUS
<1> QED BY <1>1, <1>2, <1>3, <1>4, Zenon

LEMMA MulOne ==
    ASSUME NEW x \in Residues
    PROVE  ModMul(x, 1) = x /\ ModMul(1, x) = x /\ ModMul(x, 0) = 0
<1>1. x \in Int /\ T \in Int /\ 0 \in Residues /\ 0 \in Int
  BY ModulusAssumption DEF Residues
<1>2. x * 1 = T * 0 + x /\ 1 * x = T * 0 + x /\ x * 0 = T * 0 + 0
  BY <1>1
<1>3. x * 1 \in Int /\ 1 * x \in Int /\ x * 0 \in Int
  BY <1>1
<1> QED BY <1>1, <1>2, <1>3, RemainderUnique, Zenon DEF ModMul

\* The least residue that a multiple of x has divides T, so it is 1.
LEMMA MultipleOne ==
    ASSUME NEW x \in Units
    PROVE  \E y \in Int : (x * y) % T = 1
<1> DEFINE S == {r \in Units : \E y \in Int : (x * y) % T = r}
<1>1. x \in Int /\ T \in Int /\ T > 2 /\ S \subseteq Nat
  BY ModulusAssumption DEF Units
<1>2. x \in S
  <2>1. x * 1 = x
    BY <1>1
  <2>2. ModMul(x, 1) = x
    BY MulOne, ModulusAssumption DEF Units, Residues
  <2> QED BY <2>2 DEF ModMul
<1>3. PICK d \in S : \A e \in S : d <= e
  BY <1>1, <1>2, LeastNat, Zenon
<1>4. PICK y \in Int : (x * y) % T = d
  BY <1>3, Zenon
<1>5. d \in Int /\ d >= 1 /\ d <= T - 1
  BY <1>1 DEF Units
<1>6. d = 1
  <2> SUFFICES ASSUME d >= 2 PROVE FALSE
    BY <1>5
  <2> DEFINE k == T \div d
             s == T % d
             a == (x * y) \div T
  <2>1. k \in Int /\ s \in Int /\ T = d * k + s /\ s >= 0 /\ s < d
    BY <1>1, <1>5
  <2>2. s # 0
    BY <1>5, ModulusAssumption
  <2>3. x * y \in Int
    BY <1>1
  <2>4. a \in Int /\ x * y = T * a + d
    BY <2>3, <1>4, Remainder, Zenon
  <2> HIDE DEF k, s, a
  <2> DEFINE z == -(k * y)
  <2>5. z \in Int /\ x * z = -(k * (x * y)) /\ x * z \in Int
    BY <1>1, <2>1
  <2>6. k * (x * y) = k * (T * a) + k * d
    BY <1>1, <1>5, <2>1, <2>4
  <2>7. k * (T * a) = T * (k * a) /\ k * d = T - s /\ k * a \in Int
    BY <1>1, <1>5, <2>1, <2>4
  <2>8. T * (-(k * a) - 1) = -(T * (k * a)) - T /\ -(k * a) - 1 \in Int /\ T * (k * a) \in Int
    BY <1>1, <2>7
  <2> HIDE DEF z
  <2>9. x * z = T * (-(k * a) - 1) + s
    <3> DEFINE w == T * (k * a)
    <3>1. w \in Int /\ T * (-(k * a) - 1) = -w - T
      BY <2>8, Zenon
    <3>2. x * z = -(w + (T - s))
      BY <2>5, <2>6, <2>7, Zenon
    <3> HIDE DEF w
    <3> QED BY <3>1, <3>2, <1>1, <2>1
  <2>10. s \in Residues /\ s \in Units
    BY <1>1, <1>5, <2>1, <2>2 DEF Residues, Units
  <2>11. (x * z) % T = s
    BY <2>5, <2>8, <2>9, <2>10, RemainderUnique, Zenon
  <2>12. s \in S
    BY <2>5, <2>10, <2>11, Zenon
  <2> QED BY <2>1, <2>12, <1>3, <1>5
<1> QED BY <1>4, <1>6, Zenon

LEMMA InverseFacts ==
    ASSUME NEW x \in Units
    PROVE  ModInverse(x) \in Units /\ ModMul(x, ModInverse(x)) = 1
<1>1. PICK y \in Int : (x * y) % T = 1
  BY MultipleOne, Zenon
<1>2. x \in Int /\ x # 0 /\ x \in Residues
  BY ModulusAssumption DEF Units, Residues
<1>3. y % T \in Residues /\ y % T \in Int
  BY Remainder, ModulusAssumption DEF Residues
<1>4. ModMul(x, y % T) = 1
  <2>1. x * y = y * x
    BY <1>2
  <2> QED BY <2>1, <1>1, <1>2, <1>3, MulReduce, MulComm DEF ModMul
<1>5. y % T \in Units
  <2>1. y % T # 0
    BY <1>2, <1>4, MulOne, Zenon
  <2> QED BY <2>1, <1>3, ModulusAssumption DEF Residues, Units
<1> QED BY <1>2, <1>4, <1>5, Zenon DEF ModInverse, Units

\* The units are a group.
LEMMA UnitsGroup ==
    ASSUME NEW x \in Units, NEW y \in Units
    PROVE  /\ x \in Int /\ x \in Residues /\ x # 0
           /\ ModMul(x, y) \in Units
           /\ ModDiv(x, y) \in Units
           /\ ModMul(y, ModDiv(x, y)) = x
           /\ ModDiv(ModMul(x, y), y) = x
           /\ 1 \in Units /\ ModDiv(x, 1) = x
<1>1. /\ \A u \in Units : u \in Int /\ u \in Residues /\ u # 0
      /\ \A r \in Residues : r # 0 => r \in Units
      /\ 1 \in Units
  BY ModulusAssumption DEF Units, Residues
<1>2. ASSUME NEW u \in Units, NEW v \in Units
      PROVE  ModMul(u, v) \in Units
  <2> DEFINE i == ModInverse(u)
  <2>1. i \in Units /\ ModMul(u, i) = 1
    BY InverseFacts, Zenon
  <2> HIDE DEF i
  <2>2. ModMul(i, ModMul(u, v)) = v
    BY <1>1, <2>1, MulAssoc, MulComm, MulOne
  <2>3. ModMul(u, v) # 0
    BY <1>1, <2>1, <2>2, MulOne, Zenon
  <2> QED BY <1>1, <2>3, MulType, Zenon
<1> DEFINE j == ModInverse(y)
<1>3. j \in Units /\ ModMul(y, j) = 1
  BY InverseFacts, Zenon
<1>4. ModDiv(x, y) = ModMul(x, j)
  BY Zenon DEF ModDiv
<1> HIDE DEF j
<1>5. ModMul(y, ModMul(x, j)) = x
  <2>1. ModMul(x, j) = ModMul(j, x)
    BY <1>1, <1>3, MulComm, Zenon
  <2>2. ModMul(y, ModMul(j, x)) = ModMul(ModMul(y, j), x)
    BY <1>1, <1>3, MulAssoc
  <2> QED BY <2>1, <2>2, <1>1, <1>3, MulOne, Zenon
<1>6. ModDiv(ModMul(x, y), y) = x
  <2>1. ModMul(ModMul(x, y), j) = ModMul(x, ModMul(y, j))
    BY <1>1, <1>3, MulAssoc, ZenonT(60)
  <2> QED BY <2>1, <1>1, <1>3, MulOne, Zenon DEF ModDiv, j
<1>7. ModDiv(x, 1) = x
  <2>1. ModInverse(1) \in Units /\ ModMul(1, ModInverse(1)) = 1
    BY <1>1, InverseFacts, Zenon
  <2>2. ModInverse(1) = 1
    BY <2>1, <1>1, MulOne, Zenon
  <2> QED BY <2>2, <1>1, MulOne, Zenon DEF ModDiv
<1> QED BY <1>1, <1>2, <1>3, <1>4, <1>5, <1>6, <1>7, Zenon

-----------------------------------------------------------------------------
(* The table of factors.                                                   *)

\* Entry k of m_scalingFactorsInt, from the entries before it.
FactorStep(f, k) ==
    IF k = 0 THEN QModt[SizeQ - 1]
    ELSE IF Ext /\ k = 1 THEN QModt[SizeQ - 2]
    ELSE IF k >= SizeQ - ExtraPrime THEN 0
    ELSE ModDiv(ModMul(f[k - 1], f[k - 1]), QModt[SizeQ - k])

\* The recursion has a solution: one for the first n entries gives one for
\* the first n + 1.
LEMMA TableExists ==
    ASSUME NEW m \in Nat
    PROVE  \E f : f = [k \in 0 .. m |-> FactorStep(f, k)]
<1> DEFINE Bad == {n \in Nat : ~\E f : f = [k \in 0 .. n |-> FactorStep(f, k)]}
<1> SUFFICES ASSUME Bad # {} PROVE FALSE
  BY Zenon
<1>1. PICK n \in Bad : \A i \in Bad : n <= i
  BY LeastNat, Zenon
<1>2. CASE n = 0
  <2> DEFINE f == [k \in 0 .. n |-> QModt[SizeQ - 1]]
  <2>1. f = [k \in 0 .. n |-> FactorStep(f, k)]
    BY <1>2 DEF FactorStep
  <2> QED BY <2>1, <1>1, Zenon
<1>3. CASE n # 0
  <2>1. n - 1 \in Nat /\ n - 1 \notin Bad
    BY <1>1, <1>3
  <2>2. PICK g : g = [k \in 0 .. (n - 1) |-> FactorStep(g, k)]
    BY <2>1, Zenon
  <2> DEFINE f == [k \in 0 .. n |-> FactorStep(g, k)]
  <2>3. \A k \in 0 .. (n - 1) : f[k] = g[k]
    <3>1. \A k \in 0 .. (n - 1) : k \in 0 .. n /\ g[k] = FactorStep(g, k)
      BY <2>1, <2>2, SMTT(60)
    <3> QED BY <3>1, Zenon
  <2>4. \A k \in 0 .. n : k # 0 => k - 1 \in 0 .. (n - 1)
    BY <1>1
  <2>5. \A k \in 0 .. n : FactorStep(f, k) = FactorStep(g, k)
    <3> HIDE DEF f
    <3> QED BY <2>3, <2>4, Zenon DEF FactorStep
  <2>6. f = [k \in 0 .. n |-> FactorStep(f, k)]
    BY <2>5, Zenon
  <2> QED BY <2>6, <1>1, Zenon
<1> QED BY <1>2, <1>3, Zenon

LEMMA TableIs ==
    ScalingFactorsInt = [k \in 0 .. (SizeQ - 1) |-> FactorStep(ScalingFactorsInt, k)]
<1>1. SizeQ - 1 \in Nat
  BY SizeAssumption DEF ExtraPrime
<1>2. \E f : f = [k \in 0 .. (SizeQ - 1) |-> FactorStep(f, k)]
  BY <1>1, TableExists, Zenon
<1>3. ScalingFactorsInt = CHOOSE f : f = [k \in 0 .. (SizeQ - 1) |-> FactorStep(f, k)]
  BY Zenon DEF ScalingFactorsInt, FactorStep
<1> QED BY <1>2, <1>3, Zenon

LEMMA Sizes ==
    /\ SizeQ \in Nat /\ SizeQ >= 2 /\ MultDepth \in Nat /\ MultDepth >= 1
    /\ ExtraPrime \in {0, 1} /\ SizeQ = MultDepth + 1 + ExtraPrime
    /\ Ext => SizeQ >= 3 /\ Flexible /\ ExtraPrime = 1
    /\ ~Ext => ExtraPrime = 0
    /\ Flexible => ~Manual
BY SizeAssumption DEF ExtraPrime, Ext, Flexible, Manual

LEMMA PrimesUnits ==
    ASSUME NEW i \in 0 .. (SizeQ - 1)
    PROVE  QModt[i] \in Units
BY PrimesAssumption, Zenon DEF Units

\* Every entry that a ciphertext of the declared depth can meet is invertible.
LEMMA FactorsUnits ==
    ASSUME NEW k \in 0 .. MultDepth
    PROVE  ScalingFactorsInt[k] \in Units
<1> DEFINE SF == ScalingFactorsInt
           Bad == {i \in 0 .. MultDepth : SF[i] \notin Units}
<1>1. \A i \in 0 .. MultDepth : i \in 0 .. (SizeQ - 1) /\ SF[i] = FactorStep(SF, i)
  BY TableIs, Sizes, SMTT(60)
<1> HIDE DEF SF
<1> SUFFICES ASSUME Bad # {} PROVE FALSE
  BY Zenon DEF SF
<1>2. Bad \subseteq Nat
  BY Sizes
<1>3. PICK n \in Bad : \A i \in Bad : n <= i
  BY <1>2, LeastNat, Zenon
<1>4. n \in Nat /\ n <= MultDepth /\ SF[n] = FactorStep(SF, n)
  BY <1>1, <1>3, Sizes
<1>5. CASE n = 0 \/ (Ext /\ n = 1)
  <2>1. SizeQ - 1 \in 0 .. (SizeQ - 1) /\ SizeQ - 2 \in 0 .. (SizeQ - 1)
    BY Sizes
  <2> QED BY <2>1, <1>3, <1>4, <1>5, PrimesUnits, Zenon DEF FactorStep
<1>6. CASE n # 0 /\ ~(Ext /\ n = 1)
  <2>1. n - 1 \in 0 .. MultDepth /\ SizeQ - n \in 0 .. (SizeQ - 1) /\ ~(n >= SizeQ - ExtraPrime)
    BY <1>4, <1>6, Sizes
  <2>2. SF[n - 1] \in Units
    <3>1. ~(n <= n - 1)
      BY <1>4
    <3> QED BY <2>1, <3>1, <1>3, Zenon
  <2>3. SF[n] = ModDiv(ModMul(SF[n - 1], SF[n - 1]), QModt[SizeQ - n])
    BY <1>4, <1>6, <2>1, Zenon DEF FactorStep
  <2> QED BY <1>3, <2>1, <2>2, <2>3, PrimesUnits, UnitsGroup
<1> QED BY <1>5, <1>6, Zenon

-----------------------------------------------------------------------------
(* Products over towers.                                                   *)

ProductStep(f, first, g, i) == IF i < first THEN 1 ELSE ModMul(g[i - 1], f[i])

\* g holds the partial products.
Partial(g, f, first, last) == g = [i \in (first - 1) .. last |-> ProductStep(f, first, g, i)]

LEMMA ProductExists ==
    ASSUME NEW f, NEW first \in Int, NEW m \in Nat
    PROVE  \E g : Partial(g, f, first, first - 1 + m)
<1> DEFINE Dom(n) == (first - 1) .. (first - 1 + n)
           Bad == {n \in Nat : ~\E g : g = [i \in Dom(n) |-> ProductStep(f, first, g, i)]}
<1> SUFFICES ASSUME Bad # {} PROVE FALSE
  BY Zenon DEF Partial
<1>1. PICK n \in Bad : \A i \in Bad : n <= i
  BY LeastNat, Zenon
<1>2. CASE n = 0
  <2> DEFINE g == [i \in Dom(0) |-> 1]
  <2>1. \A i \in Dom(0) : i < first
    OBVIOUS
  <2>2. g = [i \in Dom(0) |-> ProductStep(f, first, g, i)]
    BY <2>1, Zenon DEF ProductStep
  <2> QED BY <2>2, <1>1, <1>2, Zenon
<1>3. CASE n # 0
  <2>1. n - 1 \in Nat /\ n - 1 \notin Bad
    BY <1>1, <1>3
  <2>2. PICK h : h = [i \in Dom(n - 1) |-> ProductStep(f, first, h, i)]
    BY <2>1, Zenon
  <2> DEFINE g == [i \in Dom(n) |-> ProductStep(f, first, h, i)]
  <2>3. /\ \A i \in Dom(n - 1) : i \in Dom(n)
        /\ \A i \in Dom(n) : ~(i < first) => i - 1 \in Dom(n - 1)
    BY <1>1, <2>1
  <2> HIDE DEF Dom
  <2>4. \A i \in Dom(n - 1) : g[i] = h[i]
    BY <2>2, <2>3, Zenon
  <2>5. \A i \in Dom(n) : ProductStep(f, first, g, i) = ProductStep(f, first, h, i)
    <3> HIDE DEF g
    <3> QED BY <2>3, <2>4, Zenon DEF ProductStep
  <2>6. g = [i \in Dom(n) |-> ProductStep(f, first, g, i)]
    BY <2>5, Zenon
  <2> QED BY <2>6, <1>1, Zenon
<1> QED BY <1>2, <1>3, Zenon

\* Product is the last of the partial products.
LEMMA ProductIs ==
    ASSUME NEW f, NEW first \in Int, NEW last \in Int, last >= first - 1
    PROVE  \E g : Partial(g, f, first, last) /\ Product(f, first, last) = g[last]
<1> DEFINE m == last - first + 1
<1>1. first - 1 + m = last /\ m \in Nat
  OBVIOUS
<1> HIDE DEF m
<1>2. \E g : Partial(g, f, first, last)
  BY <1>1, ProductExists, Zenon
<1>3. Product(f, first, last) = (CHOOSE g : Partial(g, f, first, last))[last]
  BY Zenon DEF Product, Partial, ProductStep
<1> QED BY <1>2, <1>3, Zenon

\* A product of units is a unit, and a product of ones is one.
LEMMA ProductUnits ==
    ASSUME NEW f, NEW first \in Int, NEW last \in Int, last >= first - 1,
           NEW U \in {Units, {1}}, \A i \in first .. last : f[i] \in U
    PROVE  Product(f, first, last) \in U
<1>1. PICK g : Partial(g, f, first, last) /\ Product(f, first, last) = g[last]
  BY ProductIs, Zenon
<1>2. 1 \in U /\ \A x, y \in U : ModMul(x, y) \in U
  <2>1. 1 \in Units /\ 1 \in Residues
    BY ModulusAssumption DEF Units, Residues
  <2> QED BY <2>1, UnitsGroup, MulOne, Zenon
<1> DEFINE Bad == {n \in Nat : first - 1 + n <= last /\ g[first - 1 + n] \notin U}
<1>3. Bad = {}
  <2> SUFFICES ASSUME Bad # {} PROVE FALSE
    BY Zenon
  <2>1. PICK n \in Bad : \A i \in Bad : n <= i
    BY LeastNat, Zenon
  <2> DEFINE i == first - 1 + n
  <2>2. i \in (first - 1) .. last /\ i \in Int
    BY <2>1
  <2>3. g[i] = ProductStep(f, first, g, i)
    BY <1>1, <2>2, Zenon DEF Partial
  <2>4. CASE n = 0
    <3>1. i < first
      BY <2>4
    <3> QED BY <3>1, <2>1, <2>3, <1>2, Zenon DEF ProductStep
  <2>5. CASE n # 0
    <3>1. n - 1 \in Nat /\ first - 1 + (n - 1) = i - 1 /\ i - 1 <= last /\ ~(n <= n - 1)
          /\ ~(i < first) /\ i \in first .. last
      BY <2>1, <2>2, <2>5
    <3>2. g[i - 1] \in U
      BY <3>1, <2>1, Zenon
    <3> HIDE DEF i
    <3>3. g[i] \in U
      BY <3>1, <3>2, <2>3, <1>2, Zenon DEF ProductStep
    <3> QED BY <3>3, <2>1, Zenon DEF i
  <2> QED BY <2>4, <2>5, Zenon
<1> DEFINE m == last - first + 1
<1>4. first - 1 + m = last /\ m \in Nat /\ first - 1 + m <= last
  OBVIOUS
<1> HIDE DEF m
<1> QED BY <1>1, <1>3, <1>4, Zenon

LEMMA ProductShort ==
    ASSUME NEW f, NEW first \in Int
    PROVE  /\ Product(f, first, first - 1) = 1
           /\ f[first] \in Units => Product(f, first, first) = f[first]
<1>1. Product(f, first, first - 1) = 1
  <2>1. first - 1 \in Int /\ first - 1 >= first - 1
    OBVIOUS
  <2>2. PICK g : Partial(g, f, first, first - 1) /\ Product(f, first, first - 1) = g[first - 1]
    BY <2>1, ProductIs, Zenon
  <2>3. first - 1 \in (first - 1) .. (first - 1) /\ first - 1 < first
    OBVIOUS
  <2> QED BY <2>2, <2>3, Zenon DEF Partial, ProductStep
<1>2. ASSUME f[first] \in Units
      PROVE  Product(f, first, first) = f[first]
  <2>1. PICK g : Partial(g, f, first, first) /\ Product(f, first, first) = g[first]
    BY ProductIs
  <2>2. /\ first - 1 \in (first - 1) .. first /\ first - 1 < first
        /\ first \in (first - 1) .. first /\ ~(first < first)
    OBVIOUS
  <2>3. g[first - 1] = 1 /\ g[first] = ModMul(g[first - 1], f[first])
    BY <2>1, <2>2, Zenon DEF Partial, ProductStep
  <2>4. f[first] \in Residues
    BY <1>2, UnitsGroup, Zenon
  <2> QED BY <2>1, <2>3, <2>4, MulOne, Zenon
<1> QED BY <1>1, <1>2, Zenon

-----------------------------------------------------------------------------
(* Factors of a level.                                                     *)

\* The one factor a ciphertext of level l and degree d may have.
Canon(l, d) == IF d = 1 THEN GetScalingFactorInt(l) ELSE GetScalingFactorIntBig(l)

\* What is recorded for a dropped prime is the residue of the prime.
LEMMA FactorsArePrimes ==
    /\ ModReduceFactorsInt = QModt
    /\ \A i \in 0 .. (SizeQ - 1) : GetModReduceFactorInt(i) = QModt[i]
<1>1. \A i \in 0 .. (SizeQ - 1) : GetModReduceFactorInt(i) = QModt[i]
  BY PrimesAssumption, Zenon DEF GetModReduceFactorInt
<1>2. ModReduceFactorsInt = [i \in 0 .. (SizeQ - 1) |-> QModt[i]]
  BY <1>1, Zenon DEF ModReduceFactorsInt
<1> QED BY <1>1, <1>2, PrimesAssumption, Zenon

LEMMA LevelFactors ==
    ASSUME NEW l \in 0 .. MultDepth
    PROVE  GetScalingFactorInt(l) \in Units /\ GetScalingFactorIntBig(l) \in Units
<1>1. 1 \in Units
  BY ModulusAssumption DEF Units
<1>2. l \in 0 .. MultDepth /\ 1 \in 0 .. MultDepth
  BY Sizes
<1>3. ScalingFactorsInt[l] \in Units /\ ScalingFactorsInt[1] \in Units
  BY <1>2, FactorsUnits, Zenon
<1> QED BY <1>1, <1>3, UnitsGroup, Zenon DEF GetScalingFactorInt, GetScalingFactorIntBig

\* One step of the recurrence: dropping the last prime of level l turns the
\* factor of degree 2 of level l into the factor of degree 1 of level l + 1.
LEMMA Recurrence ==
    ASSUME NEW l \in Nat, l + 1 <= MultDepth
    PROVE  /\ SizeQ - l - 1 \in 0 .. (SizeQ - 1)
           /\ ModDiv(GetScalingFactorIntBig(l), QModt[SizeQ - l - 1]) = GetScalingFactorInt(l + 1)
<1>1. /\ SizeQ - l - 1 \in 0 .. (SizeQ - 1) /\ l < SizeQ - 1 /\ l + 1 < SizeQ
      /\ l \in 0 .. MultDepth /\ l + 1 \in 0 .. (SizeQ - 1) /\ 0 \in 0 .. (SizeQ - 1)
      /\ 1 \in 0 .. (SizeQ - 1) /\ SizeQ - 2 \in 0 .. (SizeQ - 1) /\ SizeQ - 1 \in 0 .. (SizeQ - 1)
  BY Sizes
<1>2. 1 \in Units
  BY ModulusAssumption DEF Units
<1>3. CASE ~Flexible
  BY <1>1, <1>2, <1>3, PrimesAssumption, UnitsGroup, Zenon DEF GetScalingFactorInt, GetScalingFactorIntBig
<1>4. CASE Flexible
  <2> DEFINE SF == ScalingFactorsInt
  <2>1. \A i \in 0 .. (SizeQ - 1) : SF[i] = FactorStep(SF, i)
    BY TableIs, Zenon
  <2>2. GetScalingFactorInt(l + 1) = SF[l + 1]
        /\ GetScalingFactorIntBig(l) = ModMul(SF[l], SF[IF Ext /\ l = 0 THEN 1 ELSE l])
    BY <1>1, <1>4, Zenon DEF GetScalingFactorInt, GetScalingFactorIntBig
  <2> HIDE DEF SF
  <2>3. CASE Ext /\ l = 0
    <3>1. SF[0] = QModt[SizeQ - 1] /\ SF[1] = QModt[SizeQ - 2]
      BY <1>1, <2>1, <2>3, Zenon DEF FactorStep
    <3>2. QModt[SizeQ - 1] \in Units /\ QModt[SizeQ - 2] \in Units
      BY <1>1, PrimesUnits, Zenon
    <3>3. GetScalingFactorIntBig(l) = ModMul(QModt[SizeQ - 2], QModt[SizeQ - 1])
      <4>1. QModt[SizeQ - 1] \in Int /\ QModt[SizeQ - 2] \in Int
        BY <3>2, UnitsGroup, Zenon
      <4> QED BY <2>2, <2>3, <3>1, <4>1, MulComm, Zenon
    <3>4. SizeQ - l - 1 = SizeQ - 1 /\ l + 1 = 1
      BY <2>3, Sizes
    <3> QED BY <1>1, <2>2, <3>1, <3>2, <3>3, <3>4, UnitsGroup
  <2>4. CASE ~(Ext /\ l = 0)
    <3>1. l + 1 # 0 /\ ~(Ext /\ l + 1 = 1) /\ ~(l + 1 >= SizeQ - ExtraPrime)
          /\ (l + 1) - 1 = l /\ SizeQ - (l + 1) = SizeQ - l - 1
      BY <2>4, Sizes
    <3>2. SF[l + 1] = ModDiv(ModMul(SF[l], SF[l]), QModt[SizeQ - l - 1])
      BY <1>1, <2>1, <3>1, Zenon DEF FactorStep
    <3> QED BY <1>1, <2>2, <2>4, <3>2, Zenon
  <2> QED BY <2>3, <2>4, Zenon
<1> QED BY <1>1, <1>3, <1>4, Zenon

\* The square of a level's factor is what a degree-2 ciphertext of it has.
LEMMA SquareFactor ==
    ASSUME NEW l \in Nat, l + 1 < SizeQ, ~(Ext /\ l = 0)
    PROVE  ModMul(GetScalingFactorInt(l), GetScalingFactorInt(l)) = Canon(l, 2)
<1>1. l < SizeQ - 1 /\ l < SizeQ
  BY Sizes
<1>2. CASE Flexible
  BY <1>1, <1>2 DEF Canon, GetScalingFactorInt, GetScalingFactorIntBig
<1>3. CASE ~Flexible
  <2>1. 1 \in Residues
    BY ModulusAssumption DEF Residues
  <2> QED BY <1>3, <2>1, MulOne, Zenon DEF Canon, GetScalingFactorInt, GetScalingFactorIntBig
<1> QED BY <1>2, <1>3, Zenon

\* What AdjustLevelsAndDepthInPlace multiplies by before it rescales gives
\* the factor it aims at.
LEMMA AimedFactor ==
    ASSUME NEW x \in Units, NEW s \in Units, NEW q \in Units
    PROVE  /\ ModDiv(s, x) \in Units
           /\ ModMul(x, ModDiv(s, x)) = s
           /\ ModMul(ModDiv(s, x), q) \in Units
           /\ ModDiv(ModMul(x, ModMul(ModDiv(s, x), q)), q) = s
<1> DEFINE d == ModDiv(s, x)
<1>1. d \in Units /\ ModMul(x, d) = s
  BY UnitsGroup, Zenon
<1> HIDE DEF d
<1>2. ModMul(d, q) \in Units
  BY <1>1, UnitsGroup, Zenon
<1>3. x \in Int /\ d \in Int /\ q \in Int
  BY <1>1, UnitsGroup, Zenon
<1>4. ModMul(x, ModMul(d, q)) = ModMul(s, q)
  BY <1>1, <1>3, MulAssoc, Zenon
<1>5. ModDiv(ModMul(x, ModMul(d, q)), q) = s
  BY <1>4, UnitsGroup, Zenon
<1> QED BY <1>1, <1>2, <1>5, Zenon DEF d

-----------------------------------------------------------------------------
(* What the primitive operations do to each field.                         *)

\* Level and towers go together, and both factors are invertible.
Regular(c) ==
    /\ c \in Ciphertext
    /\ c.level + c.towers = SizeQ
    /\ c.sf \in Units /\ c.scale \in Units

LEMMA RegularFacts ==
    ASSUME NEW c, Regular(c)
    PROVE  /\ c.level \in Nat /\ c.towers \in Nat /\ c.deg \in Nat /\ c.depth \in Nat
           /\ c.level <= SizeQ /\ c.towers <= SizeQ
           /\ c.sf \in Residues /\ c.scale \in Residues
<1>1. c.level \in 0 .. SizeQ /\ c.towers \in 0 .. SizeQ /\ c.deg \in Nat /\ c.depth \in Nat
      /\ c.sf \in Residues /\ c.scale \in Residues
  BY Zenon DEF Regular, Ciphertext
<1> QED BY <1>1, Sizes

LEMMA ModReduceFields ==
    ASSUME NEW c, Regular(c), NEW n \in Nat, n < c.towers, n <= c.deg
    PROVE  LET x == ModReduceInternalInPlace(c, n)
               P == Product(QModt, c.towers - n, c.towers - 1)
           IN  /\ Regular(x) /\ P \in Units
               /\ x.level = c.level + n /\ x.towers = c.towers - n
               /\ x.deg = c.deg - n /\ x.depth = c.depth /\ x.fault = c.fault
               /\ x.sf = ModDiv(c.sf, P) /\ x.scale = ModDiv(c.scale, P)
<1> DEFINE x == ModReduceInternalInPlace(c, n)
           P == Product(QModt, c.towers - n, c.towers - 1)
<1>1. /\ c.level \in Nat /\ c.towers \in Nat /\ c.deg \in Nat
      /\ c.towers <= SizeQ /\ c.level + c.towers = SizeQ /\ SizeQ \in Nat
  BY RegularFacts, Sizes, Zenon DEF Regular
<1>2. /\ ~(c.towers <= n) /\ c.level + n \in 0 .. SizeQ /\ c.towers - n \in 0 .. SizeQ
      /\ c.deg - n \in Nat /\ c.level + n + (c.towers - n) = SizeQ
      /\ c.towers - n \in Int /\ c.towers - 1 \in Int /\ c.towers - 1 >= (c.towers - n) - 1
      /\ \A i \in (c.towers - n) .. (c.towers - 1) : i \in 0 .. (SizeQ - 1)
  BY <1>1
<1>3. P \in Units
  <2>1. \A i \in (c.towers - n) .. (c.towers - 1) : QModt[i] \in Units
    BY <1>2, PrimesUnits, Zenon
  <2> QED BY <1>2, <2>1, ProductUnits, Zenon
<1>4. x = [c EXCEPT !.towers = c.towers - n, !.deg = c.deg - n, !.level = c.level + n,
                    !.sf = ModDiv(c.sf, P), !.scale = ModDiv(c.scale, P)]
  BY <1>2, FactorsArePrimes, Zenon DEF ModReduceInternalInPlace
<1> HIDE DEF P, x
<1>5. /\ ModDiv(c.sf, P) \in Units /\ ModDiv(c.scale, P) \in Units
      /\ ModDiv(c.sf, P) \in Residues /\ ModDiv(c.scale, P) \in Residues
  BY <1>3, UnitsGroup, Zenon DEF Regular
<1>6. c \in Ciphertext
  BY Zenon DEF Regular
<1>7. /\ x \in Ciphertext
      /\ x.level = c.level + n /\ x.towers = c.towers - n
      /\ x.deg = c.deg - n /\ x.depth = c.depth /\ x.fault = c.fault
      /\ x.sf = ModDiv(c.sf, P) /\ x.scale = ModDiv(c.scale, P)
  BY <1>2, <1>4, <1>5, <1>6, Zenon DEF Ciphertext
<1>8. Regular(x)
  BY <1>2, <1>5, <1>7, Zenon DEF Regular
<1> QED BY <1>3, <1>7, <1>8, Zenon DEF x, P

\* One tower dropped: the product is the prime of that tower.
LEMMA ModReduceOne ==
    ASSUME NEW c, Regular(c), c.towers >= 2, c.deg >= 1
    PROVE  LET x == ModReduceInternalInPlace(c, 1)
               q == QModt[c.towers - 1]
           IN  /\ Regular(x) /\ q \in Units
               /\ x.level = c.level + 1 /\ x.towers = c.towers - 1
               /\ x.deg = c.deg - 1 /\ x.depth = c.depth /\ x.fault = c.fault
               /\ x.sf = ModDiv(c.sf, q) /\ x.scale = ModDiv(c.scale, q)
<1>1. c.towers \in Nat /\ c.deg \in Nat /\ c.towers <= SizeQ
  BY RegularFacts, Zenon
<1>2. 1 \in Nat /\ 1 < c.towers /\ 1 <= c.deg /\ c.towers - 1 \in Int /\ c.towers - 1 \in 0 .. (SizeQ - 1)
  BY <1>1, Sizes
<1>3. QModt[c.towers - 1] \in Units
  BY <1>2, PrimesUnits, Zenon
<1>4. Product(QModt, c.towers - 1, c.towers - 1) = QModt[c.towers - 1]
  BY <1>2, <1>3, ProductShort, Zenon
<1> QED BY <1>2, <1>3, <1>4, ModReduceFields

LEMMA LevelReduceFields ==
    ASSUME NEW c, Regular(c), NEW n \in Nat, n < c.towers
    PROVE  LET x == LevelReduceInternalInPlace(c, n)
           IN  /\ Regular(x)
               /\ x.level = c.level + n /\ x.towers = c.towers - n
               /\ x.deg = c.deg /\ x.depth = c.depth /\ x.fault = c.fault
               /\ x.sf = c.sf /\ x.scale = c.scale
<1> DEFINE x == LevelReduceInternalInPlace(c, n)
<1>1. /\ c.level \in Nat /\ c.towers \in Nat /\ c.level + c.towers = SizeQ /\ SizeQ \in Nat
      /\ c \in Ciphertext /\ c.sf \in Units /\ c.scale \in Units
  BY RegularFacts, Sizes, Zenon DEF Regular
<1>2. /\ ~(c.towers <= n) /\ c.level + n \in 0 .. SizeQ /\ c.towers - n \in 0 .. SizeQ
      /\ c.level + n + (c.towers - n) = SizeQ
  BY <1>1
<1>3. x = [c EXCEPT !.towers = c.towers - n, !.level = c.level + n]
  BY <1>2, Zenon DEF LevelReduceInternalInPlace
<1> HIDE DEF x
<1>4. /\ x \in Ciphertext
      /\ x.level = c.level + n /\ x.towers = c.towers - n
      /\ x.deg = c.deg /\ x.depth = c.depth /\ x.fault = c.fault
      /\ x.sf = c.sf /\ x.scale = c.scale
  BY <1>1, <1>2, <1>3, Zenon DEF Ciphertext
<1>5. Regular(x)
  BY <1>1, <1>2, <1>4, Zenon DEF Regular
<1> QED BY <1>4, <1>5, Zenon DEF x

LEMMA MultConstFields ==
    ASSUME NEW c, Regular(c), NEW k \in Units
    PROVE  LET x == EvalMultCoreConst(c, k)
           IN  /\ Regular(x)
               /\ x.level = c.level /\ x.towers = c.towers
               /\ x.deg = c.deg + 1 /\ x.depth = c.depth /\ x.fault = c.fault
               /\ x.sf = (IF Flexible THEN ModMul(c.sf, k) ELSE c.sf)
               /\ x.scale = ModMul(c.scale, k)
<1> DEFINE x == EvalMultCoreConst(c, k)
           f == IF Flexible THEN ModMul(c.sf, k) ELSE c.sf
<1>1. /\ c.deg + 1 \in Nat /\ c.level + c.towers = SizeQ
      /\ c \in Ciphertext /\ c.sf \in Units /\ c.scale \in Units
  BY RegularFacts DEF Regular
<1>2. /\ f \in Units /\ f \in Residues
      /\ ModMul(c.scale, k) \in Units /\ ModMul(c.scale, k) \in Residues
  BY <1>1, UnitsGroup, Zenon
<1>3. x = [c EXCEPT !.deg = c.deg + 1, !.sf = f, !.scale = ModMul(c.scale, k)]
  BY Zenon DEF EvalMultCoreConst
<1> HIDE DEF x, f
<1>4. /\ x \in Ciphertext
      /\ x.level = c.level /\ x.towers = c.towers
      /\ x.deg = c.deg + 1 /\ x.depth = c.depth /\ x.fault = c.fault
      /\ x.sf = f /\ x.scale = ModMul(c.scale, k)
  BY <1>1, <1>2, <1>3, Zenon DEF Ciphertext
<1>5. Regular(x)
  BY <1>1, <1>2, <1>4, Zenon DEF Regular
<1> QED BY <1>4, <1>5, Zenon DEF x, f

LEMMA RecordedFields ==
    ASSUME NEW c, Regular(c), NEW s \in Units
    PROVE  LET x == [c EXCEPT !.sf = s]
           IN  /\ Regular(x)
               /\ x.level = c.level /\ x.towers = c.towers /\ x.deg = c.deg
               /\ x.depth = c.depth /\ x.fault = c.fault /\ x.scale = c.scale
               /\ x.sf = s
<1>1. s \in Residues
  BY UnitsGroup, Zenon
<1> QED BY <1>1, Zenon DEF Ciphertext, Regular

LEMMA MaxFacts ==
    ASSUME NEW a \in Nat, NEW b \in Nat
    PROVE  Max2(a, b) \in Nat /\ a <= Max2(a, b) /\ b <= Max2(a, b)
           /\ (Max2(a, b) = a \/ Max2(a, b) = b)
BY DEF Max2

LEMMA AgedFields ==
    ASSUME NEW c, Regular(c), NEW d, Regular(d)
    PROVE  LET x == Aged(c, d)
           IN  /\ Regular(x)
               /\ x.level = c.level /\ x.towers = c.towers /\ x.deg = c.deg
               /\ x.fault = c.fault /\ x.scale = c.scale /\ x.sf = c.sf
               /\ x.depth = Max2(c.depth, d.depth)
<1>1. c.depth \in Nat /\ d.depth \in Nat
  BY RegularFacts, Zenon
<1>2. Max2(c.depth, d.depth) \in Nat
  BY <1>1, MaxFacts, Zenon
<1> QED BY <1>2, Zenon DEF Aged, Ciphertext, Regular

-----------------------------------------------------------------------------
(* The inductive invariant.                                                *)

\* What every ciphertext satisfies when the library rescales.  The last three
\* conjuncts make it inductive: a level is paid for by depth, and neither
\* FLEXIBLEAUTOEXT's level 0 has degree 1 nor the level past the table is met.
GoodAuto(c) ==
    /\ c \in Ciphertext
    /\ c.level + c.towers = SizeQ
    /\ c.deg \in {1, 2}
    /\ c.sf = Canon(c.level, c.deg)
    /\ c.scale = c.sf
    /\ c.fault = {}
    /\ c.depth <= MultDepth
    /\ c.level + c.deg <= c.depth + ExtraPrime + 1
    /\ Ext /\ c.level = 0 => c.deg = 2
    /\ c.level <= MultDepth

\* What every ciphertext satisfies when the caller rescales.
GoodManual(c) ==
    /\ c \in Ciphertext
    /\ c.level + c.towers = SizeQ
    /\ c.deg >= 1
    /\ c.sf = 1 /\ c.scale = 1
    /\ c.fault = {}
    /\ c.level + c.deg <= SizeQ

Good(c) == IF Manual THEN GoodManual(c) ELSE GoodAuto(c)

GoodSent(c) ==
    /\ c \in Ciphertext
    /\ c.sf \in Units /\ c.scale = c.sf
    /\ c.towers >= 1

Store(f) ==
    /\ f \in [Regs -> Ciphertext \cup {Null}]
    /\ \A r \in Regs : f[r] # Null => Good(f[r])

IInv ==
    /\ Store(ct)
    /\ sent \in Ciphertext \cup {Null}
    /\ sent # Null => GoodSent(sent)

\* Facts about a good ciphertext that the later steps use.
LEMMA AutoFacts ==
    ASSUME NEW c, GoodAuto(c)
    PROVE  /\ Regular(c) /\ c.level \in Nat /\ c.towers \in Nat /\ c.depth \in Nat
           /\ c.level < SizeQ /\ c.deg <= c.towers /\ c.level + c.towers = SizeQ
           /\ c.sf \in Units /\ c.scale \in Units
<1>1. /\ c \in Ciphertext /\ c.level \in 0 .. SizeQ /\ c.towers \in 0 .. SizeQ
      /\ c.depth \in Nat
  BY Zenon DEF GoodAuto, Ciphertext
<1>2. /\ c.level + c.towers = SizeQ /\ c.deg \in {1, 2} /\ c.depth <= MultDepth
      /\ c.level + c.deg <= c.depth + ExtraPrime + 1 /\ c.level <= MultDepth
      /\ c.sf = Canon(c.level, c.deg) /\ c.scale = c.sf
  BY Zenon DEF GoodAuto
<1>3. c.level \in 0 .. MultDepth /\ c.level \in Nat /\ c.towers \in Nat
      /\ c.level < SizeQ /\ c.deg <= c.towers
  BY <1>1, <1>2, Sizes
<1>4. c.sf \in Units
  BY <1>2, <1>3, LevelFactors, Zenon DEF Canon
<1> QED BY <1>1, <1>2, <1>3, <1>4, Zenon DEF Regular

\* Rescaling a good ciphertext of degree 2 gives a good one of degree 1.
LEMMA ModReduceGood ==
    ASSUME NEW c, GoodAuto(c), c.deg = 2, c.level + 1 <= MultDepth
    PROVE  LET x == ModReduceInternalInPlace(c, 1)
           IN  GoodAuto(x) /\ x.deg = 1 /\ x.level = c.level + 1 /\ x.depth = c.depth
<1> DEFINE x == ModReduceInternalInPlace(c, 1)
           q == QModt[c.towers - 1]
<1>1. /\ Regular(c) /\ c.level \in Nat /\ c.towers \in Nat /\ c.towers >= 2 /\ c.deg >= 1
      /\ c.towers - 1 = SizeQ - c.level - 1
  BY AutoFacts, Sizes
<1>2. /\ Regular(x)
      /\ x.level = c.level + 1 /\ x.towers = c.towers - 1
      /\ x.deg = c.deg - 1 /\ x.depth = c.depth /\ x.fault = c.fault
      /\ x.sf = ModDiv(c.sf, q) /\ x.scale = ModDiv(c.scale, q)
  BY <1>1, ModReduceOne, Zenon
<1>3. c.sf = GetScalingFactorIntBig(c.level) /\ c.scale = c.sf
  BY DEF GoodAuto, Canon
<1>4. x.sf = GetScalingFactorInt(c.level + 1) /\ x.scale = x.sf
  BY <1>1, <1>2, <1>3, Recurrence, Zenon
<1> HIDE DEF x
<1>5. x.deg = 1 /\ x.sf = Canon(x.level, x.deg)
  BY <1>2, <1>4 DEF Canon
<1>6. /\ c.fault = {} /\ c.depth <= MultDepth /\ c.depth \in Nat
      /\ c.level + c.deg <= c.depth + ExtraPrime + 1
  BY AutoFacts, Zenon DEF GoodAuto
<1>7. x.level + x.deg <= x.depth + ExtraPrime + 1 /\ x.level <= MultDepth /\ x.level # 0
  BY <1>1, <1>2, <1>5, <1>6, Sizes
<1>8. GoodAuto(x)
  BY <1>2, <1>4, <1>5, <1>6, <1>7, Zenon DEF GoodAuto, Regular
<1> QED BY <1>2, <1>5, <1>8, Zenon DEF x

\* An operand of a lower level is brought to exactly the other operand's level,
\* towers, degree and factor, recorded and true.
LEMMA AdjustDownMeets ==
    ASSUME NEW c, NEW d, GoodAuto(c), GoodAuto(d), c.level < d.level
    PROVE  LET x == AdjustDown(c, d)
           IN  /\ Regular(x)
               /\ x.level = d.level /\ x.towers = d.towers /\ x.deg = d.deg
               /\ x.sf = d.sf /\ x.scale = d.sf
               /\ x.fault = {} /\ x.depth = c.depth
<1> DEFINE gap == d.level - c.level
           ql  == GetModReduceFactorInt(c.towers - 1)
           big == GetScalingFactorIntBig(d.level - 1)
           Meets(x) == /\ Regular(x)
                       /\ x.level = d.level /\ x.towers = d.towers /\ x.deg = d.deg
                       /\ x.sf = d.sf /\ x.scale = d.sf
                       /\ x.fault = {} /\ x.depth = c.depth
           Recorded(x) == [x EXCEPT !.sf = d.sf]
           At(s) == EvalMultCoreConst(c, ModDiv(s, c.sf))
           Up(s) == EvalMultCoreConst(c, ModMul(ModDiv(s, c.sf), ql))
           Below(s) == ModReduceInternalInPlace(Up(s), 1)
<1>1. /\ Regular(c) /\ c.level \in Nat /\ c.towers \in Nat
      /\ c.level + c.towers = SizeQ /\ c.sf \in Units /\ c.scale \in Units
      /\ Regular(d) /\ d.level \in Nat /\ d.towers \in Nat
      /\ d.level + d.towers = SizeQ /\ d.sf \in Units /\ d.level < SizeQ
      /\ SizeQ \in Nat /\ d.level <= MultDepth /\ MultDepth \in Nat
  BY AutoFacts, Sizes, Zenon DEF GoodAuto
<1>2. /\ c.deg \in {1, 2} /\ d.deg \in {1, 2} /\ c.scale = c.sf /\ c.fault = {}
  BY Zenon DEF GoodAuto
<1>3. /\ gap \in Nat /\ gap >= 1 /\ c.towers >= 2 /\ d.level - 1 \in Nat
      /\ c.level + gap = d.level /\ c.towers - gap = d.towers /\ gap < c.towers
      /\ c.towers - 1 \in 0 .. (SizeQ - 1) /\ d.towers >= 1
      /\ d.level - 1 \in 0 .. MultDepth
  BY <1>1
<1>4. big \in Units
  BY <1>3, LevelFactors, Zenon
<1>5. ql = QModt[c.towers - 1] /\ ql \in Units
  BY <1>3, FactorsArePrimes, PrimesUnits, Zenon
<1>6. ModDiv(big, QModt[d.towers]) = GetScalingFactorInt(d.level)
  <2>1. (d.level - 1) + 1 <= MultDepth /\ (d.level - 1) + 1 = d.level
        /\ SizeQ - (d.level - 1) - 1 = d.towers
    BY <1>1, <1>3
  <2> QED BY <2>1, <1>3, Recurrence, Zenon
<1> HIDE DEF gap, ql, big
<1>7. ASSUME NEW s \in Units
      PROVE  LET x == At(s)
             IN  /\ Regular(x) /\ x.level = c.level /\ x.towers = c.towers
                 /\ x.deg = c.deg + 1 /\ x.depth = c.depth /\ x.fault = {}
                 /\ x.scale = s
  <2>1. ModDiv(s, c.sf) \in Units /\ ModMul(c.scale, ModDiv(s, c.sf)) = s
    BY <1>1, <1>2, AimedFactor, ZenonT(60)
  <2> QED BY <2>1, <1>1, <1>2, MultConstFields, ZenonT(60)
<1>8. ASSUME NEW s \in Units
      PROVE  LET x == Below(s)
             IN  /\ Regular(x) /\ x.level = c.level + 1 /\ x.towers = c.towers - 1
                 /\ x.deg = c.deg /\ x.depth = c.depth /\ x.fault = {}
                 /\ x.scale = s
  <2> DEFINE k == ModMul(ModDiv(s, c.sf), ql)
  <2>1. k \in Units /\ ModDiv(ModMul(c.scale, k), ql) = s
    BY <1>1, <1>2, <1>5, AimedFactor
  <2> HIDE DEF k
  <2>2. LET y == EvalMultCoreConst(c, k)
        IN  /\ Regular(y) /\ y.level = c.level /\ y.towers = c.towers
            /\ y.deg = c.deg + 1 /\ y.depth = c.depth /\ y.fault = {}
            /\ y.scale = ModMul(c.scale, k)
    BY <2>1, <1>1, <1>2, MultConstFields, ZenonT(60)
  <2> DEFINE y == EvalMultCoreConst(c, k)
             x == ModReduceInternalInPlace(y, 1)
  <2> HIDE DEF y
  <2>3. /\ Regular(y) /\ y.level = c.level /\ y.towers = c.towers
        /\ y.deg = c.deg + 1 /\ y.depth = c.depth /\ y.fault = {}
        /\ y.scale = ModMul(c.scale, k) /\ y.towers >= 2 /\ y.deg >= 1
    BY <2>2, <1>2, <1>3 DEF y
  <2>4. (c.deg + 1) - 1 = c.deg
    BY <1>2
  <2>5. /\ Regular(x) /\ x.level = c.level + 1 /\ x.towers = c.towers - 1
        /\ x.deg = c.deg /\ x.depth = c.depth /\ x.fault = {}
        /\ x.scale = s
    BY <2>1, <2>3, <2>4, <1>5, ModReduceOne, ZenonT(60)
  <2> QED BY <2>5, Zenon DEF x, y, k
<1> HIDE DEF At, Below
<1>9. ASSUME NEW z, Regular(z), z.level = d.level - 1, z.towers = d.towers + 1,
             z.deg = 2, z.fault = {}, z.depth = c.depth, z.scale = big, d.deg = 1
      PROVE  Meets(Recorded(ModReduceInternalInPlace(z, 1)))
  <2> DEFINE y == ModReduceInternalInPlace(z, 1)
  <2>1. z.towers >= 2 /\ z.deg >= 1 /\ z.level + 1 = d.level /\ z.towers - 1 = d.towers
    BY <1>1, <1>3, <1>9
  <2>2. /\ Regular(y) /\ y.level = d.level /\ y.towers = d.towers
        /\ y.deg = 1 /\ y.depth = c.depth /\ y.fault = {}
        /\ y.scale = ModDiv(big, QModt[d.towers])
    BY <2>1, <1>9, ModReduceOne
  <2>3. d.sf = GetScalingFactorInt(d.level)
    BY <1>9, Zenon DEF GoodAuto, Canon
  <2> HIDE DEF y
  <2>4. Meets(Recorded(y))
    BY <2>2, <2>3, <1>1, <1>6, <1>9, RecordedFields
  <2> QED BY <2>4, Zenon DEF y
<1>10. CASE c.deg = 2 /\ d.deg = 2
  <2> DEFINE y == Below(d.sf)
             z == LevelReduceInternalInPlace(y, gap - 1)
  <2>1. /\ Regular(y) /\ y.level = c.level + 1 /\ y.towers = c.towers - 1
        /\ y.deg = c.deg /\ y.depth = c.depth /\ y.fault = {} /\ y.scale = d.sf
    BY <1>8, <1>1, Zenon
  <2> HIDE DEF y
  <2>2. /\ gap - 1 \in Nat /\ gap - 1 < y.towers
        /\ y.level + (gap - 1) = d.level /\ y.towers - (gap - 1) = d.towers
    BY <2>1, <1>1, <1>3
  <2>3. /\ Regular(z) /\ z.level = d.level /\ z.towers = d.towers /\ z.deg = d.deg
        /\ z.depth = c.depth /\ z.fault = {} /\ z.scale = d.sf
    BY <2>1, <2>2, <1>10, LevelReduceFields, ZenonT(60)
  <2> HIDE DEF z
  <2>4. Meets(Recorded(z))
    BY <2>3, <1>1, RecordedFields
  <2>5. AdjustDown(c, d) = Recorded(z)
    BY <1>10, Zenon DEF AdjustDown, z, y, Below, Up, gap, ql
  <2> QED BY <2>4, <2>5, Zenon
<1>11. CASE c.deg = 2 /\ d.deg = 1 /\ gap = 1
  <2> DEFINE x == ModReduceInternalInPlace(c, 1)
  <2>0. c.level + 1 <= MultDepth
    BY <1>1, <1>3, <1>11, Zenon
  <2>1. GoodAuto(x) /\ x.deg = 1 /\ x.level = c.level + 1 /\ x.depth = c.depth
    BY <2>0, <1>11, ModReduceGood, Zenon
  <2> HIDE DEF x
  <2>2. x.level = d.level
    BY <2>1, <1>11, <1>3, Zenon
  <2>3. Regular(x) /\ x.level + x.towers = SizeQ /\ x.towers \in Nat
    BY <2>1, AutoFacts, Zenon
  <2>4. x.towers = d.towers
    BY <2>2, <2>3, <1>1
  <2>5. x.sf = d.sf /\ x.scale = d.sf /\ x.fault = {}
    BY <2>1, <2>2, <1>11, Zenon DEF GoodAuto
  <2>6. Meets(x)
    BY <2>1, <2>2, <2>3, <2>4, <2>5, <1>11, Zenon
  <2>7. AdjustDown(c, d) = x
    BY <1>11 DEF AdjustDown, x, gap
  <2> QED BY <2>6, <2>7, Zenon
<1>12. CASE c.deg = 2 /\ d.deg = 1 /\ gap # 1
  <2> DEFINE y == Below(big)
             z == LevelReduceInternalInPlace(y, gap - 2)
  <2>1. /\ Regular(y) /\ y.level = c.level + 1 /\ y.towers = c.towers - 1
        /\ y.deg = c.deg /\ y.depth = c.depth /\ y.fault = {} /\ y.scale = big
    BY <1>8, <1>4, Zenon
  <2> HIDE DEF y
  <2>2. /\ gap - 2 \in Nat /\ gap - 2 < y.towers
        /\ y.level + (gap - 2) = d.level - 1 /\ y.towers - (gap - 2) = d.towers + 1
    BY <2>1, <1>1, <1>3, <1>12
  <2>3. /\ Regular(z) /\ z.level = d.level - 1 /\ z.towers = d.towers + 1 /\ z.deg = 2
        /\ z.depth = c.depth /\ z.fault = {} /\ z.scale = big
    BY <2>1, <2>2, <1>12, LevelReduceFields, ZenonT(60)
  <2> HIDE DEF z
  <2>4. Meets(Recorded(ModReduceInternalInPlace(z, 1)))
    BY <2>3, <1>9, <1>12, Zenon
  <2>5. AdjustDown(c, d) = Recorded(ModReduceInternalInPlace(z, 1))
    BY <1>12 DEF AdjustDown, z, y, Below, Up, gap, ql, big
  <2> QED BY <2>4, <2>5, Zenon
<1>13. CASE c.deg = 1 /\ d.deg = 2
  <2> DEFINE y == At(d.sf)
             z == LevelReduceInternalInPlace(y, gap)
  <2>1. /\ Regular(y) /\ y.level = c.level /\ y.towers = c.towers
        /\ y.deg = c.deg + 1 /\ y.depth = c.depth /\ y.fault = {} /\ y.scale = d.sf
    BY <1>7, <1>1, Zenon
  <2> HIDE DEF y
  <2>2. /\ Regular(z) /\ z.level = d.level /\ z.towers = d.towers /\ z.deg = d.deg
        /\ z.depth = c.depth /\ z.fault = {} /\ z.scale = d.sf
    BY <2>1, <1>1, <1>3, <1>13, LevelReduceFields
  <2> HIDE DEF z
  <2>3. Meets(Recorded(z))
    BY <2>2, <1>1, RecordedFields
  <2>4. AdjustDown(c, d) = Recorded(z)
    BY <1>13 DEF AdjustDown, z, y, At, gap
  <2> QED BY <2>3, <2>4, Zenon
<1>14. CASE c.deg = 1 /\ d.deg = 1
  <2> DEFINE y == At(big)
             z == LevelReduceInternalInPlace(y, gap - 1)
  <2>1. /\ Regular(y) /\ y.level = c.level /\ y.towers = c.towers
        /\ y.deg = c.deg + 1 /\ y.depth = c.depth /\ y.fault = {} /\ y.scale = big
    BY <1>7, <1>4, Zenon
  <2> HIDE DEF y
  <2>2. /\ gap - 1 \in Nat /\ gap - 1 < y.towers
        /\ y.level + (gap - 1) = d.level - 1 /\ y.towers - (gap - 1) = d.towers + 1
    BY <2>1, <1>1, <1>3
  <2>3. /\ Regular(z) /\ z.level = d.level - 1 /\ z.towers = d.towers + 1 /\ z.deg = 2
        /\ z.depth = c.depth /\ z.fault = {} /\ z.scale = big
    BY <2>1, <2>2, <1>14, LevelReduceFields
  <2> HIDE DEF z
  <2>4. Meets(Recorded(ModReduceInternalInPlace(z, 1)))
    BY <2>3, <1>9, <1>14, Zenon
  <2>5. AdjustDown(c, d) = Recorded(ModReduceInternalInPlace(z, 1))
    BY <1>14 DEF AdjustDown, z, y, At, gap, big
  <2> QED BY <2>4, <2>5, Zenon
<1> QED BY <1>2, <1>10, <1>11, <1>12, <1>13, <1>14, Zenon

\* Whatever two good ciphertexts meet, the first one stays good and ends at the
\* higher of the two levels, and at the higher degree where the levels agree.
LEMMA LoweredGood ==
    ASSUME NEW c, NEW d, GoodAuto(c), GoodAuto(d)
    PROVE  LET x == Lowered(c, d)
           IN  /\ GoodAuto(x)
               /\ c.level < d.level => x.level = d.level /\ x.deg = d.deg
               /\ c.level = d.level => x.level = d.level /\ x.deg = Max2(c.deg, d.deg)
               /\ c.level > d.level => x = c
<1>1. /\ Regular(c) /\ c.level \in Nat /\ c.depth \in Nat /\ c.level + c.towers = SizeQ
      /\ Regular(d) /\ d.level \in Nat /\ d.depth \in Nat /\ d.level + d.towers = SizeQ
      /\ c.towers \in Nat /\ d.towers \in Nat /\ d.deg <= d.towers
      /\ c.sf \in Units /\ c.scale \in Units
  BY AutoFacts, Zenon
<1>2. /\ c.deg \in {1, 2} /\ d.deg \in {1, 2}
      /\ c.depth <= MultDepth /\ d.depth <= MultDepth
      /\ d.level + d.deg <= d.depth + ExtraPrime + 1 /\ d.level <= MultDepth
      /\ ExtraPrime \in {0, 1} /\ MultDepth \in Nat
  BY Sizes, Zenon DEF GoodAuto
<1>3. /\ Max2(c.depth, d.depth) \in Nat /\ Max2(c.depth, d.depth) <= MultDepth
      /\ d.level + d.deg <= Max2(c.depth, d.depth) + ExtraPrime + 1
  <2> DEFINE mx == Max2(c.depth, d.depth)
  <2>1. /\ mx \in Nat /\ d.depth <= mx /\ (mx = c.depth \/ mx = d.depth)
    BY <1>1, MaxFacts, Zenon
  <2> HIDE DEF mx
  <2>2. mx <= MultDepth /\ d.level + d.deg <= mx + ExtraPrime + 1
    BY <2>1, <1>1, <1>2
  <2> QED BY <2>1, <2>2, Zenon DEF mx
<1>4. CASE c.level < d.level
  <2> DEFINE y == AdjustDown(c, d)
             x == Aged(y, d)
  <2>1. /\ Regular(y)
        /\ y.level = d.level /\ y.towers = d.towers /\ y.deg = d.deg
        /\ y.sf = d.sf /\ y.scale = d.sf /\ y.fault = {} /\ y.depth = c.depth
    BY <1>4, AdjustDownMeets
  <2> HIDE DEF y
  <2>2. /\ Regular(x)
        /\ x.level = d.level /\ x.towers = d.towers /\ x.deg = d.deg
        /\ x.sf = d.sf /\ x.scale = d.sf /\ x.fault = {}
        /\ x.depth = Max2(c.depth, d.depth)
    BY <2>1, <1>1, AgedFields
  <2>3. Lowered(c, d) = x
    BY <1>4, Zenon DEF Lowered, x, y
  <2> HIDE DEF x
  <2>4. d.sf = Canon(d.level, d.deg) /\ (Ext /\ d.level = 0 => d.deg = 2)
    BY Zenon DEF GoodAuto
  <2>5. GoodAuto(x)
    BY <2>2, <2>4, <1>1, <1>2, <1>3, Zenon DEF GoodAuto, Regular
  <2> QED BY <2>2, <2>3, <2>5, <1>4, <1>1
<1>5. CASE c.level = d.level /\ c.deg < d.deg
  <2> DEFINE y == EvalMultCoreConst(c, c.sf)
             x == Aged(y, d)
  <2>1. c.deg = 1 /\ d.deg = 2 /\ c.level + 1 < SizeQ /\ c.towers = d.towers
    BY <1>1, <1>2, <1>5
  <2>2. /\ c.sf = GetScalingFactorInt(c.level) /\ c.scale = c.sf /\ c.fault = {}
        /\ ~(Ext /\ c.level = 0)
    BY <2>1 DEF GoodAuto, Canon
  <2>3. ModMul(c.sf, c.sf) = Canon(c.level, 2)
    BY <2>1, <2>2, <1>1, SquareFactor, Zenon
  <2>4. ~Flexible => c.sf = Canon(c.level, 2)
    BY <2>2, Zenon DEF Canon, GetScalingFactorInt, GetScalingFactorIntBig
  <2>5. /\ Regular(y) /\ y.level = c.level /\ y.towers = c.towers
        /\ y.deg = 2 /\ y.depth = c.depth /\ y.fault = {}
        /\ y.sf = Canon(c.level, 2) /\ y.scale = Canon(c.level, 2)
    <3>1. /\ Regular(y) /\ y.level = c.level /\ y.towers = c.towers
          /\ y.deg = c.deg + 1 /\ y.depth = c.depth /\ y.fault = c.fault
          /\ y.sf = (IF Flexible THEN ModMul(c.sf, c.sf) ELSE c.sf)
          /\ y.scale = ModMul(c.scale, c.sf)
      BY <1>1, MultConstFields, Zenon
    <3> HIDE DEF y
    <3> QED BY <3>1, <2>1, <2>2, <2>3, <2>4
  <2> HIDE DEF y
  <2>6. /\ Regular(x) /\ x.level = d.level /\ x.towers = d.towers
        /\ x.deg = 2 /\ x.depth = Max2(c.depth, d.depth) /\ x.fault = {}
        /\ x.sf = Canon(d.level, 2) /\ x.scale = Canon(d.level, 2)
    BY <2>1, <2>5, <1>1, <1>5, AgedFields
  <2>7. Lowered(c, d) = x
    <3>1. ~(c.level < d.level)
      BY <1>5, <1>1
    <3> QED BY <3>1, <1>5, Zenon DEF Lowered, x, y
  <2> HIDE DEF x
  <2>8. GoodAuto(x)
    BY <2>1, <2>6, <1>1, <1>2, <1>3, Zenon DEF GoodAuto, Regular
  <2>9. Max2(c.deg, d.deg) = 2
    BY <2>1 DEF Max2
  <2> QED BY <2>6, <2>7, <2>8, <2>9, <1>5, <1>1
<1>6. CASE c.level > d.level \/ (c.level = d.level /\ ~(c.deg < d.deg))
  <2>1. Lowered(c, d) = c
    BY <1>6, <1>1 DEF Lowered
  <2>2. c.level = d.level => c.deg = Max2(c.deg, d.deg)
    BY <1>6, <1>1, <1>2 DEF Max2
  <2> QED BY <2>1, <2>2, <1>6, <1>1, SMTT(60)
<1> QED BY <1>1, <1>2, <1>4, <1>5, <1>6

\* The two operands of a sum: both good, at one level, degree and factor.
LEMMA AutoAddOperands ==
    ASSUME NEW c, NEW d, GoodAuto(c), GoodAuto(d)
    PROVE  LET p == AdjustLevelsAndDepthInPlace(c, d)
           IN  /\ GoodAuto(p[1]) /\ GoodAuto(p[2])
               /\ p[1].level = p[2].level /\ p[1].deg = p[2].deg
<1> DEFINE x == Lowered(c, d)
           y == Lowered(d, c)
<1>1. AdjustLevelsAndDepthInPlace(c, d) = <<x, y>>
  BY Zenon DEF AdjustLevelsAndDepthInPlace
<1>2. /\ GoodAuto(x)
      /\ c.level < d.level => x.level = d.level /\ x.deg = d.deg
      /\ c.level = d.level => x.level = d.level /\ x.deg = Max2(c.deg, d.deg)
      /\ c.level > d.level => x = c
  BY LoweredGood, Zenon
<1>3. /\ GoodAuto(y)
      /\ d.level < c.level => y.level = c.level /\ y.deg = c.deg
      /\ d.level = c.level => y.level = c.level /\ y.deg = Max2(d.deg, c.deg)
      /\ d.level > c.level => y = d
  BY LoweredGood, Zenon
<1> HIDE DEF x, y
<1>4. c.level \in Nat /\ d.level \in Nat
  BY AutoFacts, Zenon
<1>5. Max2(c.deg, d.deg) = Max2(d.deg, c.deg)
  BY DEF Max2, GoodAuto
<1>6. x.level = y.level /\ x.deg = y.deg
  BY <1>2, <1>3, <1>4, <1>5
<1> QED BY <1>1, <1>2, <1>3, <1>6

\* The depth of a product of two regular ciphertexts bounds theirs.
LEMMA ProductDepth ==
    ASSUME ~Manual, NEW x, NEW y, Regular(x), Regular(y), WithinDepth(EvalMultCore(x, y))
    PROVE  /\ EvalMultCore(x, y).depth = Max2(x.depth, y.depth) + 1
           /\ x.depth + 1 <= MultDepth /\ y.depth + 1 <= MultDepth
<1> DEFINE c == EvalMultCore(x, y)
           mx == Max2(x.depth, y.depth)
<1>1. c.depth = mx + 1
  BY Zenon DEF EvalMultCore, Regular, Ciphertext
<1>2. c.depth <= MultDepth
  BY Zenon DEF WithinDepth
<1>3. x.depth \in Nat /\ y.depth \in Nat
  BY RegularFacts, Zenon
<1>4. mx \in Nat /\ x.depth <= mx /\ y.depth <= mx
  BY <1>3, MaxFacts, Zenon
<1> HIDE DEF c, mx
<1>5. x.depth + 1 <= MultDepth /\ y.depth + 1 <= MultDepth
  BY <1>1, <1>2, <1>3, <1>4, Sizes
<1> QED BY <1>1, <1>5, Zenon DEF c, mx

\* The two operands of a product within depth: both good, of degree 1, at one
\* level.
LEMMA AutoMultOperands ==
    ASSUME ~Manual, NEW c, NEW d, GoodAuto(c), GoodAuto(d),
           WithinDepth(ProductOf(AdjustForMultInPlace(c, d)))
    PROVE  LET p == AdjustForMultInPlace(c, d)
           IN  /\ GoodAuto(p[1]) /\ GoodAuto(p[2])
               /\ p[1].level = p[2].level /\ p[1].deg = 1 /\ p[2].deg = 1
<1> DEFINE p == AdjustLevelsAndDepthInPlace(c, d)
<1>1. /\ GoodAuto(p[1]) /\ GoodAuto(p[2]) /\ p[1].level = p[2].level /\ p[1].deg = p[2].deg
  BY AutoAddOperands, Zenon
<1>2. AdjustForMultInPlace(c, d) =
          IF p[1].deg = 2
          THEN <<ModReduceInternalInPlace(p[1], 1), ModReduceInternalInPlace(p[2], 1)>>
          ELSE p
  BY Zenon DEF AdjustForMultInPlace, AdjustLevelsAndDepthToOneInPlace, RescaledToOne
<1> HIDE DEF p
<1>3. p[1].deg \in {1, 2}
  BY <1>1, Zenon DEF GoodAuto
<1>4. CASE p[1].deg = 2
  <2> DEFINE x == ModReduceInternalInPlace(p[1], 1)
             y == ModReduceInternalInPlace(p[2], 1)
  <2>1. AdjustForMultInPlace(c, d) = <<x, y>>
    BY <1>2, <1>4, Zenon
  <2>2. /\ Regular(p[1]) /\ p[1].towers >= 2 /\ p[1].deg >= 1
        /\ Regular(p[2]) /\ p[2].towers >= 2 /\ p[2].deg >= 1
        /\ p[1].depth \in Nat /\ p[2].depth \in Nat /\ p[1].level \in Nat
    BY <1>1, <1>4, AutoFacts
  <2>3. Regular(x) /\ Regular(y) /\ x.depth = p[1].depth /\ y.depth = p[2].depth
    BY <2>2, ModReduceOne, Zenon
  <2> HIDE DEF x, y
  <2>4. WithinDepth(EvalMultCore(x, y))
    BY <2>1 DEF ProductOf
  <2>5. x.depth + 1 <= MultDepth
    BY <2>3, <2>4, ProductDepth, Zenon
  <2>6. p[1].level + 2 <= p[1].depth + ExtraPrime + 1
    BY <1>1, <1>4, Zenon DEF GoodAuto
  <2>7. p[1].level + 1 <= MultDepth
    BY <2>2, <2>3, <2>5, <2>6, Sizes
  <2>8. GoodAuto(x) /\ x.deg = 1 /\ x.level = p[1].level + 1
    BY <1>1, <1>4, <2>7, ModReduceGood, Zenon DEF x
  <2>9. GoodAuto(y) /\ y.deg = 1 /\ y.level = p[2].level + 1
    BY <1>1, <1>4, <2>7, ModReduceGood, Zenon DEF y
  <2> QED BY <2>1, <2>8, <2>9, <1>1
<1>5. CASE p[1].deg = 1
  <2>1. AdjustForMultInPlace(c, d) = p
    BY <1>2, <1>5
  <2> QED BY <2>1, <1>1, <1>5, Zenon
<1> QED BY <1>3, <1>4, <1>5, Zenon

\* A sum of operands at one level and degree is good.
LEMMA AutoAddGood ==
    ASSUME NEW x, NEW y, GoodAuto(x), GoodAuto(y), x.level = y.level, x.deg = y.deg
    PROVE  GoodAuto(EvalAddCore(x, y))
<1> DEFINE c == EvalAddCore(x, y)
           mx == Max2(x.depth, y.depth)
<1>1. /\ Regular(x) /\ x.depth \in Nat /\ y.depth \in Nat
      /\ x.level \in Nat /\ y.level \in Nat
      /\ x.towers \in Nat /\ y.towers \in Nat
      /\ x.level + x.towers = SizeQ /\ y.level + y.towers = SizeQ
  BY AutoFacts, Zenon
<1>2. /\ x.scale = y.scale /\ x.fault = {} /\ y.fault = {}
      /\ x.depth <= MultDepth /\ y.depth <= MultDepth /\ x.deg \in {1, 2}
      /\ x.level + x.deg <= x.depth + ExtraPrime + 1
      /\ ExtraPrime \in {0, 1} /\ MultDepth \in Nat /\ x \in Ciphertext
  BY Sizes, Zenon DEF GoodAuto
<1>3. x.towers = y.towers
  BY <1>1
<1>4. mx \in Nat /\ x.depth <= mx /\ (mx = x.depth \/ mx = y.depth)
  BY <1>1, MaxFacts, Zenon
<1>5. c = [x EXCEPT !.depth = mx, !.fault = {}]
  BY <1>2, <1>3, Zenon DEF EvalAddCore, Faulty
<1> HIDE DEF c, mx
<1>6. /\ c \in Ciphertext
      /\ c.level = x.level /\ c.towers = x.towers /\ c.deg = x.deg
      /\ c.sf = x.sf /\ c.scale = x.scale /\ c.fault = {} /\ c.depth = mx
  BY <1>2, <1>4, <1>5, Zenon DEF Ciphertext
<1>7. mx <= MultDepth /\ x.level + x.deg <= mx + ExtraPrime + 1
  BY <1>1, <1>2, <1>4
<1>8. GoodAuto(c)
  BY <1>6, <1>7, Zenon DEF GoodAuto
<1> QED BY <1>8, Zenon DEF c

\* A product of operands of degree 1 at one level is good, if within depth.
LEMMA AutoMultGood ==
    ASSUME ~Manual, NEW x, NEW y, GoodAuto(x), GoodAuto(y), x.level = y.level,
           x.deg = 1, y.deg = 1, WithinDepth(EvalMultCore(x, y))
    PROVE  GoodAuto(EvalMultCore(x, y))
<1> DEFINE c == EvalMultCore(x, y)
           mx == Max2(x.depth, y.depth)
<1>1. /\ Regular(x) /\ Regular(y) /\ x.depth \in Nat /\ y.depth \in Nat
      /\ x.level \in Nat /\ y.level \in Nat
      /\ x.towers \in Nat /\ y.towers \in Nat
      /\ x.level + x.towers = SizeQ /\ y.level + y.towers = SizeQ
      /\ x.sf \in Units
  BY AutoFacts, Zenon
<1>2. /\ x.sf = GetScalingFactorInt(x.level) /\ y.sf = GetScalingFactorInt(x.level)
      /\ x.scale = x.sf /\ y.scale = y.sf /\ x.fault = {} /\ y.fault = {}
      /\ x.level + x.deg <= x.depth + ExtraPrime + 1
      /\ ~(Ext /\ x.level = 0) /\ x.level <= MultDepth /\ x \in Ciphertext
  BY DEF GoodAuto, Canon
<1>3. x.towers = y.towers
  BY <1>1
<1>4. mx \in Nat /\ x.depth <= mx
  BY <1>1, MaxFacts, Zenon
<1> DEFINE two == ModMul(GetScalingFactorInt(x.level), GetScalingFactorInt(x.level))
<1>5. c = [x EXCEPT !.deg = 2, !.sf = two, !.scale = two, !.depth = mx + 1, !.fault = {}]
  BY <1>2, <1>3 DEF EvalMultCore, Faulty
<1>6. c.depth <= MultDepth
  BY Zenon DEF WithinDepth
<1>7. c.depth = mx + 1
  BY <1>1, ProductDepth, Zenon
<1> HIDE DEF c, mx
<1>8. mx + 1 \in Nat /\ x.level + 1 < SizeQ /\ x.level + 2 <= (mx + 1) + ExtraPrime + 1
  BY <1>1, <1>2, <1>4, <1>6, <1>7, Sizes
<1>9. two = Canon(x.level, 2) /\ two \in Residues
  <2>1. two \in Residues
    BY <1>1, <1>2, UnitsGroup, Zenon
  <2> QED BY <2>1, <1>1, <1>2, <1>8, SquareFactor, Zenon
<1> HIDE DEF two
<1>10. /\ c \in Ciphertext
       /\ c.level = x.level /\ c.towers = x.towers /\ c.deg = 2
       /\ c.sf = two /\ c.scale = two /\ c.fault = {} /\ c.depth = mx + 1
  BY <1>2, <1>5, <1>8, <1>9, Zenon DEF Ciphertext
<1>11. GoodAuto(c)
  BY <1>1, <1>2, <1>6, <1>8, <1>9, <1>10, Zenon DEF GoodAuto
<1> QED BY <1>11, Zenon DEF c

\* A plaintext of level 0, which is as many towers as it is given.
LEMMA AutoPlaintext ==
    ASSUME ~Manual, Flexible => PlaintextLevels \subseteq {0},
           NEW pt \in Plaintexts, WithinDepth(pt)
    PROVE  GoodAuto(pt)
<1>1. PICK l \in PlaintextLevels, d \in {1, 2} : pt = MakePlaintext(l, d)
  BY DEF Plaintexts
<1>2. pt.depth <= MultDepth
  BY Zenon DEF WithinDepth
<1>3. ASSUME NEW deg \in {1, 2}, NEW depth \in Nat, depth <= MultDepth,
             2 - 1 <= MultDepth, deg <= depth + ExtraPrime + 1, Ext => deg = 2,
             NEW sf, sf = Canon(0, deg),
             pt = [level |-> 0, towers |-> SizeQ, deg |-> deg, sf |-> sf, scale |-> sf,
                   depth |-> depth, fault |-> {}]
      PROVE  GoodAuto(pt)
  <2>1. 0 \in 0 .. MultDepth /\ 0 \in 0 .. SizeQ /\ SizeQ \in 0 .. SizeQ /\ 0 + SizeQ = SizeQ
        /\ deg \in Nat /\ 0 + deg <= depth + ExtraPrime + 1 /\ 0 <= MultDepth
    BY <1>3, Sizes
  <2>2. sf \in Units
    BY <1>3, <2>1, LevelFactors, Zenon DEF Canon
  <2>3. sf \in Residues
    BY <2>2, UnitsGroup, Zenon
  <2>4. pt \in Ciphertext
    BY <1>3, <2>1, <2>3, Zenon DEF Ciphertext
  <2> QED BY <1>3, <2>1, <2>4, Zenon DEF GoodAuto
<1>4. CASE ~Flexible
  <2>1. pt = [level |-> 0, towers |-> SizeQ, deg |-> 1, sf |-> 1, scale |-> 1,
              depth |-> 0, fault |-> {}]
    BY <1>1, <1>4, Zenon DEF MakePlaintext
  <2>2. 1 = Canon(0, 1)
    BY <1>4, Zenon DEF Canon, GetScalingFactorInt
  <2>3. ~Ext /\ 0 \in Nat /\ 0 <= MultDepth /\ 2 - 1 <= MultDepth /\ 1 <= 0 + ExtraPrime + 1
        /\ 1 \in {1, 2}
    BY <1>4, Sizes
  <2> QED BY <2>1, <2>2, <2>3, <1>3, Zenon
<1>5. CASE Flexible /\ Ext
  <2>1. l = 0
    BY <1>5, Zenon
  <2>2. 0 + 2 - 1 - ExtraPrime = 0
    BY <1>5, Sizes
  <2> DEFINE sf == GetScalingFactorIntBig(0)
  <2>3. pt = [level |-> 0, towers |-> SizeQ, deg |-> 2, sf |-> sf, scale |-> sf,
              depth |-> 0 + 2 - 1 - ExtraPrime, fault |-> {}]
    BY <1>1, <1>5, <2>1, Zenon DEF MakePlaintext
  <2>4. sf = Canon(0, 2)
    BY DEF Canon
  <2> HIDE DEF sf
  <2>5. pt = [level |-> 0, towers |-> SizeQ, deg |-> 2, sf |-> sf, scale |-> sf,
              depth |-> 0, fault |-> {}]
    BY <2>2, <2>3, Zenon
  <2>6. 0 \in Nat /\ 0 <= MultDepth /\ 2 - 1 <= MultDepth /\ 2 <= 0 + ExtraPrime + 1
        /\ 2 \in {1, 2}
    BY <1>5, Sizes
  <2> QED BY <2>4, <2>5, <2>6, <1>3, Zenon
<1>6. CASE Flexible /\ ~Ext
  <2>1. l = 0 /\ ExtraPrime = 0
    BY <1>6, Sizes, Zenon
  <2> DEFINE one == GetScalingFactorInt(0)
             sf  == IF d = 2 THEN ModMul(one, one) ELSE one
  <2>2. pt = [level |-> 0, towers |-> SizeQ, deg |-> d, sf |-> sf, scale |-> sf,
              depth |-> 0 + d - 1 - ExtraPrime, fault |-> {}]
    BY <1>1, <1>6, <2>1, Zenon DEF MakePlaintext
  <2>3. sf = Canon(0, d)
    <3>1. CASE d = 1
      BY <3>1 DEF Canon
    <3>2. CASE d = 2
      <4>1. 0 \in Nat /\ 0 + 1 < SizeQ /\ ~(Ext /\ 0 = 0)
        BY <1>6, Sizes
      <4> QED BY <3>2, <4>1, SquareFactor, Zenon
    <3> QED BY <3>1, <3>2, Zenon
  <2> HIDE DEF sf
  <2>4. 0 + d - 1 - ExtraPrime \in Nat /\ d <= (0 + d - 1 - ExtraPrime) + ExtraPrime + 1
        /\ 2 - 1 <= MultDepth
    BY <2>1, Sizes
  <2>5. 0 + d - 1 - ExtraPrime <= MultDepth
    BY <1>2, <2>2, Zenon
  <2> QED BY <2>2, <2>3, <2>4, <2>5, <1>3, <1>6, Zenon
<1> QED BY <1>4, <1>5, <1>6, Zenon

\* What EvalSquare multiplies is good and of degree 1.
LEMMA AutoSquare ==
    ASSUME ~Manual, NEW c, GoodAuto(c),
           WithinDepth(EvalMultCore(RescaleBeforeSquare(c), RescaleBeforeSquare(c)))
    PROVE  GoodAuto(RescaleBeforeSquare(c)) /\ RescaleBeforeSquare(c).deg = 1
<1>1. c.deg \in {1, 2}
  BY Zenon DEF GoodAuto
<1>2. CASE c.deg = 1
  BY <1>2, Zenon DEF RescaleBeforeSquare
<1>3. CASE c.deg = 2
  <2> DEFINE x == ModReduceInternalInPlace(c, 1)
  <2>1. RescaleBeforeSquare(c) = x
    BY <1>3 DEF RescaleBeforeSquare
  <2>2. /\ Regular(c) /\ c.towers >= 2 /\ c.deg >= 1 /\ c.depth \in Nat /\ c.level \in Nat
    BY <1>3, AutoFacts
  <2>3. Regular(x) /\ x.depth = c.depth
    BY <2>2, ModReduceOne, Zenon
  <2> HIDE DEF x
  <2>4. x.depth + 1 <= MultDepth
    BY <2>1, <2>3, ProductDepth, Zenon
  <2>5. c.level + 2 <= c.depth + ExtraPrime + 1
    BY <1>3, Zenon DEF GoodAuto
  <2>6. c.level + 1 <= MultDepth
    BY <2>2, <2>3, <2>4, <2>5, Sizes
  <2> QED BY <2>1, <2>6, <1>3, ModReduceGood, Zenon DEF x
<1> QED BY <1>1, <1>2, <1>3, Zenon

-----------------------------------------------------------------------------
(* Manual rescaling: every prime is 1 modulo T, and so is every factor.    *)

LEMMA OneIsUnit == 1 \in Units /\ 1 \in Residues /\ ModMul(1, 1) = 1 /\ ModDiv(1, 1) = 1
<1>1. 1 \in Units
  BY ModulusAssumption DEF Units
<1> QED BY <1>1, UnitsGroup, MulOne, Zenon

LEMMA ManualFacts ==
    ASSUME NEW c, GoodManual(c)
    PROVE  /\ Regular(c) /\ c.level \in Nat /\ c.towers \in Nat /\ c.deg \in Nat
           /\ c.deg <= c.towers /\ c.level + c.towers = SizeQ
<1>1. /\ c \in Ciphertext /\ c.level \in 0 .. SizeQ /\ c.towers \in 0 .. SizeQ /\ c.deg \in Nat
      /\ c.level + c.towers = SizeQ /\ c.level + c.deg <= SizeQ /\ c.sf = 1 /\ c.scale = 1
  BY Zenon DEF GoodManual, Ciphertext
<1> QED BY <1>1, OneIsUnit, Sizes DEF Regular

LEMMA ManualReduce ==
    ASSUME Manual, NEW c, GoodManual(c), NEW n \in Nat, n < c.deg
    PROVE  GoodManual(ModReduceInternalInPlace(c, n))
<1> DEFINE x == ModReduceInternalInPlace(c, n)
           P == Product(QModt, c.towers - n, c.towers - 1)
<1>1. /\ Regular(c) /\ c.level \in Nat /\ c.towers \in Nat /\ c.deg \in Nat
      /\ c.deg <= c.towers /\ c.level + c.towers = SizeQ
      /\ c.sf = 1 /\ c.scale = 1 /\ c.fault = {} /\ c.level + c.deg <= SizeQ
  BY ManualFacts, Zenon DEF GoodManual
<1>2. n < c.towers /\ n <= c.deg /\ c.deg - n >= 1 /\ c.level + n + (c.deg - n) <= SizeQ
      /\ c.towers - n \in Int /\ c.towers - 1 \in Int /\ c.towers - 1 >= (c.towers - n) - 1
      /\ \A i \in (c.towers - n) .. (c.towers - 1) : i \in 0 .. (SizeQ - 1)
  BY <1>1, Sizes
<1>3. P = 1
  <2>1. ~Flexible
    BY Sizes, Zenon
  <2>2. \A i \in (c.towers - n) .. (c.towers - 1) : QModt[i] \in {1}
    BY <1>2, <2>1, PrimesAssumption, Zenon
  <2>3. P \in {1}
    BY <1>2, <2>2, ProductUnits, Zenon
  <2> QED BY <2>3, Zenon
<1>4. /\ Regular(x)
      /\ x.level = c.level + n /\ x.towers = c.towers - n
      /\ x.deg = c.deg - n /\ x.fault = c.fault
      /\ x.sf = ModDiv(c.sf, P) /\ x.scale = ModDiv(c.scale, P)
  BY <1>1, <1>2, ModReduceFields, Zenon
<1> HIDE DEF x, P
<1>5. x.sf = 1 /\ x.scale = 1
  BY <1>1, <1>3, <1>4, OneIsUnit, Zenon
<1>6. GoodManual(x)
  BY <1>1, <1>2, <1>4, <1>5, Zenon DEF GoodManual, Regular
<1> QED BY <1>6, Zenon DEF x

LEMMA ManualLevelReduce ==
    ASSUME Manual, NEW c, GoodManual(c), NEW n \in Nat, n < c.towers
    PROVE  LET x == LevelReduceInternalInPlace(c, n)
           IN  /\ x.towers = c.towers - n /\ x.level = c.level + n /\ x.deg = c.deg
               /\ x.towers \in Nat /\ x.level \in Nat /\ x.deg \in Nat
               /\ x.level + x.deg <= SizeQ => GoodManual(x)
<1> DEFINE x == LevelReduceInternalInPlace(c, n)
<1>1. Regular(c) /\ c.sf = 1 /\ c.scale = 1 /\ c.fault = {} /\ c.deg >= 1
  BY ManualFacts, Zenon DEF GoodManual
<1>2. /\ Regular(x)
      /\ x.level = c.level + n /\ x.towers = c.towers - n
      /\ x.deg = c.deg /\ x.fault = c.fault /\ x.sf = c.sf /\ x.scale = c.scale
  BY <1>1, LevelReduceFields, Zenon
<1> HIDE DEF x
<1>3. x.towers \in Nat /\ x.level \in Nat /\ x.deg \in Nat
  BY <1>2, RegularFacts, Zenon
<1>4. x.level + x.deg <= SizeQ => GoodManual(x)
  BY <1>1, <1>2, ZenonT(60) DEF GoodManual, Regular
<1> QED BY <1>2, <1>3, <1>4, Zenon DEF x

\* The two operands get the same towers, and stay good if the caller has left
\* each the towers it needs.
LEMMA ManualOperands ==
    ASSUME Manual, NEW c, NEW d, GoodManual(c), GoodManual(d)
    PROVE  LET p == AdjustLevelsInPlace(c, d)
           IN  /\ p[1].towers = p[2].towers /\ p[1].level = p[2].level
               /\ p[1].level \in Nat /\ p[1].deg \in Nat /\ p[2].deg \in Nat
               /\ p[1].deg >= 1 /\ p[2].deg >= 1
               /\ p[1].level + p[1].deg <= SizeQ => GoodManual(p[1])
               /\ p[2].level + p[2].deg <= SizeQ => GoodManual(p[2])
<1>1. /\ c.level \in Nat /\ c.towers \in Nat /\ c.deg \in Nat
      /\ c.deg <= c.towers /\ c.level + c.towers = SizeQ
      /\ d.level \in Nat /\ d.towers \in Nat /\ d.deg \in Nat
      /\ d.deg <= d.towers /\ d.level + d.towers = SizeQ
      /\ c.deg >= 1 /\ d.deg >= 1 /\ SizeQ \in Nat
  BY ManualFacts, Sizes, Zenon DEF GoodManual
<1> DEFINE x == LevelReduceInternalInPlace(c, c.towers - d.towers)
           y == LevelReduceInternalInPlace(d, d.towers - c.towers)
<1>2. CASE c.towers > d.towers
  <2>1. c.towers - d.towers \in Nat /\ c.towers - d.towers < c.towers
        /\ c.towers - (c.towers - d.towers) = d.towers
        /\ c.level + (c.towers - d.towers) = d.level /\ ~(d.towers > c.towers)
    BY <1>1, <1>2
  <2>2. /\ x.towers = d.towers /\ x.level = d.level /\ x.deg = c.deg
        /\ x.level + x.deg <= SizeQ => GoodManual(x)
    BY <2>1, ManualLevelReduce, Zenon
  <2>3. AdjustLevelsInPlace(c, d) = <<x, d>>
    BY <2>1, <1>2, Zenon DEF AdjustLevelsInPlace
  <2> HIDE DEF x
  <2> QED BY <2>2, <2>3, <1>1
<1>3. CASE d.towers > c.towers
  <2>1. d.towers - c.towers \in Nat /\ d.towers - c.towers < d.towers
        /\ d.towers - (d.towers - c.towers) = c.towers
        /\ d.level + (d.towers - c.towers) = c.level /\ ~(c.towers > d.towers)
    BY <1>1, <1>3
  <2>2. /\ y.towers = c.towers /\ y.level = c.level /\ y.deg = d.deg
        /\ y.level + y.deg <= SizeQ => GoodManual(y)
    BY <2>1, ManualLevelReduce, Zenon
  <2>3. AdjustLevelsInPlace(c, d) = <<c, y>>
    BY <2>1, <1>3, Zenon DEF AdjustLevelsInPlace
  <2> HIDE DEF y
  <2> QED BY <2>2, <2>3, <1>1
<1>4. CASE c.towers = d.towers
  <2>1. AdjustLevelsInPlace(c, d) = <<c, d>>
    BY <1>1, <1>4 DEF AdjustLevelsInPlace
  <2>2. c.level = d.level
    BY <1>1, <1>4
  <2> QED BY <2>1, <2>2, <1>1, <1>4
<1>5. c.towers > d.towers \/ d.towers > c.towers \/ c.towers = d.towers
  <2>1. c.towers \in Nat /\ d.towers \in Nat
    BY <1>1, ZenonT(60)
  <2> QED BY <2>1, SMTT(60)
<1> QED BY <1>2, <1>3, <1>4, <1>5, ZenonT(60)

LEMMA ManualAddGood ==
    ASSUME NEW x, NEW y, GoodManual(x), GoodManual(y), x.towers = y.towers
    PROVE  GoodManual(EvalAddCore(x, y))
<1> DEFINE c == EvalAddCore(x, y)
           mx == Max2(x.depth, y.depth)
<1>1. x.depth \in Nat /\ y.depth \in Nat
  BY ManualFacts, RegularFacts, Zenon
<1>2. mx \in Nat
  BY <1>1, MaxFacts, Zenon
<1>3. x.scale = y.scale /\ x.fault = {} /\ y.fault = {} /\ x \in Ciphertext
  BY Zenon DEF GoodManual
<1>4. c = [x EXCEPT !.depth = mx, !.fault = {}]
  BY <1>3, Zenon DEF EvalAddCore, Faulty
<1> HIDE DEF c, mx
<1>5. /\ c \in Ciphertext
      /\ c.level = x.level /\ c.towers = x.towers /\ c.deg = x.deg
      /\ c.sf = x.sf /\ c.scale = x.scale /\ c.fault = {}
  BY <1>2, <1>3, <1>4, Zenon DEF Ciphertext
<1>6. GoodManual(c)
  BY <1>5, Zenon DEF GoodManual
<1> QED BY <1>6, Zenon DEF c

LEMMA ManualMultGood ==
    ASSUME Manual, NEW x, NEW y, GoodManual(x), GoodManual(y), x.towers = y.towers,
           WithinDepth(EvalMultCore(x, y))
    PROVE  GoodManual(EvalMultCore(x, y))
<1> DEFINE c == EvalMultCore(x, y)
<1>1. x.deg \in Nat /\ y.deg \in Nat /\ x.deg >= 1 /\ y.deg >= 1
  BY ManualFacts, Zenon DEF GoodManual
<1>2. /\ x.fault = {} /\ y.fault = {} /\ x \in Ciphertext
      /\ x.sf = 1 /\ y.sf = 1 /\ x.scale = 1 /\ y.scale = 1
  BY Zenon DEF GoodManual
<1>3. c = [x EXCEPT !.deg = x.deg + y.deg, !.sf = 1, !.scale = 1, !.depth = 0, !.fault = {}]
  BY <1>2, OneIsUnit, Zenon DEF EvalMultCore, Faulty
<1>4. c.level + c.deg <= SizeQ
  BY Zenon DEF WithinDepth
<1> HIDE DEF c
<1>5. x.deg + y.deg \in Nat /\ x.deg + y.deg >= 1
  BY <1>1
<1>6. /\ c \in Ciphertext
      /\ c.level = x.level /\ c.towers = x.towers /\ c.deg = x.deg + y.deg
      /\ c.sf = 1 /\ c.scale = 1 /\ c.fault = {}
  BY <1>2, <1>3, <1>5, OneIsUnit, Zenon DEF Ciphertext
<1>7. GoodManual(c)
  BY <1>4, <1>5, <1>6, Zenon DEF GoodManual
<1> QED BY <1>7, Zenon DEF c

LEMMA ManualPlaintext ==
    ASSUME Manual, NEW pt \in Plaintexts
    PROVE  GoodManual(pt)
<1>1. ~Flexible
  BY Sizes, Zenon
<1>2. pt = [level |-> 0, towers |-> SizeQ, deg |-> 1, sf |-> 1, scale |-> 1,
            depth |-> 0, fault |-> {}]
  BY <1>1 DEF Plaintexts, MakePlaintext
<1>3. 0 \in 0 .. SizeQ /\ SizeQ \in 0 .. SizeQ /\ 0 + SizeQ = SizeQ /\ 0 + 1 <= SizeQ
  BY Sizes
<1>4. pt \in Ciphertext
  BY <1>2, <1>3, OneIsUnit, Zenon DEF Ciphertext
<1> QED BY <1>2, <1>3, <1>4 DEF GoodManual

-----------------------------------------------------------------------------
(* The calls, whoever rescales.                                            *)

LEMMA GoodRegular ==
    ASSUME NEW c, Good(c)
    PROVE  /\ Regular(c) /\ c \in Ciphertext /\ c.level + c.towers = SizeQ
           /\ c.deg \in Nat /\ c.deg >= 1 /\ c.deg <= c.towers /\ c.towers \in Nat
           /\ c.scale = c.sf /\ c.fault = {}
<1>1. CASE Manual
  <2>1. GoodManual(c)
    BY <1>1, Zenon DEF Good
  <2> QED BY <2>1, ManualFacts, Zenon DEF GoodManual
<1>2. CASE ~Manual
  <2>1. GoodAuto(c)
    BY <1>2, Zenon DEF Good
  <2> QED BY <2>1, AutoFacts DEF GoodAuto
<1> QED BY <1>1, <1>2, Zenon

LEMMA PlaintextGood ==
    ASSUME Flexible => PlaintextLevels \subseteq {0}, NEW pt \in Plaintexts, WithinDepth(pt)
    PROVE  Good(pt)
BY AutoPlaintext, ManualPlaintext, Zenon DEF Good

\* A sum the caller can pay for, and both operands as they are left.
LEMMA SumGood ==
    ASSUME NEW c, NEW d, Good(c), Good(d), Payable(AdjustForAddOrSubInPlace(c, d))
    PROVE  LET p == AdjustForAddOrSubInPlace(c, d)
           IN  Good(p[1]) /\ Good(p[2]) /\ Good(SumOf(p))
<1> DEFINE p == AdjustForAddOrSubInPlace(c, d)
<1>1. CASE Manual
  <2>1. GoodManual(c) /\ GoodManual(d) /\ p = AdjustLevelsInPlace(c, d)
    BY <1>1, Zenon DEF Good, AdjustForAddOrSubInPlace
  <2>2. /\ p[1].towers = p[2].towers
        /\ p[1].level + p[1].deg <= SizeQ => GoodManual(p[1])
        /\ p[2].level + p[2].deg <= SizeQ => GoodManual(p[2])
    BY <1>1, <2>1, ManualOperands, Zenon
  <2> HIDE DEF p
  <2>3. Payable(p)
    BY Zenon DEF p
  <2>4. WithinDepth(p[1]) /\ WithinDepth(p[2])
    BY <2>3, <1>1, Zenon DEF Payable
  <2>5. GoodManual(p[1]) /\ GoodManual(p[2])
    BY <2>2, <2>4, <1>1, Zenon DEF WithinDepth
  <2>6. GoodManual(EvalAddCore(p[1], p[2]))
    BY <2>2, <2>5, ManualAddGood, Zenon
  <2> QED BY <2>5, <2>6, <1>1, Zenon DEF Good, SumOf, p
<1>2. CASE ~Manual
  <2>1. GoodAuto(c) /\ GoodAuto(d) /\ p = AdjustLevelsAndDepthInPlace(c, d)
    BY <1>2, Zenon DEF Good, AdjustForAddOrSubInPlace
  <2>2. GoodAuto(p[1]) /\ GoodAuto(p[2]) /\ p[1].level = p[2].level /\ p[1].deg = p[2].deg
    BY <2>1, AutoAddOperands, Zenon
  <2> HIDE DEF p
  <2>3. GoodAuto(EvalAddCore(p[1], p[2]))
    BY <2>2, AutoAddGood, Zenon
  <2> QED BY <2>2, <2>3, <1>2, Zenon DEF Good, SumOf, p
<1> QED BY <1>1, <1>2, Zenon

\* A product within depth, and both operands as they are left.
LEMMA ProductGood ==
    ASSUME NEW c, NEW d, Good(c), Good(d), WithinDepth(ProductOf(AdjustForMultInPlace(c, d)))
    PROVE  LET p == AdjustForMultInPlace(c, d)
           IN  Good(p[1]) /\ Good(p[2]) /\ Good(ProductOf(p))
<1> DEFINE p == AdjustForMultInPlace(c, d)
<1>1. CASE Manual
  <2>1. GoodManual(c) /\ GoodManual(d) /\ p = AdjustLevelsInPlace(c, d)
    BY <1>1, Zenon DEF Good, AdjustForMultInPlace
  <2>2. /\ p[1].towers = p[2].towers /\ p[1].level = p[2].level
        /\ p[1].level \in Nat /\ p[1].deg \in Nat /\ p[2].deg \in Nat
        /\ p[1].deg >= 1 /\ p[2].deg >= 1
        /\ p[1].level + p[1].deg <= SizeQ => GoodManual(p[1])
        /\ p[2].level + p[2].deg <= SizeQ => GoodManual(p[2])
    BY <1>1, <2>1, ManualOperands, Zenon
  <2>3. p[1] = AdjustLevelsInPlace(c, d)[1]
    BY <2>1, Zenon
  <2>4. p[1] \in Ciphertext
    <3>1. p[1] = IF c.towers > d.towers
                 THEN LevelReduceInternalInPlace(c, c.towers - d.towers) ELSE c
      BY <2>3, Zenon DEF AdjustLevelsInPlace
    <3>2. Regular(c) /\ c.towers \in Nat /\ d.towers \in Nat /\ d.towers >= 1
      BY GoodRegular
    <3>3. CASE c.towers > d.towers
      <4>1. c.towers - d.towers \in Nat /\ c.towers - d.towers < c.towers
        BY <3>2, <3>3
      <4>2. Regular(LevelReduceInternalInPlace(c, c.towers - d.towers))
        BY <3>2, <4>1, LevelReduceFields, Zenon
      <4> QED BY <3>1, <3>3, <4>2, Zenon DEF Regular
    <3>4. CASE ~(c.towers > d.towers)
      BY <3>1, <3>2, <3>4, Zenon DEF Regular
    <3> QED BY <3>3, <3>4, Zenon
  <2> HIDE DEF p
  <2>5. WithinDepth(EvalMultCore(p[1], p[2]))
    BY Zenon DEF p, ProductOf
  <2>6. p[1].level + (p[1].deg + p[2].deg) <= SizeQ
    <3>1. EvalMultCore(p[1], p[2]).level = p[1].level
          /\ EvalMultCore(p[1], p[2]).deg = p[1].deg + p[2].deg
      BY <2>4, ZenonT(60) DEF EvalMultCore, Ciphertext
    <3> QED BY <3>1, <2>5, <1>1, Zenon DEF WithinDepth
  <2>7. p[1].level + p[1].deg <= SizeQ /\ p[2].level + p[2].deg <= SizeQ
    <3>1. /\ p[1].level \in Nat /\ p[2].level = p[1].level
          /\ p[1].deg \in Nat /\ p[2].deg \in Nat
      BY <2>2, ZenonT(60)
    <3> QED BY <3>1, <2>6, Sizes, SMTT(60)
  <2>8. GoodManual(p[1]) /\ GoodManual(p[2])
    BY <2>2, <2>7, Zenon
  <2>9. GoodManual(EvalMultCore(p[1], p[2]))
    BY <2>2, <2>5, <2>8, <1>1, ManualMultGood, Zenon
  <2> QED BY <2>8, <2>9, <1>1, Zenon DEF Good, ProductOf, p
<1>2. CASE ~Manual
  <2>1. GoodAuto(c) /\ GoodAuto(d)
    BY <1>2, Zenon DEF Good
  <2>2. /\ GoodAuto(p[1]) /\ GoodAuto(p[2])
        /\ p[1].level = p[2].level /\ p[1].deg = 1 /\ p[2].deg = 1
    BY <1>2, <2>1, AutoMultOperands, Zenon
  <2>3. WithinDepth(EvalMultCore(p[1], p[2]))
    BY Zenon DEF ProductOf
  <2> HIDE DEF p
  <2>4. GoodAuto(EvalMultCore(p[1], p[2]))
    BY <1>2, <2>2, <2>3, AutoMultGood, Zenon
  <2> QED BY <2>2, <2>4, <1>2, Zenon DEF Good, ProductOf, p
<1> QED BY <1>1, <1>2, Zenon

LEMMA SquareGood ==
    ASSUME NEW c, Good(c), WithinDepth(ProductOf(Twice(RescaleBeforeSquare(c))))
    PROVE  Good(ProductOf(Twice(RescaleBeforeSquare(c))))
<1> DEFINE x == RescaleBeforeSquare(c)
<1>1. ProductOf(Twice(x)) = EvalMultCore(x, x)
  BY Zenon DEF ProductOf, Twice
<1>2. WithinDepth(EvalMultCore(x, x))
  BY <1>1, Zenon
<1>3. CASE Manual
  <2>1. GoodManual(c) /\ x = c
    BY <1>3, Zenon DEF Good, RescaleBeforeSquare
  <2>2. GoodManual(EvalMultCore(c, c))
    BY <1>2, <1>3, <2>1, ManualMultGood, Zenon
  <2> QED BY <1>1, <2>1, <2>2, <1>3, Zenon DEF Good
<1>4. CASE ~Manual
  <2>1. GoodAuto(c)
    BY <1>4, Zenon DEF Good
  <2>2. GoodAuto(x) /\ x.deg = 1
    BY <1>2, <1>4, <2>1, AutoSquare, Zenon
  <2> HIDE DEF x
  <2>3. GoodAuto(EvalMultCore(x, x))
    BY <1>2, <1>4, <2>2, AutoMultGood, Zenon
  <2> QED BY <1>1, <2>3, <1>4, Zenon DEF Good, x
<1> QED BY <1>3, <1>4, Zenon

\* What Compress sends keeps a tower and the true factor.
LEMMA CompressGood ==
    ASSUME NEW c, Good(c), NEW n \in 1 .. SizeQ
    PROVE  LET x == ModReduceInternalInPlace(c, Max2(c.deg - 1, 0))
           IN  GoodSent(IF n < x.towers THEN LevelReduceInternalInPlace(x, x.towers - n) ELSE x)
<1> DEFINE m == Max2(c.deg - 1, 0)
           x == ModReduceInternalInPlace(c, m)
<1>1. /\ Regular(c) /\ c.deg \in Nat /\ c.deg >= 1 /\ c.deg <= c.towers /\ c.towers \in Nat
      /\ c.scale = c.sf
  BY GoodRegular, Zenon
<1>2. m \in Nat /\ m < c.towers /\ m <= c.deg /\ c.towers - m >= 1
  BY <1>1, SMTT(60) DEF Max2
<1> HIDE DEF m
<1>3. Regular(x) /\ x.towers = c.towers - m /\ x.scale = x.sf
  BY <1>1, <1>2, ModReduceFields, SMTT(60)
<1> HIDE DEF x
<1>4. x.towers >= 1 /\ x.towers \in Nat /\ n \in Nat /\ n >= 1
  BY <1>2, <1>3, RegularFacts, Sizes, SMTT(60)
<1>5. CASE n < x.towers
  <2> DEFINE z == LevelReduceInternalInPlace(x, x.towers - n)
  <2>1. x.towers - n \in Nat /\ x.towers - n < x.towers /\ x.towers - (x.towers - n) = n
    BY <1>4, <1>5
  <2>2. Regular(z) /\ z.towers = n /\ z.sf = x.sf /\ z.scale = x.scale
    BY <1>3, <2>1, LevelReduceFields, Zenon
  <2> HIDE DEF z
  <2>3. GoodSent(z)
    BY <2>2, <1>3, <1>4, Zenon DEF GoodSent, Regular
  <2> QED BY <2>3, <1>5, Zenon DEF z, x, m
<1>6. CASE ~(n < x.towers)
  <2>1. GoodSent(x)
    BY <1>3, <1>4, Zenon DEF GoodSent, Regular
  <2> QED BY <2>1, <1>6, Zenon DEF x, m
<1> QED BY <1>5, <1>6, Zenon

LEMMA ReduceGood ==
    ASSUME NEW c, Good(c), NEW n \in 1 .. SizeQ
    PROVE  /\ (Manual => n < c.deg)
              => Good(IF Manual THEN ModReduceInternalInPlace(c, n) ELSE c)
           /\ LET x == IF Manual THEN LevelReduceInternalInPlace(c, n) ELSE c
              IN  (Manual => n < c.towers) /\ WithinDepth(x) => Good(x)
<1>1. n \in Nat
  BY Sizes
<1>2. CASE Manual
  <2>1. GoodManual(c)
    BY <1>2, Zenon DEF Good
  <2>2. n < c.deg => GoodManual(ModReduceInternalInPlace(c, n))
    BY <1>1, <1>2, <2>1, ManualReduce, Zenon
  <2> DEFINE x == LevelReduceInternalInPlace(c, n)
  <2>3. n < c.towers => (x.level + x.deg <= SizeQ => GoodManual(x))
    BY <1>1, <1>2, <2>1, ManualLevelReduce, Zenon
  <2> HIDE DEF x
  <2>4. n < c.towers /\ WithinDepth(x) => GoodManual(x)
    BY <1>2, <2>3, Zenon DEF WithinDepth
  <2> QED BY <1>2, <2>2, <2>4, Zenon DEF Good, x
<1>3. CASE ~Manual
  BY <1>3, Zenon
<1> QED BY <1>2, <1>3, Zenon

-----------------------------------------------------------------------------
\* Assigning good ciphertexts to variables keeps the store good.
LEMMA StoreUpdate ==
    ASSUME NEW f, Store(f), NEW r \in Regs, NEW c, Good(c)
    PROVE  Store([f EXCEPT ![r] = c])
<1>1. c \in Ciphertext
  BY GoodRegular, Zenon
<1> QED BY <1>1, Zenon DEF Store

LEMMA StoreUpdates ==
    ASSUME NEW f, Store(f), NEW a \in Regs, NEW r \in Regs,
           NEW x, NEW c, Good(x), Good(c)
    PROVE  Store([f EXCEPT ![a] = x, ![r] = c])
<1>1. Store([f EXCEPT ![a] = x])
  BY StoreUpdate, Zenon
<1>2. Store([[f EXCEPT ![a] = x] EXCEPT ![r] = c])
  BY <1>1, StoreUpdate, Zenon
<1> QED BY <1>2, Zenon DEF Store

LEMMA StoreAll ==
    ASSUME NEW f, Store(f), NEW a \in Regs, NEW b \in Regs, NEW r \in Regs,
           NEW x, NEW y, NEW c, Good(x), Good(y), Good(c)
    PROVE  Store([f EXCEPT ![a] = x, ![b] = y, ![r] = c])
<1> DEFINE g == [f EXCEPT ![a] = x]
<1>1. Store(g)
  BY StoreUpdate, Zenon
<1>2. [f EXCEPT ![a] = x, ![b] = y, ![r] = c] = [g EXCEPT ![b] = y, ![r] = c]
  BY Zenon
<1> HIDE DEF g
<1>3. Store([g EXCEPT ![b] = y, ![r] = c])
  BY <1>1, StoreUpdates, Zenon
<1> QED BY <1>2, <1>3, Zenon

\* The three ways a sum is stored.
LEMMA SumStored ==
    ASSUME Store(ct), NEW a \in Regs, NEW b \in Regs, NEW r \in Regs,
           NEW c, NEW d, Good(c), Good(d),
           \/ StoreSum(r, AdjustForAddOrSubInPlace(c, d))
           \/ StoreSumAndFirst(a, r, AdjustForAddOrSubInPlace(c, d))
           \/ StoreSumAndBoth(a, b, r, AdjustForAddOrSubInPlace(c, d))
    PROVE  Store(ct')
<1> DEFINE p == AdjustForAddOrSubInPlace(c, d)
<1>1. Payable(p)
  BY Zenon DEF StoreSum, StoreSumAndFirst, StoreSumAndBoth
<1>2. Good(p[1]) /\ Good(p[2]) /\ Good(SumOf(p))
  BY <1>1, SumGood, Zenon
<1> HIDE DEF p
<1>3. \/ ct' = [ct EXCEPT ![r] = SumOf(p)]
      \/ ct' = [ct EXCEPT ![a] = p[1], ![r] = SumOf(p)]
      \/ ct' = [ct EXCEPT ![a] = p[1], ![b] = p[2], ![r] = SumOf(p)]
  BY Zenon DEF StoreSum, StoreSumAndFirst, StoreSumAndBoth, p
<1>4. CASE ct' = [ct EXCEPT ![r] = SumOf(p)]
  BY <1>2, <1>4, StoreUpdate, Zenon
<1>5. CASE ct' = [ct EXCEPT ![a] = p[1], ![r] = SumOf(p)]
  BY <1>2, <1>5, StoreUpdates, Zenon
<1>6. CASE ct' = [ct EXCEPT ![a] = p[1], ![b] = p[2], ![r] = SumOf(p)]
  BY <1>2, <1>6, StoreAll, ZenonT(60)
<1> QED BY <1>3, <1>4, <1>5, <1>6, Zenon

\* The three ways a product is stored.
LEMMA ProductStored ==
    ASSUME Store(ct), NEW a \in Regs, NEW b \in Regs, NEW r \in Regs,
           NEW c, NEW d, Good(c), Good(d),
           \/ StoreProduct(r, AdjustForMultInPlace(c, d))
           \/ StoreProductAndFirst(a, r, AdjustForMultInPlace(c, d))
           \/ StoreProductAndBoth(a, b, r, AdjustForMultInPlace(c, d))
    PROVE  Store(ct')
<1> DEFINE p == AdjustForMultInPlace(c, d)
<1>1. WithinDepth(ProductOf(p))
  BY Zenon DEF StoreProduct, StoreProductAndFirst, StoreProductAndBoth
<1>2. Good(p[1]) /\ Good(p[2]) /\ Good(ProductOf(p))
  BY <1>1, ProductGood, Zenon
<1> HIDE DEF p
<1>3. \/ ct' = [ct EXCEPT ![r] = ProductOf(p)]
      \/ ct' = [ct EXCEPT ![a] = p[1], ![r] = ProductOf(p)]
      \/ ct' = [ct EXCEPT ![a] = p[1], ![b] = p[2], ![r] = ProductOf(p)]
  BY ZenonT(60) DEF StoreProduct, StoreProductAndFirst, StoreProductAndBoth, p
<1>4. CASE ct' = [ct EXCEPT ![r] = ProductOf(p)]
  BY <1>2, <1>4, StoreUpdate, Zenon
<1>5. CASE ct' = [ct EXCEPT ![a] = p[1], ![r] = ProductOf(p)]
  BY <1>2, <1>5, StoreUpdates, Zenon
<1>6. CASE ct' = [ct EXCEPT ![a] = p[1], ![b] = p[2], ![r] = ProductOf(p)]
  BY <1>2, <1>6, StoreAll, Zenon
<1> QED BY <1>3, <1>4, <1>5, <1>6, Zenon

LEMMA HeldGood ==
    ASSUME Store(ct), NEW a \in Regs, Holds(a)
    PROVE  Good(ct[a])
BY Zenon DEF Store, Holds

\* Calls on two ciphertexts.
LEMMA BinaryCallGood ==
    ASSUME Store(ct), NEW a \in Regs, NEW b \in Regs, NEW r \in Regs,
           \/ EvalAdd(a, b, r) \/ EvalAddMutable(a, b, r)
           \/ EvalMult(a, b, r) \/ EvalMultMutable(a, b, r)
    PROVE  Store(ct') /\ sent' = sent
<1>1. Holds(a) /\ Holds(b) /\ sent' = sent
  BY Zenon DEF EvalAdd, EvalAddMutable, EvalMult, EvalMultMutable
<1>2. Good(ct[a]) /\ Good(ct[b])
  BY <1>1, HeldGood, Zenon
<1>3. CASE EvalAdd(a, b, r) \/ EvalAddMutable(a, b, r)
  <2>1. \/ StoreSum(r, AdjustForAddOrSubInPlace(ct[a], ct[b]))
        \/ StoreSumAndBoth(a, b, r, AdjustForAddOrSubInPlace(ct[a], ct[b]))
    BY <1>3, Zenon DEF EvalAdd, EvalAddMutable
  <2> QED BY <2>1, <1>1, <1>2, SumStored, Zenon
<1>4. CASE EvalMult(a, b, r) \/ EvalMultMutable(a, b, r)
  <2>1. \/ StoreProduct(r, AdjustForMultInPlace(ct[a], ct[b]))
        \/ StoreProductAndBoth(a, b, r, AdjustForMultInPlace(ct[a], ct[b]))
    BY <1>4, Zenon DEF EvalMult, EvalMultMutable
  <2> QED BY <2>1, <1>1, <1>2, ProductStored, Zenon
<1> QED BY <1>3, <1>4, Zenon

\* Calls on one ciphertext, alone or with a plaintext.
LEMMA UnaryCallGood ==
    ASSUME Flexible => PlaintextLevels \subseteq {0}, Store(ct), NEW a \in Regs, NEW r \in Regs,
           \/ EvalAddPlaintext(a, r) \/ EvalAddMutablePlaintext(a, r)
           \/ EvalMultPlaintext(a, r) \/ EvalMultMutablePlaintext(a, r)
           \/ EvalSquare(a, r)
    PROVE  Store(ct') /\ sent' = sent
<1>1. Holds(a) /\ sent' = sent
  BY Zenon DEF EvalAddPlaintext, EvalAddMutablePlaintext, EvalMultPlaintext,
         EvalMultMutablePlaintext, EvalSquare
<1>2. Good(ct[a])
  BY <1>1, HeldGood, Zenon
<1>3. CASE EvalAddPlaintext(a, r) \/ EvalAddMutablePlaintext(a, r)
  <2>1. PICK pt \in Plaintexts :
          /\ WithinDepth(pt)
          /\ \/ StoreSum(r, AdjustForAddOrSubInPlace(ct[a], pt))
             \/ StoreSumAndFirst(a, r, AdjustForAddOrSubInPlace(ct[a], pt))
    BY <1>3, Zenon DEF EvalAddPlaintext, EvalAddMutablePlaintext
  <2>2. Good(pt)
    BY <2>1, PlaintextGood, ZenonT(60)
  <2> QED BY <2>1, <2>2, <1>1, <1>2, SumStored, Zenon
<1>4. CASE EvalMultPlaintext(a, r) \/ EvalMultMutablePlaintext(a, r)
  <2>1. PICK pt \in Plaintexts :
          /\ WithinDepth(pt)
          /\ \/ StoreProduct(r, AdjustForMultInPlace(ct[a], pt))
             \/ StoreProductAndFirst(a, r, AdjustForMultInPlace(ct[a], pt))
    BY <1>4, Zenon DEF EvalMultPlaintext, EvalMultMutablePlaintext
  <2>2. Good(pt)
    BY <2>1, PlaintextGood, Zenon
  <2> QED BY <2>1, <2>2, <1>1, <1>2, ProductStored, Zenon
<1>5. CASE EvalSquare(a, r)
  <2> DEFINE p == Twice(RescaleBeforeSquare(ct[a]))
  <2>1. WithinDepth(ProductOf(p)) /\ ct' = [ct EXCEPT ![r] = ProductOf(p)]
    BY <1>5, Zenon DEF EvalSquare, StoreProduct
  <2>2. Good(ProductOf(p))
    BY <2>1, <1>2, SquareGood, Zenon
  <2> HIDE DEF p
  <2> QED BY <2>1, <2>2, <1>1, StoreUpdate, Zenon
<1> QED BY <1>3, <1>4, <1>5, Zenon

-----------------------------------------------------------------------------
\* Whatever the scaling technique, every ciphertext of every program is good,
\* if the FLEXIBLE techniques are given plaintexts of level 0 only.
THEOREM AlwaysGood ==
    ASSUME Flexible => PlaintextLevels \subseteq {0}
    PROVE  Spec => []IInv
<1>1. Init => IInv
  BY Zenon DEF Init, IInv, Store
<1>2. IInv /\ [Next]_vars => IInv'
  <2> SUFFICES ASSUME IInv, [Next]_vars PROVE IInv'
    BY Zenon
  <2>1. ASSUME NEW r \in Regs, Encrypt(r) PROVE IInv'
    <3>1. PICK pt \in Plaintexts : WithinDepth(pt) /\ ct' = [ct EXCEPT ![r] = pt]
      BY <2>1, Zenon DEF Encrypt
    <3>2. Good(pt)
      BY <3>1, PlaintextGood, Zenon
    <3>3. Store(ct')
      BY <3>1, <3>2, StoreUpdate, Zenon DEF IInv
    <3> QED BY <3>3, <2>1, Zenon DEF IInv, Encrypt
  <2>2. ASSUME NEW a \in Regs, NEW b \in Regs, NEW r \in Regs,
               \/ EvalAdd(a, b, r) \/ EvalAddMutable(a, b, r)
               \/ EvalMult(a, b, r) \/ EvalMultMutable(a, b, r)
        PROVE  IInv'
    BY <2>2, BinaryCallGood, Zenon DEF IInv
  <2>3. ASSUME NEW a \in Regs, NEW r \in Regs,
               \/ EvalAddPlaintext(a, r) \/ EvalAddMutablePlaintext(a, r)
               \/ EvalMultPlaintext(a, r) \/ EvalMultMutablePlaintext(a, r)
               \/ EvalSquare(a, r)
        PROVE  IInv'
    BY <2>3, UnaryCallGood, Zenon DEF IInv
  <2>4. ASSUME NEW a \in Regs, NEW r \in Regs, NEW n \in 1 .. SizeQ,
               ModReduce(a, r, n) \/ LevelReduce(a, r, n)
        PROVE  IInv'
    <3> DEFINE x == IF Manual THEN ModReduceInternalInPlace(ct[a], n) ELSE ct[a]
               y == IF Manual THEN LevelReduceInternalInPlace(ct[a], n) ELSE ct[a]
    <3>1. Good(ct[a]) /\ sent' = sent
      BY <2>4, HeldGood, Zenon DEF IInv, ModReduce, LevelReduce
    <3>2. CASE ModReduce(a, r, n)
      <4>1. ct' = [ct EXCEPT ![r] = x] /\ (Manual => n < ct[a].deg)
        BY <3>2, Zenon DEF ModReduce
      <4>2. Good(x)
        BY <4>1, <3>1, ReduceGood, Zenon
      <4> HIDE DEF x
      <4>3. Store(ct')
        BY <4>1, <4>2, StoreUpdate, ZenonT(60) DEF IInv
      <4> QED BY <4>3, <3>1, Zenon DEF IInv
    <3>3. CASE LevelReduce(a, r, n)
      <4>1. ct' = [ct EXCEPT ![r] = y] /\ (Manual => n < ct[a].towers) /\ WithinDepth(y)
        BY <3>3, Zenon DEF LevelReduce
      <4>2. Good(y)
        BY <4>1, <3>1, ReduceGood, Zenon
      <4> HIDE DEF y
      <4>3. Store(ct')
        BY <4>1, <4>2, StoreUpdate, Zenon DEF IInv
      <4> QED BY <4>3, <3>1, Zenon DEF IInv
    <3> QED BY <2>4, <3>2, <3>3, Zenon
  <2>5. ASSUME NEW a \in Regs, NEW n \in 1 .. SizeQ, Compress(a, n) PROVE IInv'
    <3> DEFINE x == ModReduceInternalInPlace(ct[a], Max2(ct[a].deg - 1, 0))
               z == IF n < x.towers THEN LevelReduceInternalInPlace(x, x.towers - n) ELSE x
    <3>1. sent' = z /\ ct' = ct /\ Holds(a)
      BY <2>5, Zenon DEF Compress
    <3>2. Good(ct[a])
      BY <3>1, HeldGood, Zenon DEF IInv
    <3>3. GoodSent(z)
      BY <3>2, CompressGood, Zenon
    <3> HIDE DEF z
    <3> QED BY <3>1, <3>3, Zenon DEF IInv, GoodSent
  <2>6. CASE UNCHANGED vars
    BY <2>6, Zenon DEF IInv, vars
  <2> QED BY <2>1, <2>2, <2>3, <2>4, <2>5, <2>6, ZenonT(60) DEF Next
<1> QED BY <1>1, <1>2, PTL DEF Spec

\* What Decode divides by is invertible and what the message was multiplied by.
LEMMA Decrypts ==
    ASSUME NEW c, c.sf \in Units, c.scale = c.sf, c.towers \in 1 .. SizeQ
    PROVE  DecryptResult(c) # 0 /\ DecryptResult(c) = Decrypted(c)
<1> DEFINE P == Product(QModt, 1, c.towers - 1)
<1>1. 1 \in Int /\ c.towers - 1 \in Int /\ c.towers - 1 >= 1 - 1
      /\ \A i \in 1 .. (c.towers - 1) : i \in 0 .. (SizeQ - 1)
  BY Sizes
<1>2. \A i \in 1 .. (c.towers - 1) : QModt[i] \in Units
  BY <1>1, PrimesUnits, Zenon
<1>3. P \in Units
  BY <1>1, <1>2, ProductUnits, Zenon
<1>4. DecryptResult(c) = ModDiv(c.sf, P) /\ Decrypted(c) = ModDiv(c.sf, P)
  BY FactorsArePrimes, Zenon DEF DecryptResult, Decrypted
<1> HIDE DEF P
<1>5. ModDiv(c.sf, P) \in Units
  BY <1>3, UnitsGroup, Zenon
<1>6. ModDiv(c.sf, P) # 0
  BY <1>5, UnitsGroup, Zenon
<1> QED BY <1>4, <1>6, Zenon

\* The invariant gives every property of a good ciphertext.
LEMMA InvariantProperties ==
    ASSUME IInv
    PROVE  TypeOK /\ DecryptsToMessage /\ NoFault /\ RescaleHeadroom
<1>1. TypeOK
  BY Zenon DEF IInv, Store, TypeOK
<1>2. ASSUME NEW c \in Stored
      PROVE  /\ DecryptResult(c) # 0 /\ DecryptResult(c) = Decrypted(c)
             /\ c.fault = {} /\ c.deg \in 1 .. c.towers /\ c.level + c.towers = SizeQ
  <2>1. Good(c)
    BY HeldGood, Zenon DEF Stored, IInv
  <2>2. /\ Regular(c) /\ c.deg \in Nat /\ c.deg >= 1 /\ c.deg <= c.towers /\ c.towers \in Nat
        /\ c.scale = c.sf /\ c.fault = {} /\ c.level + c.towers = SizeQ
    BY <2>1, GoodRegular, Zenon
  <2>3. c.sf \in Units /\ c.towers <= SizeQ
    BY <2>2, RegularFacts, Zenon DEF Regular
  <2>4. c.towers \in 1 .. SizeQ /\ c.deg \in 1 .. c.towers
    BY <2>2, <2>3, Sizes, SMTT(60)
  <2> QED BY <2>2, <2>3, <2>4, Decrypts, Zenon
<1>3. ASSUME sent # Null
      PROVE  DecryptResult(sent) # 0 /\ DecryptResult(sent) = Decrypted(sent)
  <2>1. GoodSent(sent)
    BY <1>3, Zenon DEF IInv
  <2>2. sent.towers \in 0 .. SizeQ /\ sent.towers >= 1 /\ sent.sf \in Units /\ sent.scale = sent.sf
    BY <2>1, Zenon DEF GoodSent, Ciphertext
  <2>3. sent.towers \in 1 .. SizeQ
    BY <2>2, Sizes
  <2> QED BY <2>2, <2>3, Decrypts, Zenon
<1>4. DecryptsToMessage
  BY <1>2, <1>3, Zenon DEF DecryptsToMessage
<1> QED BY <1>1, <1>2, <1>4, Zenon DEF NoFault, RescaleHeadroom

\* Levels, towers and factors stay in range in every variable and in what
\* Compress sends.
THEOREM BGVTyped ==
    ASSUME Flexible => PlaintextLevels \subseteq {0}
    PROVE  Spec => []TypeOK
<1>1. IInv => TypeOK
  BY InvariantProperties, Zenon
<1> QED BY <1>1, AlwaysGood, PTL

\* The factor that Decrypt and Decode undo is invertible and is the one in the
\* ring elements, for every prime plaintext modulus, every residues of the
\* primes and every circuit within depth, under all four techniques.
THEOREM BGVDecryptsToMessage ==
    ASSUME Flexible => PlaintextLevels \subseteq {0}
    PROVE  Spec => []DecryptsToMessage
<1>1. IInv => DecryptsToMessage
  BY InvariantProperties, Zenon
<1> QED BY <1>1, AlwaysGood, PTL

\* No sum of unequal moduli or factors, and no exception for want of towers in
\* a circuit that keeps to the depth the context was generated for.
THEOREM BGVNoFault ==
    ASSUME Flexible => PlaintextLevels \subseteq {0}
    PROVE  Spec => []NoFault
<1>1. IInv => NoFault
  BY InvariantProperties, Zenon
<1> QED BY <1>1, AlwaysGood, PTL

\* The level is the number of primes gone, and the degree never exceeds the
\* number of towers, so every pending rescaling can be paid for.
THEOREM BGVRescaleHeadroom ==
    ASSUME Flexible => PlaintextLevels \subseteq {0}
    PROVE  Spec => []RescaleHeadroom
<1>1. IInv => RescaleHeadroom
  BY InvariantProperties, Zenon
<1> QED BY <1>1, AlwaysGood, PTL
=============================================================================
