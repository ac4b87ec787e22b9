---------------------------- MODULE RLWE_proofs -----------------------------
(***************************************************************************)
(* Elements form a commutative ring on which automorphisms act, and the    *)
(* identities of keys and ciphertexts that follow.  For ciphertexts of any *)
(* length: sums, powers, and what addition, subtraction and multiplication *)
(* of their elements do to the message.                                    *)
(***************************************************************************)
EXTENDS RLWE, TLAPS, NaturalsInduction, WellFoundedInduction

\* Sums, products, negations and images of elements are elements.
LEMMA ElementClosed ==
    /\ Zero \in Element
    /\ \A x, y \in Element : x \oplus y \in Element /\ x \otimes y \in Element
    /\ \A x \in Element : Negate(x) \in Element
    /\ \A x, y \in Element : x \ominus y \in Element
    /\ \A x \in Element, i \in Galois : AutomorphismTransform(x, i) \in Element
<1>1. Zero \in Element
  BY ScalarAssumption, Zenon DEF Zero, Element
<1>2. ASSUME NEW x \in Element, NEW y \in Element
      PROVE  x \oplus y \in Element /\ x \otimes y \in Element
  BY ScalarAssumption, Zenon DEF \oplus, \otimes, Element
<1>3. ASSUME NEW x \in Element PROVE Negate(x) \in Element
  BY ScalarAssumption, Zenon DEF Negate, Element
<1>4. ASSUME NEW x \in Element, NEW i \in Galois PROVE AutomorphismTransform(x, i) \in Element
  BY GaloisAssumption, Zenon DEF AutomorphismTransform, Element
<1>5. ASSUME NEW x \in Element, NEW y \in Element PROVE x \ominus y \in Element
  BY <1>2, <1>3, Zenon DEF \ominus
<1>6. QED
  BY <1>1, <1>2, <1>3, <1>4, <1>5, Zenon

\* Addition of elements is commutative, associative, with Zero and negatives.
LEMMA ElementGroup ==
    /\ \A x, y \in Element : x \oplus y = y \oplus x
    /\ \A x, y, z \in Element : (x \oplus y) \oplus z = x \oplus (y \oplus z)
    /\ \A x \in Element : x \oplus Zero = x /\ Zero \oplus x = x
    /\ \A x \in Element : Negate(x) \oplus x = Zero /\ x \oplus Negate(x) = Zero
<1>1. ASSUME NEW x \in Element, NEW y \in Element PROVE x \oplus y = y \oplus x
  BY ScalarAssumption, Zenon DEF \oplus, Element
<1>2. ASSUME NEW x \in Element, NEW y \in Element, NEW z \in Element
      PROVE  (x \oplus y) \oplus z = x \oplus (y \oplus z)
  BY ScalarAssumption DEF \oplus, Element
<1>3. ASSUME NEW x \in Element PROVE x \oplus Zero = x
  BY ScalarAssumption, Zenon DEF \oplus, Zero, Element
<1>4. ASSUME NEW x \in Element PROVE x \oplus Negate(x) = Zero
  BY ScalarAssumption, Zenon DEF \oplus, Zero, Negate, Element
<1>5. QED
  BY <1>1, <1>2, <1>3, <1>4, ElementClosed, Zenon

\* Multiplication of elements is commutative, associative and distributes.
LEMMA ElementRing ==
    /\ \A x, y \in Element : x \otimes y = y \otimes x
    /\ \A x, y, z \in Element : (x \otimes y) \otimes z = x \otimes (y \otimes z)
    /\ \A x, y, z \in Element : x \otimes (y \oplus z) = (x \otimes y) \oplus (x \otimes z)
    /\ \A x, y, z \in Element : (y \oplus z) \otimes x = (y \otimes x) \oplus (z \otimes x)
<1>1. ASSUME NEW x \in Element, NEW y \in Element PROVE x \otimes y = y \otimes x
  BY ScalarAssumption, Zenon DEF \otimes, Element
<1>2. ASSUME NEW x \in Element, NEW y \in Element, NEW z \in Element
      PROVE  (x \otimes y) \otimes z = x \otimes (y \otimes z)
  BY ScalarAssumption DEF \otimes, Element
<1>3. ASSUME NEW x \in Element, NEW y \in Element, NEW z \in Element
      PROVE  x \otimes (y \oplus z) = (x \otimes y) \oplus (x \otimes z)
  BY ScalarAssumption DEF \otimes, \oplus, Element
<1>4. QED
  BY <1>1, <1>2, <1>3, ElementClosed

\* An automorphism is a homomorphism, inverted by the one of the inverse index.
LEMMA AutomorphismHom ==
    ASSUME NEW i \in Galois, NEW x \in Element, NEW y \in Element
    PROVE  /\ AutomorphismTransform(x \oplus y, i)
                  = AutomorphismTransform(x, i) \oplus AutomorphismTransform(y, i)
           /\ AutomorphismTransform(x \otimes y, i)
                  = AutomorphismTransform(x, i) \otimes AutomorphismTransform(y, i)
           /\ AutomorphismTransform(AutomorphismTransform(x, GInverse(i)), i) = x
<1>1. \A j \in Slot : Perm(i, j) \in Slot /\ Perm(GInverse(i), Perm(i, j)) = j
  BY GaloisAssumption, Zenon
<1>2. AutomorphismTransform(x \oplus y, i)
          = AutomorphismTransform(x, i) \oplus AutomorphismTransform(y, i)
  BY <1>1, Zenon DEF AutomorphismTransform, \oplus
<1>3. AutomorphismTransform(x \otimes y, i)
          = AutomorphismTransform(x, i) \otimes AutomorphismTransform(y, i)
  BY <1>1, Zenon DEF AutomorphismTransform, \otimes
<1>4. AutomorphismTransform(AutomorphismTransform(x, GInverse(i)), i) = x
  BY <1>1, Zenon DEF AutomorphismTransform, Element
<1>5. QED
  BY <1>2, <1>3, <1>4, Zenon

\* Sums can be regrouped.
LEMMA Regroup ==
    \A w, x, y, z \in Element :
        (w \oplus x) \oplus (y \oplus z) = (w \oplus y) \oplus (x \oplus z)
<1> SUFFICES ASSUME NEW w \in Element, NEW x \in Element, NEW y \in Element, NEW z \in Element
             PROVE  (w \oplus x) \oplus (y \oplus z) = (w \oplus y) \oplus (x \oplus z)
  BY Zenon
<1>1. (w \oplus x) \oplus (y \oplus z) = w \oplus (x \oplus (y \oplus z))
  BY ElementClosed, ElementGroup
<1>2. x \oplus (y \oplus z) = y \oplus (x \oplus z)
  BY ElementClosed, ElementGroup
<1>3. w \oplus (y \oplus (x \oplus z)) = (w \oplus y) \oplus (x \oplus z)
  BY ElementClosed, ElementGroup
<1>4. QED
  BY <1>1, <1>2, <1>3, Zenon

\* Products can be regrouped.
LEMMA RegroupProduct ==
    \A x, y, z \in Element : (x \otimes y) \otimes z = (x \otimes z) \otimes y
<1> SUFFICES ASSUME NEW x \in Element, NEW y \in Element, NEW z \in Element
             PROVE  (x \otimes y) \otimes z = (x \otimes z) \otimes y
  BY Zenon
<1>1. (x \otimes y) \otimes z = x \otimes (y \otimes z)
  BY ElementRing
<1>2. (x \otimes z) \otimes y = x \otimes (z \otimes y)
  BY ElementRing
<1>3. QED
  BY <1>1, <1>2, ElementRing, Zenon

\* The pair b, a satisfies b + a * new = old: it is a key from old to new.
Switches(ek, old, new) == ek.b \oplus (ek.a \otimes new) = old

\* A public key is a key from Zero to its secret.
LEMMA KeyGenSwitches ==
    ASSUME NEW s \in Element, NEW a \in Element
    PROVE  Switches(KeyGenPublic(s, a), Zero, s)
  BY ElementClosed, ElementGroup, Zenon DEF Switches, KeyGenPublic

\* KeySwitchGen makes a key from old to new.
LEMMA KeySwitchGenSwitches ==
    ASSUME NEW old \in Element, NEW new \in Element, NEW a \in Element
    PROVE  Switches(KeySwitchGen(old, new, a), old, new)
<1> DEFINE x == a \otimes new
<1>1. x \in Element /\ Negate(x) \in Element
  BY ElementClosed, Zenon
<1>2. (old \oplus Negate(x)) \oplus x = old \oplus (Negate(x) \oplus x)
  BY <1>1, ElementGroup
<1>3. (old \oplus Negate(x)) \oplus x = old
  BY <1>1, <1>2, ElementGroup, Zenon
<1>4. QED
  BY <1>3, Zenon DEF Switches, KeySwitchGen, \ominus

\* A key times s switches from old * s.
LEMMA ProductSwitches ==
    ASSUME NEW b \in Element, NEW a \in Element, NEW o \in Element, NEW n \in Element,
           NEW s \in Element, b \oplus (a \otimes n) = o
    PROVE  (b \otimes s) \oplus ((a \otimes s) \otimes n) = o \otimes s
<1>1. (a \otimes s) \otimes n = (a \otimes n) \otimes s
  BY RegroupProduct
<1>2. (b \otimes s) \oplus ((a \otimes n) \otimes s) = (b \oplus (a \otimes n)) \otimes s
  BY ElementClosed, ElementRing
<1>3. QED
  BY <1>1, <1>2, Zenon

\* A product with Zero is Zero.
LEMMA ZeroTimes ==
    ASSUME NEW v \in Element PROVE Zero \otimes v = Zero
<1> DEFINE z == Zero \otimes v
<1>1. z \in Element /\ Negate(z) \in Element /\ Zero \in Element
  BY ElementClosed, Zenon
<1>2. z \oplus z = (Zero \oplus Zero) \otimes v
  BY <1>1, ElementRing
<1>3. z \oplus z = z
  BY <1>1, <1>2, ElementGroup, Zenon
<1>4. (z \oplus z) \oplus Negate(z) = z \oplus (z \oplus Negate(z))
  BY <1>1, ElementGroup
<1>5. z \oplus (z \oplus Negate(z)) = z
  BY <1>1, ElementGroup, Zenon
<1>6. z \oplus Negate(z) = Zero
  BY <1>1, ElementGroup, Zenon
<1>7. QED
  BY <1>3, <1>4, <1>5, <1>6, Zenon

\* What an encryption of m with a public key decrypts to.
LEMMA EncryptPhase ==
    ASSUME NEW b \in Element, NEW a \in Element, NEW s \in Element,
           NEW v \in Element, NEW m \in Element, b \oplus (a \otimes s) = Zero
    PROVE  ((b \otimes v) \oplus m) \oplus ((a \otimes v) \otimes s) = m
<1> DEFINE x == b \otimes v
           y == (a \otimes v) \otimes s
<1>1. x \in Element /\ y \in Element /\ Zero \in Element
  BY ElementClosed, Zenon
<1>2. x \oplus y = Zero
  BY <1>1, ProductSwitches, ZeroTimes
<1>3. (x \oplus m) \oplus y = m \oplus (x \oplus y)
  BY <1>1, ElementGroup
<1>4. QED
  BY <1>1, <1>2, <1>3, ElementGroup, Zenon

\* Switching the second of two elements.
LEMMA SwitchTwo ==
    \A b, a, n, c0, c1 \in Element :
        (c0 \oplus (c1 \otimes b)) \oplus ((c1 \otimes a) \otimes n)
            = c0 \oplus (c1 \otimes (b \oplus (a \otimes n)))
<1> SUFFICES ASSUME NEW b \in Element, NEW a \in Element, NEW n \in Element,
                    NEW c0 \in Element, NEW c1 \in Element
             PROVE  (c0 \oplus (c1 \otimes b)) \oplus ((c1 \otimes a) \otimes n)
                        = c0 \oplus (c1 \otimes (b \oplus (a \otimes n)))
  BY Zenon
<1>1. /\ c1 \otimes b \in Element /\ c1 \otimes a \in Element /\ a \otimes n \in Element
      /\ (c1 \otimes a) \otimes n \in Element
  BY ElementClosed, Zenon
<1>2. (c1 \otimes a) \otimes n = c1 \otimes (a \otimes n)
  BY ElementRing
<1>3. (c1 \otimes b) \oplus (c1 \otimes (a \otimes n)) = c1 \otimes (b \oplus (a \otimes n))
  BY <1>1, ElementRing
<1>4. (c0 \oplus (c1 \otimes b)) \oplus ((c1 \otimes a) \otimes n)
          = c0 \oplus ((c1 \otimes b) \oplus ((c1 \otimes a) \otimes n))
  BY <1>1, ElementGroup
<1>5. QED
  BY <1>2, <1>3, <1>4, Zenon

\* Switching the third of three elements.
LEMMA SwitchThree ==
    \A b, a, n, c0, c1, c2 \in Element :
        (c0 \oplus (c2 \otimes b)) \oplus ((c1 \oplus (c2 \otimes a)) \otimes n)
            = (c0 \oplus (c1 \otimes n)) \oplus (c2 \otimes (b \oplus (a \otimes n)))
<1> SUFFICES ASSUME NEW b \in Element, NEW a \in Element, NEW n \in Element,
                    NEW c0 \in Element, NEW c1 \in Element, NEW c2 \in Element
             PROVE  (c0 \oplus (c2 \otimes b)) \oplus ((c1 \oplus (c2 \otimes a)) \otimes n)
                        = (c0 \oplus (c1 \otimes n)) \oplus (c2 \otimes (b \oplus (a \otimes n)))
  BY Zenon
<1>1. /\ c2 \otimes b \in Element /\ c2 \otimes a \in Element /\ a \otimes n \in Element
      /\ (c2 \otimes a) \otimes n \in Element /\ c1 \otimes n \in Element
  BY ElementClosed, Zenon
<1>2. (c1 \oplus (c2 \otimes a)) \otimes n = (c1 \otimes n) \oplus ((c2 \otimes a) \otimes n)
  BY <1>1, ElementRing
<1>3. (c2 \otimes a) \otimes n = c2 \otimes (a \otimes n)
  BY ElementRing
<1>4. (c2 \otimes b) \oplus (c2 \otimes (a \otimes n)) = c2 \otimes (b \oplus (a \otimes n))
  BY <1>1, ElementRing
<1>5. (c0 \oplus (c2 \otimes b)) \oplus ((c1 \otimes n) \oplus ((c2 \otimes a) \otimes n))
          = (c0 \oplus (c1 \otimes n)) \oplus ((c2 \otimes b) \oplus ((c2 \otimes a) \otimes n))
  BY <1>1, Regroup
<1>6. QED
  BY <1>2, <1>3, <1>4, <1>5, Zenon

\* The three elements of a product decrypt to the product.
LEMMA ProductPhase ==
    \A c0, c1, d0, d1, s \in Element :
           ((d0 \otimes c0) \oplus (((c1 \otimes d0) \oplus (c0 \otimes d1)) \otimes s))
               \oplus ((c1 \otimes d1) \otimes (s \otimes s))
           = (c0 \oplus (c1 \otimes s)) \otimes (d0 \oplus (d1 \otimes s))
<1> TAKE c0, c1, d0, d1, s \in Element
<1> DEFINE cs == c1 \otimes s
           ds == d1 \otimes s
<1>1. /\ cs \in Element /\ ds \in Element /\ c1 \otimes d0 \in Element /\ c0 \otimes d1 \in Element
      /\ c0 \otimes d0 \in Element /\ cs \otimes d0 \in Element /\ c0 \otimes ds \in Element
      /\ cs \otimes ds \in Element /\ d0 \oplus ds \in Element
  BY ElementClosed, Zenon
<1>2. (c0 \oplus cs) \otimes (d0 \oplus ds) = (c0 \otimes (d0 \oplus ds)) \oplus (cs \otimes (d0 \oplus ds))
  BY <1>1, ElementRing
<1>3. /\ c0 \otimes (d0 \oplus ds) = (c0 \otimes d0) \oplus (c0 \otimes ds)
      /\ cs \otimes (d0 \oplus ds) = (cs \otimes d0) \oplus (cs \otimes ds)
  BY <1>1, ElementRing
<1>4. ((c1 \otimes d0) \oplus (c0 \otimes d1)) \otimes s
          = ((c1 \otimes d0) \otimes s) \oplus ((c0 \otimes d1) \otimes s)
  BY <1>1, ElementRing
<1>5. (c1 \otimes d0) \otimes s = cs \otimes d0 /\ (c0 \otimes d1) \otimes s = c0 \otimes ds
  BY RegroupProduct, ElementRing
<1>6. (c1 \otimes d1) \otimes (s \otimes s) = cs \otimes ds
  <2>1. (c1 \otimes d1) \otimes (s \otimes s) = ((c1 \otimes d1) \otimes s) \otimes s
    BY ElementClosed, ElementRing
  <2>2. (c1 \otimes d1) \otimes s = cs \otimes d1
    BY RegroupProduct
  <2>3. (cs \otimes d1) \otimes s = cs \otimes ds
    BY <1>1, ElementRing
  <2>4. QED
    BY <2>1, <2>2, <2>3, Zenon
<1>7. ((c0 \otimes d0) \oplus ((cs \otimes d0) \oplus (c0 \otimes ds))) \oplus (cs \otimes ds)
          = ((c0 \otimes d0) \oplus (c0 \otimes ds)) \oplus ((cs \otimes d0) \oplus (cs \otimes ds))
  <2>1. ((c0 \otimes d0) \oplus ((cs \otimes d0) \oplus (c0 \otimes ds)))
            = ((c0 \otimes d0) \oplus (c0 \otimes ds)) \oplus (cs \otimes d0)
    BY <1>1, ElementGroup
  <2>2. QED
    BY <1>1, <2>1, ElementGroup, ElementClosed
<1>8. d0 \otimes c0 = c0 \otimes d0
  BY ElementRing, Zenon
<1>9. QED
  BY <1>2, <1>3, <1>4, <1>5, <1>6, <1>7, <1>8, Zenon

-----------------------------------------------------------------------------
\* Every set of natural numbers that is not empty has a least one.
LEMMA LeastNat ==
    ASSUME NEW S, S \subseteq Nat, S # {}
    PROVE  \E x \in S : \A y \in S : x <= y
<1>1. PICK x \in S : \A y \in S : ~(<<y, x>> \in OpToRel(<, Nat))
  BY NatLessThanWellFounded, WFMin
<1>2. \A y \in S : ~(y < x)
  BY <1>1 DEF OpToRel
<1> QED BY <1>2

\* A set that holds 0, and n + 1 with n, holds every natural number.
LEMMA Induct ==
    ASSUME NEW S, 0 \in S, \A n \in Nat : n \in S => n + 1 \in S
    PROVE  \A n \in Nat : n \in S
<1> DEFINE Bad == {n \in Nat : n \notin S}
<1> SUFFICES ASSUME Bad # {} PROVE FALSE
  BY Zenon
<1>1. Bad \subseteq Nat
  BY Zenon
<1> HIDE DEF Bad
<1>2. PICK k \in Bad : \A j \in Bad : k <= j
  BY <1>1, LeastNat
<1>3. k \in Nat /\ k \notin S
  BY Zenon DEF Bad
<1>4. k # 0
  BY <1>3, Zenon
<1>5. k - 1 \in Nat /\ (k - 1) + 1 = k /\ ~(k <= k - 1)
  BY <1>3, <1>4
<1>6. k - 1 \notin Bad
  BY <1>2, <1>5, Zenon
<1>7. k - 1 \in S
  BY <1>5, <1>6, Zenon DEF Bad
<1> QED BY <1>3, <1>5, <1>7, Zenon

-----------------------------------------------------------------------------
(***************************************************************************)
(* Sums.  SumUpTo is a recursive function of its own for every bound; the  *)
(* functions exist and agree.                                              *)
(***************************************************************************)
IsSum(g, f, n) == g = [i \in 0..n |-> IF i = 0 THEN Zero ELSE g[i - 1] \oplus f[i]]

TheSum(f, n) == CHOOSE g : IsSum(g, f, n)

LEMMA SumIsTheSum ==
    ASSUME NEW f, NEW n \in Nat PROVE SumUpTo(f, n) = TheSum(f, n)[n]
BY Zenon DEF SumUpTo, TheSum, IsSum

\* What the equation of g says of each value.
LEMMA IsSumValues ==
    ASSUME NEW g, NEW f, NEW n \in Nat, IsSum(g, f, n)
    PROVE  /\ g[0] = Zero
           /\ \A i \in 1..n : g[i] = g[i - 1] \oplus f[i]
<1>1. 0 \in 0..n
  OBVIOUS
<1>2. \A i \in 1..n : i \in 0..n /\ i # 0
  OBVIOUS
<1>3. g = [i \in 0..n |-> IF i = 0 THEN Zero ELSE g[i - 1] \oplus f[i]]
  BY Zenon DEF IsSum
<1>4. \A i \in 0..n : g[i] = IF i = 0 THEN Zero ELSE g[i - 1] \oplus f[i]
  BY <1>3, Zenon
<1> QED BY <1>1, <1>2, <1>4, Zenon

LEMMA SumExists ==
    ASSUME NEW f PROVE \A n \in Nat : \E g : IsSum(g, f, n)
<1> DEFINE S == {n \in Nat : \E g : IsSum(g, f, n)}
<1>1. 0 \in S
  <2> DEFINE g == [i \in 0..0 |-> Zero]
  <2>1. g = [i \in 0..0 |-> IF i = 0 THEN Zero ELSE g[i - 1] \oplus f[i]]
    OBVIOUS
  <2>2. IsSum(g, f, 0)
    BY <2>1, Zenon DEF IsSum
  <2> QED BY <2>2
<1>2. ASSUME NEW n \in Nat, n \in S PROVE n + 1 \in S
  <2>1. PICK g : IsSum(g, f, n)
    BY <1>2, Zenon
  <2> DEFINE h == [i \in 0..n + 1 |-> IF i = n + 1 THEN g[n] \oplus f[n + 1] ELSE g[i]]
  <2>2. ASSUME NEW i \in 0..n + 1
        PROVE  h[i] = IF i = 0 THEN Zero ELSE h[i - 1] \oplus f[i]
    <3>1. CASE i = 0
      <4>1. 0 # n + 1
        OBVIOUS
      <4>2. h[0] = g[0]
        BY <3>1, <4>1
      <4> QED BY <3>1, <4>2, <2>1, IsSumValues, Zenon
    <3>2. CASE i = n + 1
      <4>1. i # 0 /\ i - 1 = n /\ n \in 0..n + 1 /\ n # n + 1
        BY <3>2
      <4>2. h[i - 1] = g[n] /\ h[i] = g[n] \oplus f[n + 1]
        BY <4>1, <3>2
      <4> QED BY <4>1, <4>2, <3>2, Zenon
    <3>3. CASE i # 0 /\ i # n + 1
      <4>1. i \in 1..n /\ i - 1 \in 0..n + 1 /\ i - 1 # n + 1
        BY <3>3
      <4>2. h[i - 1] = g[i - 1] /\ h[i] = g[i]
        BY <4>1, <3>3
      <4> QED BY <4>1, <4>2, <3>3, <2>1, IsSumValues, ZenonT(60)
    <3> QED BY <3>1, <3>2, <3>3, Zenon
  <2>3. h = [i \in 0..n + 1 |-> h[i]]
    BY Zenon
  <2> HIDE DEF h
  <2>4. IsSum(h, f, n + 1)
    BY <2>2, <2>3, Zenon DEF IsSum
  <2> QED BY <2>4
<1> HIDE DEF S
<1>3. \A n \in Nat : n \in S
  BY <1>1, <1>2, Induct
<1> QED BY <1>3 DEF S

LEMMA TheSumIsSum ==
    ASSUME NEW f, NEW n \in Nat PROVE IsSum(TheSum(f, n), f, n)
BY SumExists, Zenon DEF TheSum

\* Up to the smaller bound the functions of two bounds agree.
LEMMA SumsAgree ==
    ASSUME NEW f, NEW n \in Nat
    PROVE  \A i \in Nat : i <= n => TheSum(f, n + 1)[i] = TheSum(f, n)[i]
<1> DEFINE g == TheSum(f, n)
           h == TheSum(f, n + 1)
           S == {i \in Nat : i <= n => h[i] = g[i]}
<1>1. n + 1 \in Nat
  OBVIOUS
<1>2. IsSum(g, f, n) /\ IsSum(h, f, n + 1)
  BY <1>1, TheSumIsSum, Zenon
<1> HIDE DEF g, h
<1>3. 0 \in S
  BY <1>1, <1>2, IsSumValues, Zenon
<1>4. ASSUME NEW i \in Nat, i \in S PROVE i + 1 \in S
  <2>1. SUFFICES ASSUME i + 1 <= n PROVE h[i + 1] = g[i + 1]
    OBVIOUS
  <2>2. i + 1 \in 1..n /\ i + 1 \in 1..n + 1 /\ (i + 1) - 1 = i /\ i <= n
    BY <2>1
  <2>3. h[i] = g[i]
    BY <1>4, <2>2, Zenon
  <2>4. h[i + 1] = h[i] \oplus f[i + 1] /\ g[i + 1] = g[i] \oplus f[i + 1]
    <3>a. \A j \in 1..n + 1 : h[j] = h[j - 1] \oplus f[j]
      BY <1>1, <1>2, IsSumValues
    <3>b. \A j \in 1..n : g[j] = g[j - 1] \oplus f[j]
      BY <1>2, IsSumValues
    <3>1. h[i + 1] = h[(i + 1) - 1] \oplus f[i + 1]
      BY <2>2, <3>a, Zenon
    <3>2. g[i + 1] = g[(i + 1) - 1] \oplus f[i + 1]
      BY <2>2, <3>b, Zenon
    <3> QED BY <3>1, <3>2, <2>2, Zenon
  <2> QED BY <2>3, <2>4, Zenon
<1> HIDE DEF S
<1>5. \A i \in Nat : i \in S
  BY <1>3, <1>4, Induct
<1> QED BY <1>5 DEF S, g, h

\* The recurrence of a sum.
LEMMA SumStep ==
    ASSUME NEW f, NEW n \in Nat
    PROVE  /\ SumUpTo(f, 0) = Zero
           /\ SumUpTo(f, n + 1) = SumUpTo(f, n) \oplus f[n + 1]
<1>1. 0 \in Nat /\ n + 1 \in Nat /\ n + 1 \in 1..n + 1 /\ (n + 1) - 1 = n /\ n <= n
  OBVIOUS
<1>2. SumUpTo(f, 0) = Zero
  BY <1>1, SumIsTheSum, TheSumIsSum, IsSumValues, Zenon
<1>3. TheSum(f, n + 1)[n + 1] = TheSum(f, n + 1)[n] \oplus f[n + 1]
  <2>1. TheSum(f, n + 1)[n + 1] = TheSum(f, n + 1)[(n + 1) - 1] \oplus f[n + 1]
    BY <1>1, TheSumIsSum, IsSumValues, ZenonT(60)
  <2> QED BY <2>1, <1>1, Zenon
<1>4. TheSum(f, n + 1)[n] = TheSum(f, n)[n]
  BY <1>1, SumsAgree, Zenon
<1> QED BY <1>1, <1>2, <1>3, <1>4, SumIsTheSum, Zenon

-----------------------------------------------------------------------------
\* The first n values of f are elements.
Terms(f, n) == \A i \in 1..n : f[i] \in Element

LEMMA TermsShorter ==
    ASSUME NEW f, NEW n \in Nat, Terms(f, n + 1)
    PROVE  Terms(f, n) /\ f[n + 1] \in Element
BY DEF Terms

\* A sum of elements is an element.
LEMMA SumClosed ==
    ASSUME NEW f PROVE \A n \in Nat : Terms(f, n) => SumUpTo(f, n) \in Element
<1> DEFINE S == {n \in Nat : Terms(f, n) => SumUpTo(f, n) \in Element}
<1>1. 0 \in S
  <2>1. SumUpTo(f, 0) = Zero /\ 0 \in Nat
    BY SumStep
  <2> QED BY <2>1, ElementClosed, Zenon
<1>2. ASSUME NEW n \in Nat, n \in S PROVE n + 1 \in S
  <2>1. n + 1 \in Nat
    OBVIOUS
  <2>2. SUFFICES ASSUME Terms(f, n + 1) PROVE SumUpTo(f, n + 1) \in Element
    BY <2>1, Zenon
  <2>3. SumUpTo(f, n) \in Element /\ f[n + 1] \in Element
    BY <1>2, <2>2, TermsShorter, Zenon
  <2> QED BY <2>3, SumStep, ElementClosed, Zenon
<1> HIDE DEF S
<1>3. \A n \in Nat : n \in S
  BY <1>1, <1>2, Induct, Zenon
<1> QED BY <1>3, Zenon DEF S

\* Sums of equal terms are equal.
LEMMA SumEqual ==
    ASSUME NEW f, NEW g
    PROVE  \A n \in Nat : (\A i \in 1..n : f[i] = g[i]) => SumUpTo(f, n) = SumUpTo(g, n)
<1> DEFINE S == {n \in Nat : (\A i \in 1..n : f[i] = g[i]) => SumUpTo(f, n) = SumUpTo(g, n)}
<1>1. 0 \in S
  <2>1. 0 \in Nat /\ SumUpTo(f, 0) = Zero /\ SumUpTo(g, 0) = Zero
    BY SumStep
  <2> QED BY <2>1, Zenon
<1>2. ASSUME NEW n \in Nat, n \in S PROVE n + 1 \in S
  <2>1. n + 1 \in Nat /\ n + 1 \in 1..n + 1 /\ \A i \in 1..n : i \in 1..n + 1
    OBVIOUS
  <2>2. SUFFICES ASSUME \A i \in 1..n + 1 : f[i] = g[i]
                 PROVE  SumUpTo(f, n + 1) = SumUpTo(g, n + 1)
    BY <2>1, Zenon
  <2>3. SumUpTo(f, n) = SumUpTo(g, n) /\ f[n + 1] = g[n + 1]
    BY <1>2, <2>1, <2>2, Zenon
  <2> QED BY <2>3, SumStep, Zenon
<1> HIDE DEF S
<1>3. \A n \in Nat : n \in S
  BY <1>1, <1>2, Induct, Zenon
<1> QED BY <1>3, Zenon DEF S

\* The sum of sums of terms.
LEMMA SumAdded ==
    ASSUME NEW f, NEW g, NEW h
    PROVE  \A n \in Nat :
               Terms(f, n) /\ Terms(g, n) /\ (\A i \in 1..n : h[i] = f[i] \oplus g[i])
                   => SumUpTo(h, n) = SumUpTo(f, n) \oplus SumUpTo(g, n)
<1> DEFINE Hyp(n) == Terms(f, n) /\ Terms(g, n) /\ (\A i \in 1..n : h[i] = f[i] \oplus g[i])
           S == {n \in Nat : Hyp(n) => SumUpTo(h, n) = SumUpTo(f, n) \oplus SumUpTo(g, n)}
<1>1. 0 \in S
  <2>1. 0 \in Nat /\ SumUpTo(f, 0) = Zero /\ SumUpTo(g, 0) = Zero /\ SumUpTo(h, 0) = Zero
    BY SumStep
  <2>2. Zero \oplus Zero = Zero
    BY ElementClosed, ElementGroup, Zenon
  <2> QED BY <2>1, <2>2, Zenon
<1>2. ASSUME NEW n \in Nat, n \in S PROVE n + 1 \in S
  <2>1. n + 1 \in Nat /\ n + 1 \in 1..n + 1 /\ \A i \in 1..n : i \in 1..n + 1
    OBVIOUS
  <2>2. SUFFICES ASSUME Hyp(n + 1)
                 PROVE  SumUpTo(h, n + 1) = SumUpTo(f, n + 1) \oplus SumUpTo(g, n + 1)
    BY <2>1, Zenon
  <2>3. /\ Terms(f, n) /\ f[n + 1] \in Element /\ Terms(g, n) /\ g[n + 1] \in Element
    BY <2>2, TermsShorter, Zenon
  <2>4. /\ h[n + 1] = f[n + 1] \oplus g[n + 1]
        /\ SumUpTo(h, n) = SumUpTo(f, n) \oplus SumUpTo(g, n)
    BY <1>2, <2>1, <2>2, <2>3, Zenon
  <2>5. SumUpTo(f, n) \in Element /\ SumUpTo(g, n) \in Element
    BY <2>3, SumClosed, Zenon
  <2>6. (SumUpTo(f, n) \oplus SumUpTo(g, n)) \oplus (f[n + 1] \oplus g[n + 1])
            = (SumUpTo(f, n) \oplus f[n + 1]) \oplus (SumUpTo(g, n) \oplus g[n + 1])
    BY <2>3, <2>5, Regroup
  <2>7. /\ SumUpTo(h, n + 1) = SumUpTo(h, n) \oplus h[n + 1]
        /\ SumUpTo(f, n + 1) = SumUpTo(f, n) \oplus f[n + 1]
        /\ SumUpTo(g, n + 1) = SumUpTo(g, n) \oplus g[n + 1]
    BY SumStep, Zenon
  <2> QED BY <2>4, <2>6, <2>7, Zenon
<1> HIDE DEF S
<1>3. \A n \in Nat : n \in S
  BY <1>1, <1>2, Induct, Zenon
<1> QED BY <1>3, Zenon DEF S

\* A common factor.
LEMMA SumScaled ==
    ASSUME NEW f, NEW h, NEW x \in Element
    PROVE  \A n \in Nat :
               Terms(f, n) /\ (\A i \in 1..n : h[i] = x \otimes f[i])
                   => SumUpTo(h, n) = x \otimes SumUpTo(f, n)
<1> DEFINE Hyp(n) == Terms(f, n) /\ (\A i \in 1..n : h[i] = x \otimes f[i])
           S == {n \in Nat : Hyp(n) => SumUpTo(h, n) = x \otimes SumUpTo(f, n)}
<1>1. 0 \in S
  <2>1. 0 \in Nat /\ SumUpTo(f, 0) = Zero /\ SumUpTo(h, 0) = Zero
    BY SumStep
  <2>2. x \otimes Zero = Zero
    BY ElementClosed, ElementRing, ZeroTimes, Zenon
  <2> QED BY <2>1, <2>2, Zenon
<1>2. ASSUME NEW n \in Nat, n \in S PROVE n + 1 \in S
  <2>1. n + 1 \in Nat /\ n + 1 \in 1..n + 1 /\ \A i \in 1..n : i \in 1..n + 1
    OBVIOUS
  <2>2. SUFFICES ASSUME Hyp(n + 1) PROVE SumUpTo(h, n + 1) = x \otimes SumUpTo(f, n + 1)
    BY <2>1, Zenon
  <2>3. Terms(f, n) /\ f[n + 1] \in Element
    BY <2>2, TermsShorter, Zenon
  <2>4. h[n + 1] = x \otimes f[n + 1] /\ SumUpTo(h, n) = x \otimes SumUpTo(f, n)
    BY <1>2, <2>1, <2>2, <2>3, Zenon
  <2>5. SumUpTo(f, n) \in Element
    BY <2>3, SumClosed, Zenon
  <2>6. x \otimes (SumUpTo(f, n) \oplus f[n + 1])
            = (x \otimes SumUpTo(f, n)) \oplus (x \otimes f[n + 1])
    BY <2>3, <2>5, ElementRing
  <2>7. /\ SumUpTo(h, n + 1) = SumUpTo(h, n) \oplus h[n + 1]
        /\ SumUpTo(f, n + 1) = SumUpTo(f, n) \oplus f[n + 1]
    BY SumStep, Zenon
  <2> QED BY <2>4, <2>6, <2>7, Zenon
<1> HIDE DEF S
<1>3. \A n \in Nat : n \in S
  BY <1>1, <1>2, Induct, Zenon
<1> QED BY <1>3, Zenon DEF S

\* The same with the hypotheses as one predicate each.
Added(h, f, g, n) == Terms(f, n) /\ Terms(g, n) /\ \A i \in 1..n : h[i] = f[i] \oplus g[i]

ScaledBy(h, x, f, n) == x \in Element /\ Terms(f, n) /\ \A i \in 1..n : h[i] = x \otimes f[i]

LEMMA AddedSum ==
    ASSUME NEW h, NEW f, NEW g, NEW n \in Nat, Added(h, f, g, n)
    PROVE  SumUpTo(h, n) = SumUpTo(f, n) \oplus SumUpTo(g, n)
BY SumAdded DEF Added

LEMMA ScaledSum ==
    ASSUME NEW h, NEW x, NEW f, NEW n \in Nat, ScaledBy(h, x, f, n)
    PROVE  SumUpTo(h, n) = x \otimes SumUpTo(f, n)
BY SumScaled DEF ScaledBy

\* The first term taken out of a sum.
LEMMA SumShifted ==
    ASSUME NEW f, NEW h
    PROVE  \A n \in Nat :
               Terms(f, n + 1) /\ (\A i \in 1..n : h[i] = f[i + 1])
                   => SumUpTo(f, n + 1) = f[1] \oplus SumUpTo(h, n)
<1> DEFINE Hyp(n) == Terms(f, n + 1) /\ (\A i \in 1..n : h[i] = f[i + 1])
           S == {n \in Nat : Hyp(n) => SumUpTo(f, n + 1) = f[1] \oplus SumUpTo(h, n)}
<1>1. 0 \in S
  <2>1. 0 \in Nat /\ 0 + 1 = 1
    OBVIOUS
  <2>2. SUFFICES ASSUME Hyp(0) PROVE SumUpTo(f, 0 + 1) = f[1] \oplus SumUpTo(h, 0)
    BY <2>1, Zenon
  <2>3. f[0 + 1] \in Element
    BY <2>1, <2>2, TermsShorter, Zenon
  <2>4. /\ SumUpTo(f, 0) = Zero /\ SumUpTo(h, 0) = Zero
        /\ SumUpTo(f, 0 + 1) = SumUpTo(f, 0) \oplus f[0 + 1]
    BY <2>1, SumStep, Zenon
  <2>5. Zero \oplus f[0 + 1] = f[0 + 1] \oplus Zero
    BY <2>3, ElementGroup, Zenon
  <2> QED BY <2>1, <2>4, <2>5, Zenon
<1>2. ASSUME NEW n \in Nat, n \in S PROVE n + 1 \in S
  <2>1. n + 1 \in Nat /\ n + 1 \in 1..n + 1 /\ (\A i \in 1..n : i \in 1..n + 1)
        /\ 1 \in 1..(n + 1) + 1 /\ \A i \in 1..n : i + 1 \in 1..(n + 1) + 1
    OBVIOUS
  <2>2. SUFFICES ASSUME Hyp(n + 1)
                 PROVE  SumUpTo(f, (n + 1) + 1) = f[1] \oplus SumUpTo(h, n + 1)
    BY <2>1, Zenon
  <2>3. Terms(f, n + 1) /\ f[(n + 1) + 1] \in Element
    BY <2>1, <2>2, TermsShorter, Zenon
  <2>4. /\ h[n + 1] = f[(n + 1) + 1]
        /\ SumUpTo(f, n + 1) = f[1] \oplus SumUpTo(h, n)
    BY <1>2, <2>1, <2>2, <2>3, Zenon
  <2>5. f[1] \in Element
    BY <2>1, <2>2, Zenon DEF Terms
  <2>6. SumUpTo(h, n) \in Element
    <3>1. Terms(h, n)
      BY <2>1, <2>2, Zenon DEF Terms
    <3> QED BY <3>1, SumClosed, Zenon
  <2>7. (f[1] \oplus SumUpTo(h, n)) \oplus h[n + 1] = f[1] \oplus (SumUpTo(h, n) \oplus h[n + 1])
    BY <2>3, <2>4, <2>5, <2>6, ElementGroup
  <2>8. /\ SumUpTo(f, (n + 1) + 1) = SumUpTo(f, n + 1) \oplus f[(n + 1) + 1]
        /\ SumUpTo(h, n + 1) = SumUpTo(h, n) \oplus h[n + 1]
    BY <2>1, SumStep, Zenon
  <2> QED BY <2>4, <2>7, <2>8, Zenon
<1> HIDE DEF S
<1>3. \A n \in Nat : n \in S
  BY <1>1, <1>2, Induct, Zenon
<1> QED BY <1>3, Zenon DEF S

-----------------------------------------------------------------------------
(***************************************************************************)
(* Powers, in the same way.                                                *)
(***************************************************************************)
IsPower(g, s, n) == g = [i \in 1..n |-> IF i = 1 THEN s ELSE g[i - 1] \otimes s]

ThePower(s, n) == CHOOSE g : IsPower(g, s, n)

LEMMA PowerIsThePower ==
    ASSUME NEW s, NEW n \in Nat PROVE Power(s, n) = ThePower(s, n)[n]
BY Zenon DEF Power, ThePower, IsPower

LEMMA IsPowerValues ==
    ASSUME NEW g, NEW s, NEW n \in Nat, IsPower(g, s, n + 1)
    PROVE  /\ g[1] = s
           /\ \A i \in 1..n : g[i + 1] = g[i] \otimes s
<1>1. 1 \in 1..n + 1
  OBVIOUS
<1>2. \A i \in 1..n : i + 1 \in 1..n + 1 /\ i + 1 # 1 /\ (i + 1) - 1 = i
  OBVIOUS
<1>3. g = [i \in 1..n + 1 |-> IF i = 1 THEN s ELSE g[i - 1] \otimes s]
  BY Zenon DEF IsPower
<1>4. \A i \in 1..n + 1 : g[i] = IF i = 1 THEN s ELSE g[i - 1] \otimes s
  BY <1>3, Zenon
<1>5. ASSUME NEW i \in 1..n PROVE g[i + 1] = g[i] \otimes s
  <2>1. g[i + 1] = g[(i + 1) - 1] \otimes s
    BY <1>2, <1>4, Zenon
  <2> QED BY <2>1, <1>2, Zenon
<1> QED BY <1>1, <1>4, <1>5, Zenon

LEMMA PowerExists ==
    ASSUME NEW s PROVE \A n \in Nat : \E g : IsPower(g, s, n + 1)
<1> DEFINE S == {n \in Nat : \E g : IsPower(g, s, n + 1)}
<1>1. 0 \in S
  <2> DEFINE g == [i \in 1..0 + 1 |-> s]
  <2>1. g = [i \in 1..0 + 1 |-> IF i = 1 THEN s ELSE g[i - 1] \otimes s]
    OBVIOUS
  <2>2. IsPower(g, s, 0 + 1)
    BY <2>1, Zenon DEF IsPower
  <2> QED BY <2>2
<1>2. ASSUME NEW n \in Nat, n \in S PROVE n + 1 \in S
  <2>1. PICK g : IsPower(g, s, n + 1)
    BY <1>2, Zenon
  <2> DEFINE m == n + 1
             h == [i \in 1..m + 1 |-> IF i = m + 1 THEN g[m] \otimes s ELSE g[i]]
  <2>2. m \in Nat /\ m >= 1
    OBVIOUS
  <2>3. \A i \in 1..m : g[i] = IF i = 1 THEN s ELSE g[i - 1] \otimes s
    <3>1. g = [i \in 1..m |-> IF i = 1 THEN s ELSE g[i - 1] \otimes s]
      BY <2>1, Zenon DEF IsPower
    <3> QED BY <3>1, Zenon
  <2> HIDE DEF m
  <2>4. ASSUME NEW i \in 1..m + 1
        PROVE  h[i] = IF i = 1 THEN s ELSE h[i - 1] \otimes s
    <3>1. CASE i = m + 1
      <4>1. i # 1 /\ i - 1 = m /\ m \in 1..m + 1 /\ m # m + 1
        BY <3>1, <2>2
      <4>2. h[i - 1] = g[m] /\ h[i] = g[m] \otimes s
        BY <4>1, <3>1
      <4> QED BY <4>1, <4>2, Zenon
    <3>2. CASE i # m + 1
      <4>1. i \in 1..m /\ (i # 1 => i - 1 \in 1..m + 1 /\ i - 1 # m + 1)
        BY <3>2, <2>2
      <4>2. h[i] = g[i] /\ (i # 1 => h[i - 1] = g[i - 1])
        BY <4>1, <3>2
      <4> QED BY <4>1, <4>2, <2>3, Zenon
    <3> QED BY <3>1, <3>2, Zenon
  <2>5. h = [i \in 1..m + 1 |-> h[i]]
    BY Zenon
  <2> HIDE DEF h
  <2>6. IsPower(h, s, m + 1)
    BY <2>4, <2>5, Zenon DEF IsPower
  <2> QED BY <2>6 DEF m
<1> HIDE DEF S
<1>3. \A n \in Nat : n \in S
  BY <1>1, <1>2, Induct, Zenon
<1> QED BY <1>3, Zenon DEF S

LEMMA ThePowerIsPower ==
    ASSUME NEW s, NEW n \in Nat PROVE IsPower(ThePower(s, n + 1), s, n + 1)
BY PowerExists, Zenon DEF ThePower

LEMMA PowersAgree ==
    ASSUME NEW s, NEW n \in Nat
    PROVE  \A i \in Nat : i <= n => ThePower(s, (n + 1) + 1)[i + 1] = ThePower(s, n + 1)[i + 1]
<1> DEFINE g == ThePower(s, n + 1)
           h == ThePower(s, (n + 1) + 1)
           S == {i \in Nat : i <= n => h[i + 1] = g[i + 1]}
<1>1. n + 1 \in Nat
  OBVIOUS
<1>2. IsPower(g, s, n + 1) /\ IsPower(h, s, (n + 1) + 1)
  BY <1>1, ThePowerIsPower, Zenon
<1> HIDE DEF g, h
<1>3. 0 \in S
  <2>1. 0 + 1 = 1 /\ 0 \in Nat
    OBVIOUS
  <2>2. h[1] = s /\ g[1] = s
    BY <1>1, <1>2, IsPowerValues, Zenon
  <2> QED BY <2>1, <2>2, Zenon
<1>4. ASSUME NEW i \in Nat, i \in S PROVE i + 1 \in S
  <2>1. SUFFICES ASSUME i + 1 <= n PROVE h[(i + 1) + 1] = g[(i + 1) + 1]
    OBVIOUS
  <2>2. i + 1 \in 1..n /\ i + 1 \in 1..n + 1 /\ i <= n
    BY <2>1
  <2>3. h[i + 1] = g[i + 1]
    BY <1>4, <2>2, Zenon
  <2>4. h[(i + 1) + 1] = h[i + 1] \otimes s /\ g[(i + 1) + 1] = g[i + 1] \otimes s
    BY <1>1, <1>2, <2>2, IsPowerValues, ZenonT(60)
  <2> QED BY <2>3, <2>4, Zenon
<1> HIDE DEF S
<1>5. \A i \in Nat : i \in S
  BY <1>3, <1>4, Induct, Zenon
<1> QED BY <1>5, Zenon DEF S, g, h

LEMMA PowerStep ==
    ASSUME NEW s, NEW n \in Nat
    PROVE  /\ Power(s, 1) = s
           /\ Power(s, (n + 1) + 1) = Power(s, n + 1) \otimes s
<1>1. 0 \in Nat /\ 0 + 1 = 1 /\ 1 \in Nat /\ n + 1 \in Nat /\ (n + 1) + 1 \in Nat
      /\ n + 1 \in 1..n + 1 /\ n <= n
  OBVIOUS
<1>2. Power(s, 1) = s
  <2>1. IsPower(ThePower(s, 0 + 1), s, 0 + 1)
    BY <1>1, ThePowerIsPower, Zenon
  <2>2. ThePower(s, 0 + 1)[1] = s
    BY <2>1, <1>1, IsPowerValues, Zenon
  <2> QED BY <2>2, <1>1, PowerIsThePower, Zenon
<1>3. ThePower(s, (n + 1) + 1)[(n + 1) + 1] = ThePower(s, (n + 1) + 1)[n + 1] \otimes s
  <2>1. IsPower(ThePower(s, (n + 1) + 1), s, (n + 1) + 1)
    BY <1>1, ThePowerIsPower, Zenon
  <2> QED BY <2>1, <1>1, IsPowerValues, ZenonT(60)
<1>4. ThePower(s, (n + 1) + 1)[n + 1] = ThePower(s, n + 1)[n + 1]
  BY <1>1, PowersAgree, ZenonT(60)
<1> QED BY <1>1, <1>2, <1>3, <1>4, PowerIsThePower, Zenon

\* Powers from the zeroth on.
One == [j \in Slot |-> FOne]

Pow(s, n) == IF n = 0 THEN One ELSE Power(s, n)

LEMMA OneTimes ==
    /\ One \in Element
    /\ \A x \in Element : One \otimes x = x /\ x \otimes One = x
<1>1. One \in Element
  BY ScalarAssumption DEF One, Element
<1>2. ASSUME NEW x \in Element PROVE x \otimes One = x
  BY ScalarAssumption DEF One, \otimes, Element
<1> QED BY <1>1, <1>2, ElementRing, Zenon

LEMMA PowStep ==
    ASSUME NEW s \in Element
    PROVE  /\ Pow(s, 0) = One /\ Pow(s, 1) = s
           /\ \A n \in Nat : Pow(s, n + 1) = Pow(s, n) \otimes s
<1>1. Power(s, 1) = s
  <2>1. 0 \in Nat
    OBVIOUS
  <2> QED BY <2>1, PowerStep, Zenon
<1>2. ASSUME NEW n \in Nat PROVE Pow(s, n + 1) = Pow(s, n) \otimes s
  <2>1. CASE n = 0
    <3>1. n + 1 = 1 /\ 1 # 0
      BY <2>1
    <3> QED BY <3>1, <2>1, <1>1, OneTimes, Zenon DEF Pow
  <2>2. CASE n # 0
    <3>1. n - 1 \in Nat /\ (n - 1) + 1 = n /\ n + 1 # 0
      BY <2>2
    <3>2. Power(s, ((n - 1) + 1) + 1) = Power(s, (n - 1) + 1) \otimes s
      BY <3>1, PowerStep, Zenon
    <3> QED BY <3>1, <3>2, <2>2, Zenon DEF Pow
  <2> QED BY <2>1, <2>2, Zenon
<1>3. 1 # 0
  OBVIOUS
<1> QED BY <1>1, <1>2, <1>3, Zenon DEF Pow

LEMMA PowClosed ==
    ASSUME NEW s \in Element PROVE \A n \in Nat : Pow(s, n) \in Element
<1> DEFINE S == {n \in Nat : Pow(s, n) \in Element}
<1>1. 0 \in S
  <2>1. 0 \in Nat
    OBVIOUS
  <2> QED BY <2>1, PowStep, OneTimes, Zenon
<1>2. ASSUME NEW n \in Nat, n \in S PROVE n + 1 \in S
  <2>1. n + 1 \in Nat
    OBVIOUS
  <2>2. Pow(s, n) \in Element
    BY <1>2, Zenon
  <2> QED BY <2>1, <2>2, PowStep, ElementClosed, ZenonT(60)
<1> HIDE DEF S
<1>3. \A n \in Nat : n \in S
  BY <1>1, <1>2, Induct, Zenon
<1> QED BY <1>3, Zenon DEF S

\* Exponents add up.
LEMMA PowSum ==
    ASSUME NEW s \in Element, NEW m \in Nat
    PROVE  \A n \in Nat : Pow(s, m + n) = Pow(s, m) \otimes Pow(s, n)
<1> DEFINE S == {n \in Nat : Pow(s, m + n) = Pow(s, m) \otimes Pow(s, n)}
<1>1. 0 \in S
  <2>1. 0 \in Nat /\ m + 0 = m
    OBVIOUS
  <2> QED BY <2>1, PowStep, PowClosed, OneTimes, Zenon
<1>2. ASSUME NEW n \in Nat, n \in S PROVE n + 1 \in S
  <2>1. n + 1 \in Nat /\ m + (n + 1) = (m + n) + 1 /\ m + n \in Nat
    OBVIOUS
  <2>2. Pow(s, m + n) = Pow(s, m) \otimes Pow(s, n)
    BY <1>2, Zenon
  <2>3. Pow(s, (m + n) + 1) = Pow(s, m + n) \otimes s /\ Pow(s, n + 1) = Pow(s, n) \otimes s
    BY <2>1, PowStep, Zenon
  <2>4. Pow(s, m) \in Element /\ Pow(s, n) \in Element
    BY PowClosed, Zenon
  <2>5. (Pow(s, m) \otimes Pow(s, n)) \otimes s = Pow(s, m) \otimes (Pow(s, n) \otimes s)
    BY <2>4, ElementRing
  <2>6. Pow(s, m + (n + 1)) = Pow(s, m) \otimes Pow(s, n + 1)
    BY <2>1, <2>2, <2>3, <2>5, Zenon
  <2> QED BY <2>1, <2>6, Zenon
<1> HIDE DEF S
<1>3. \A n \in Nat : n \in S
  BY <1>1, <1>2, Induct, Zenon
<1> QED BY <1>3, Zenon DEF S

-----------------------------------------------------------------------------
(***************************************************************************)
(* Decryption evaluates, at the private element, the polynomial whose      *)
(* coefficients are the elements of the ciphertext.                        *)
(***************************************************************************)
Cv == {cv \in Seq(Element) : Len(cv) >= 2}

\* The terms of that polynomial.
TermsOf(cv, s) == [i \in 1..Len(cv) |-> Pow(s, i - 1) \otimes cv[i]]

LEMMA CvFacts ==
    ASSUME NEW cv \in Cv
    PROVE  /\ cv \in Seq(Element) /\ Len(cv) \in Nat /\ Len(cv) >= 2
           /\ \A i \in 1..Len(cv) : cv[i] \in Element
           /\ cv[1] \in Element /\ cv[2] \in Element
           /\ 1 \in 1..Len(cv) /\ 2 \in 1..Len(cv) /\ Len(cv) - 1 \in Nat /\ Len(cv) - 2 \in Nat
           /\ (Len(cv) - 1) + 1 = Len(cv) /\ (Len(cv) - 2) + 2 = Len(cv) /\ DOMAIN cv = 1..Len(cv)
BY DEF Cv

LEMMA TermsOfFacts ==
    ASSUME NEW cv \in Cv, NEW s \in Element
    PROVE  /\ Terms(TermsOf(cv, s), Len(cv))
           /\ \A i \in 1..Len(cv) : /\ TermsOf(cv, s)[i] = Pow(s, i - 1) \otimes cv[i]
                                    /\ i - 1 \in Nat /\ Pow(s, i - 1) \in Element
<1>1. \A i \in 1..Len(cv) : i - 1 \in Nat
  BY CvFacts
<1>2. \A i \in 1..Len(cv) : Pow(s, i - 1) \in Element
  BY <1>1, PowClosed, Zenon
<1>3. \A i \in 1..Len(cv) : TermsOf(cv, s)[i] = Pow(s, i - 1) \otimes cv[i]
  BY Zenon DEF TermsOf
<1>4. ASSUME NEW i \in 1..Len(cv) PROVE TermsOf(cv, s)[i] \in Element
  <2>1. Pow(s, i - 1) \in Element /\ cv[i] \in Element
    BY <1>2, CvFacts, Zenon
  <2>2. Pow(s, i - 1) \otimes cv[i] \in Element
    BY <2>1, ElementClosed, Zenon
  <2> QED BY <2>2, <1>3, Zenon
<1> QED BY <1>1, <1>2, <1>3, <1>4, Zenon DEF Terms

LEMMA DecryptIsSum ==
    ASSUME NEW cv \in Cv, NEW s \in Element
    PROVE  /\ DecryptCore(cv, s) = SumUpTo(TermsOf(cv, s), Len(cv))
           /\ DecryptCore(cv, s) \in Element
<1> DEFINE n == Len(cv) - 1
           f == TermsOf(cv, s)
           h == [i \in 1..Len(cv) - 1 |-> Power(s, i) \otimes cv[i + 1]]
<1>1. n \in Nat /\ n + 1 = Len(cv)
  BY CvFacts
<1>2. \A i \in 1..n : /\ i + 1 \in 1..Len(cv) /\ (i + 1) - 1 = i /\ i # 0
  BY <1>1
<1>3. \A i \in 1..n : h[i] = Power(s, i) \otimes cv[i + 1]
  BY Zenon
<1>4. ASSUME NEW i \in 1..n PROVE h[i] = f[i + 1]
  <2>1. f[i + 1] = Pow(s, (i + 1) - 1) \otimes cv[i + 1]
    BY <1>2, TermsOfFacts, Zenon
  <2> QED BY <2>1, <1>2, <1>3, Zenon DEF Pow
<1>5. Terms(f, n + 1)
  BY <1>1, TermsOfFacts, Zenon
<1>6. f[1] = cv[1]
  <2>1. 1 - 1 = 0
    OBVIOUS
  <2>2. f[1] = Pow(s, 1 - 1) \otimes cv[1]
    BY CvFacts, TermsOfFacts, Zenon
  <2> QED BY <2>1, <2>2, CvFacts, PowStep, OneTimes, ZenonT(60)
<1>7. DecryptCore(cv, s) = cv[1] \oplus SumUpTo(h, n)
  BY Zenon DEF DecryptCore
<1> HIDE DEF f, h, n
<1>8. SumUpTo(f, n + 1) = f[1] \oplus SumUpTo(h, n)
  BY <1>1, <1>4, <1>5, SumShifted, Zenon
<1>9. SumUpTo(f, n + 1) \in Element
  <2>1. n + 1 \in Nat
    BY <1>1
  <2> QED BY <2>1, <1>5, SumClosed, Zenon
<1> QED BY <1>1, <1>6, <1>7, <1>8, <1>9, Zenon DEF f

-----------------------------------------------------------------------------
\* A ciphertext of two elements, and one of three.
LEMMA DecryptTwo ==
    ASSUME NEW cv \in Cv, NEW s \in Element, Len(cv) = 2
    PROVE  DecryptCore(cv, s) = cv[1] \oplus (cv[2] \otimes s)
<1> DEFINE h == [i \in 1..Len(cv) - 1 |-> Power(s, i) \otimes cv[i + 1]]
<1>1. Len(cv) - 1 = 1 /\ 0 \in Nat /\ 0 + 1 = 1 /\ 1 \in 1..1 /\ 1 + 1 = 2
  OBVIOUS
<1>2. h[1] = s \otimes cv[2]
  <2>1. h[1] = Power(s, 1) \otimes cv[1 + 1]
    BY <1>1, Zenon
  <2> QED BY <2>1, <1>1, PowerStep, Zenon
<1>3. DecryptCore(cv, s) = cv[1] \oplus SumUpTo(h, 1)
  BY <1>1, Zenon DEF DecryptCore
<1> HIDE DEF h
<1>4. SumUpTo(h, 0 + 1) = SumUpTo(h, 0) \oplus h[0 + 1] /\ SumUpTo(h, 0) = Zero
  BY <1>1, SumStep, Zenon
<1>5. cv[2] \in Element
  BY CvFacts, Zenon
<1>6. s \otimes cv[2] = cv[2] \otimes s /\ s \otimes cv[2] \in Element
  BY <1>5, ElementRing, ElementClosed, Zenon
<1>7. Zero \oplus (s \otimes cv[2]) = s \otimes cv[2]
  BY <1>6, ElementGroup, Zenon
<1> QED BY <1>1, <1>2, <1>3, <1>4, <1>6, <1>7, Zenon

LEMMA DecryptThree ==
    ASSUME NEW cv \in Cv, NEW s \in Element, Len(cv) = 3
    PROVE  DecryptCore(cv, s)
               = (cv[1] \oplus (cv[2] \otimes s)) \oplus (cv[3] \otimes (s \otimes s))
<1> DEFINE h == [i \in 1..Len(cv) - 1 |-> Power(s, i) \otimes cv[i + 1]]
<1>1. Len(cv) - 1 = 2 /\ 0 \in Nat /\ 1 \in Nat /\ 0 + 1 = 1 /\ 1 \in 1..2 /\ 2 \in 1..2
      /\ 1 + 1 = 2 /\ 2 + 1 = 3 /\ 3 \in 1..Len(cv)
  OBVIOUS
<1>2. cv[1] \in Element /\ cv[2] \in Element /\ cv[3] \in Element
  BY <1>1, CvFacts, Zenon
<1>3. Power(s, 1) = s /\ Power(s, 2) = s \otimes s
  <2>1. Power(s, (0 + 1) + 1) = Power(s, 0 + 1) \otimes s /\ Power(s, 1) = s
    BY <1>1, PowerStep, Zenon
  <2> QED BY <2>1, <1>1, Zenon
<1>4. h[1] = s \otimes cv[2] /\ h[2] = (s \otimes s) \otimes cv[3]
  <2>1. h[1] = Power(s, 1) \otimes cv[1 + 1] /\ h[2] = Power(s, 2) \otimes cv[2 + 1]
    BY <1>1, Zenon
  <2> QED BY <2>1, <1>1, <1>3, Zenon
<1>5. DecryptCore(cv, s) = cv[1] \oplus SumUpTo(h, 2)
  BY <1>1, Zenon DEF DecryptCore
<1> HIDE DEF h
<1>6. /\ SumUpTo(h, 0) = Zero /\ SumUpTo(h, 0 + 1) = SumUpTo(h, 0) \oplus h[0 + 1]
      /\ SumUpTo(h, 1 + 1) = SumUpTo(h, 1) \oplus h[1 + 1]
  BY <1>1, SumStep, Zenon
<1> DEFINE x == cv[2] \otimes s
           y == cv[3] \otimes (s \otimes s)
<1>7. x \in Element /\ y \in Element /\ s \otimes cv[2] = x /\ (s \otimes s) \otimes cv[3] = y
  BY <1>2, ElementRing, ElementClosed, Zenon
<1> HIDE DEF x, y
<1>8. Zero \oplus x = x /\ cv[1] \oplus (x \oplus y) = (cv[1] \oplus x) \oplus y
  BY <1>2, <1>7, ElementGroup
<1>9. SumUpTo(h, 2) = x \oplus y
  BY <1>1, <1>4, <1>6, <1>7, <1>8, Zenon
<1> QED BY <1>5, <1>8, <1>9, Zenon DEF x, y

-----------------------------------------------------------------------------
(***************************************************************************)
(* The product of two ciphertexts of any number of elements: the sums over *)
(* the elements of the product are taken in the other order.               *)
(***************************************************************************)
\* Terms of f that are those of g, moved up by k places, and Zero elsewhere.
Window(f, g, k, m, n) ==
    /\ Terms(g, m)
    /\ \A j \in 1..n : f[j] = IF j - k \in 1..m THEN g[j - k] ELSE Zero

\* Where a sum over a window stands after n terms.
Reached(n, k, m) == IF n <= k THEN 0 ELSE IF n - k >= m THEN m ELSE n - k

LEMMA SumWindow ==
    ASSUME NEW f, NEW g, NEW k \in Nat, NEW m \in Nat, NEW N \in Nat, Window(f, g, k, m, N)
    PROVE  \A n \in Nat : n <= N => SumUpTo(f, n) = SumUpTo(g, Reached(n, k, m))
<1> DEFINE S == {n \in Nat : n <= N => SumUpTo(f, n) = SumUpTo(g, Reached(n, k, m))}
<1>1. 0 \in S
  <2>1. 0 \in Nat /\ Reached(0, k, m) = 0
    BY DEF Reached
  <2>2. SumUpTo(f, 0) = Zero /\ SumUpTo(g, 0) = Zero
    BY <2>1, SumStep, Zenon
  <2> QED BY <2>1, <2>2, Zenon
<1>2. ASSUME NEW n \in Nat, n \in S PROVE n + 1 \in S
  <2>1. n + 1 \in Nat
    OBVIOUS
  <2>2. SUFFICES ASSUME n + 1 <= N PROVE SumUpTo(f, n + 1) = SumUpTo(g, Reached(n + 1, k, m))
    BY <2>1, Zenon
  <2>3. n <= N /\ n + 1 \in 1..N
    BY <2>2
  <2>4. SumUpTo(f, n) = SumUpTo(g, Reached(n, k, m))
    BY <1>2, <2>3, Zenon
  <2>5. SumUpTo(f, n + 1) = SumUpTo(f, n) \oplus f[n + 1]
    BY SumStep, Zenon
  <2>6. f[n + 1] = IF (n + 1) - k \in 1..m THEN g[(n + 1) - k] ELSE Zero
    BY <2>3, Zenon DEF Window
  <2>7. CASE (n + 1) - k \in 1..m
    <3> DEFINE r == n - k
    <3>1. r \in Nat /\ r + 1 = (n + 1) - k
      BY <2>7
    <3>2. Reached(n, k, m) = r /\ Reached(n + 1, k, m) = r + 1
      BY <2>7 DEF Reached
    <3> HIDE DEF r
    <3>3. SumUpTo(g, r + 1) = SumUpTo(g, r) \oplus g[r + 1]
      BY <3>1, SumStep, Zenon
    <3> QED BY <3>1, <3>2, <3>3, <2>4, <2>5, <2>6, <2>7, Zenon
  <2>8. CASE (n + 1) - k \notin 1..m
    <3> DEFINE r == Reached(n, k, m)
    <3>1. Reached(n + 1, k, m) = r /\ r \in Nat /\ r <= m
      BY <2>8 DEF Reached
    <3> HIDE DEF r
    <3>2. Terms(g, r)
      <4>1. Terms(g, m)
        BY Zenon DEF Window
      <4> QED BY <3>1, <4>1 DEF Terms
    <3>3. SumUpTo(g, r) \in Element
      BY <3>1, <3>2, SumClosed, Zenon
    <3>4. SumUpTo(g, r) \oplus Zero = SumUpTo(g, r)
      BY <3>3, ElementGroup, Zenon
    <3> QED BY <3>1, <3>4, <2>4, <2>5, <2>6, <2>8, Zenon DEF r
  <2> QED BY <2>7, <2>8, Zenon
<1> HIDE DEF S
<1>3. \A n \in Nat : n \in S
  BY <1>1, <1>2, Induct, Zenon
<1> QED BY <1>3, Zenon DEF S

\* A window that is passed completely sums to its terms.
LEMMA SumPastWindow ==
    ASSUME NEW f, NEW g, NEW k \in Nat, NEW m \in Nat, NEW N \in Nat,
           Window(f, g, k, m, N), k + m <= N
    PROVE  SumUpTo(f, N) = SumUpTo(g, m)
<1>1. Reached(N, k, m) = m /\ N <= N
  BY DEF Reached
<1>2. \A n \in Nat : n <= N => SumUpTo(f, n) = SumUpTo(g, Reached(n, k, m))
  BY SumWindow
<1> QED BY <1>1, <1>2, Zenon

\* Sums of nothing but Zero.
LEMMA SumZeros ==
    ASSUME NEW f
    PROVE  \A n \in Nat : (\A i \in 1..n : f[i] = Zero) => SumUpTo(f, n) = Zero
<1> DEFINE S == {n \in Nat : (\A i \in 1..n : f[i] = Zero) => SumUpTo(f, n) = Zero}
<1>1. 0 \in S
  <2>1. 0 \in Nat /\ SumUpTo(f, 0) = Zero
    BY SumStep
  <2> QED BY <2>1, Zenon
<1>2. ASSUME NEW n \in Nat, n \in S PROVE n + 1 \in S
  <2>1. n + 1 \in Nat /\ n + 1 \in 1..n + 1 /\ \A i \in 1..n : i \in 1..n + 1
    OBVIOUS
  <2>2. SumUpTo(f, n + 1) = SumUpTo(f, n) \oplus f[n + 1]
    BY SumStep, Zenon
  <2>3. Zero \oplus Zero = Zero
    BY ElementClosed, ElementGroup, Zenon
  <2> QED BY <1>2, <2>1, <2>2, <2>3, Zenon
<1> HIDE DEF S
<1>3. \A n \in Nat : n \in S
  BY <1>1, <1>2, Induct, Zenon
<1> QED BY <1>3, Zenon DEF S

\* A table of elements, the sums of its rows, and those of its columns down to
\* row n.
Grid(t, N, L) == \A n \in 1..N : Terms(t[n], L)

RowSums(t, N, L) == [j \in 1..N |-> SumUpTo(t[j], L)]

Column(t, N, i) == [j \in 1..N |-> t[j][i]]

ColumnSums(t, N, L, n) == [i \in 1..L |-> SumUpTo(Column(t, N, i), n)]

\* The columns of a table are terms to any height.
LEMMA ColumnTerms ==
    ASSUME NEW t, NEW N \in Nat, NEW L \in Nat, Grid(t, N, L),
           NEW n \in Nat, n <= N
    PROVE  /\ \A i \in 1..L : Terms(Column(t, N, i), n)
           /\ Terms(ColumnSums(t, N, L, n), L)
<1>1. \A j \in 1..n : j \in 1..N
  OBVIOUS
<1>2. ASSUME NEW i \in 1..L PROVE Terms(Column(t, N, i), n)
  <2>1. \A j \in 1..N : t[j][i] \in Element
    BY Zenon DEF Grid, Terms
  <2> QED BY <1>1, <2>1, Zenon DEF Column, Terms
<1>3. \A i \in 1..L : SumUpTo(Column(t, N, i), n) \in Element
  BY <1>2, SumClosed, Zenon
<1> QED BY <1>2, <1>3, Zenon DEF ColumnSums, Terms

LEMMA SumsSwapped ==
    ASSUME NEW t, NEW N \in Nat, NEW L \in Nat, Grid(t, N, L)
    PROVE  \A n \in Nat :
               n <= N => SumUpTo(RowSums(t, N, L), n) = SumUpTo(ColumnSums(t, N, L, n), L)
<1> DEFINE S == {n \in Nat : n <= N => SumUpTo(RowSums(t, N, L), n)
                                           = SumUpTo(ColumnSums(t, N, L, n), L)}
<1>1. 0 \in S
  <2>1. 0 \in Nat
    OBVIOUS
  <2>2. \A f : SumUpTo(f, 0) = Zero
    BY <2>1, SumStep, Zenon
  <2>3. \A i \in 1..L : ColumnSums(t, N, L, 0)[i] = Zero
    BY <2>2, Zenon DEF ColumnSums
  <2>4. SumUpTo(ColumnSums(t, N, L, 0), L) = Zero
    BY <2>3, SumZeros, Zenon
  <2> QED BY <2>1, <2>2, <2>4, Zenon
<1>2. ASSUME NEW n \in Nat, n \in S PROVE n + 1 \in S
  <2>1. n + 1 \in Nat
    OBVIOUS
  <2>2. SUFFICES ASSUME n + 1 <= N
                 PROVE  SumUpTo(RowSums(t, N, L), n + 1) = SumUpTo(ColumnSums(t, N, L, n + 1), L)
    BY <2>1, Zenon
  <2>3. n <= N /\ n + 1 \in 1..N
    BY <2>2
  <2> DEFINE f == ColumnSums(t, N, L, n)
             h == ColumnSums(t, N, L, n + 1)
  <2>4. SumUpTo(RowSums(t, N, L), n) = SumUpTo(f, L)
    BY <1>2, <2>3, Zenon
  <2>5. SumUpTo(RowSums(t, N, L), n + 1) = SumUpTo(RowSums(t, N, L), n) \oplus SumUpTo(t[n + 1], L)
    <3>1. RowSums(t, N, L)[n + 1] = SumUpTo(t[n + 1], L)
      BY <2>3, Zenon DEF RowSums
    <3> QED BY <3>1, SumStep, Zenon
  <2>6. Terms(f, L) /\ Terms(t[n + 1], L)
    BY <2>3, ColumnTerms, Zenon DEF Grid
  <2>7. \A i \in 1..L : h[i] = f[i] \oplus t[n + 1][i]
    <3> TAKE i \in 1..L
    <3>1. f[i] = SumUpTo(Column(t, N, i), n) /\ h[i] = SumUpTo(Column(t, N, i), n + 1)
      BY Zenon DEF ColumnSums
    <3>2. Column(t, N, i)[n + 1] = t[n + 1][i]
      BY <2>3, Zenon DEF Column
    <3> QED BY <3>1, <3>2, SumStep, Zenon
  <2> DEFINE g == t[n + 1]
  <2>8. Added(h, f, g, L)
    BY <2>6, <2>7, Zenon DEF Added
  <2> HIDE DEF f, g, h
  <2>9. SumUpTo(h, L) = SumUpTo(f, L) \oplus SumUpTo(g, L)
    BY <2>8, AddedSum
  <2> QED BY <2>4, <2>5, <2>9, Zenon DEF g, h
<1> HIDE DEF S
<1>3. \A n \in Nat : n \in S
  BY <1>1, <1>2, Induct, Zenon
<1> QED BY <1>3, Zenon DEF S

-----------------------------------------------------------------------------
\* Products of products.
LEMMA RegroupFactors ==
    \A w, x, y, z \in Element :
        (w \otimes x) \otimes (y \otimes z) = (w \otimes y) \otimes (x \otimes z)
<1> SUFFICES ASSUME NEW w \in Element, NEW x \in Element, NEW y \in Element, NEW z \in Element
             PROVE  (w \otimes x) \otimes (y \otimes z) = (w \otimes y) \otimes (x \otimes z)
  BY Zenon
<1>1. (w \otimes x) \otimes (y \otimes z) = ((w \otimes x) \otimes y) \otimes z
  BY ElementClosed, ElementRing
<1>2. (w \otimes x) \otimes y = (w \otimes y) \otimes x
  BY RegroupProduct, ZenonT(60)
<1>3. ((w \otimes y) \otimes x) \otimes z = (w \otimes y) \otimes (x \otimes z)
  BY ElementClosed, ElementRing
<1> QED BY <1>1, <1>2, <1>3, Zenon

\* The elements of a product of ciphertexts that are not both of two elements.
Convolved(c, d) ==
    [n \in 1..Len(c) + Len(d) - 1 |->
        SumUpTo([i \in 1..Len(c) |->
                    IF n + 1 - i \in 1..Len(d) THEN c[i] \otimes d[n + 1 - i] ELSE Zero],
                Len(c))]

\* The terms of its decryption, one row for each element.
Products(c, d, s) ==
    [n \in 1..Len(c) + Len(d) - 1 |->
        [i \in 1..Len(c) |-> IF n + 1 - i \in 1..Len(d)
                             THEN TermsOf(c, s)[i] \otimes TermsOf(d, s)[n + 1 - i] ELSE Zero]]

LEMMA ConvolvedCv ==
    ASSUME NEW c \in Cv, NEW d \in Cv
    PROVE  /\ Convolved(c, d) \in Cv /\ Len(Convolved(c, d)) = Len(c) + Len(d) - 1
           /\ Len(c) + Len(d) - 1 \in Nat
<1> DEFINE N == Len(c) + Len(d) - 1
<1>1. N \in Nat /\ N >= 2 /\ Len(c) \in Nat
  BY CvFacts
<1>2. ASSUME NEW n \in 1..N PROVE Convolved(c, d)[n] \in Element
  <2> DEFINE r == [i \in 1..Len(c) |->
                      IF n + 1 - i \in 1..Len(d) THEN c[i] \otimes d[n + 1 - i] ELSE Zero]
  <2>1. Convolved(c, d)[n] = SumUpTo(r, Len(c))
    BY Zenon DEF Convolved
  <2>2. ASSUME NEW i \in 1..Len(c) PROVE r[i] \in Element
    <3>1. r[i] = IF n + 1 - i \in 1..Len(d) THEN c[i] \otimes d[n + 1 - i] ELSE Zero
      BY Zenon
    <3>2. n + 1 - i \in 1..Len(d) => c[i] \otimes d[n + 1 - i] \in Element
      BY CvFacts, ElementClosed, Zenon
    <3> QED BY <3>1, <3>2, ElementClosed, Zenon
  <2> HIDE DEF r
  <2>3. Terms(r, Len(c))
    BY <2>2, Zenon DEF Terms
  <2> QED BY <1>1, <2>1, <2>3, SumClosed, Zenon
<1>3. Convolved(c, d) = [n \in 1..N |-> Convolved(c, d)[n]]
  BY Zenon DEF Convolved
<1> HIDE DEF N
<1>4. Convolved(c, d) \in Seq(Element) /\ Len(Convolved(c, d)) = N
  BY <1>1, <1>2, <1>3
<1> QED BY <1>1, <1>4, Zenon DEF Cv, N

\* Row n of the terms sums to term n of the decryption.
LEMMA ProductRow ==
    ASSUME NEW c \in Cv, NEW d \in Cv, NEW s \in Element,
           NEW n \in 1..Len(c) + Len(d) - 1
    PROVE  /\ Terms(Products(c, d, s)[n], Len(c))
           /\ SumUpTo(Products(c, d, s)[n], Len(c)) = TermsOf(Convolved(c, d), s)[n]
<1> DEFINE p == Pow(s, n - 1)
           f == [i \in 1..Len(c) |->
                    IF n + 1 - i \in 1..Len(d) THEN c[i] \otimes d[n + 1 - i] ELSE Zero]
           h == Products(c, d, s)[n]
<1>0. Len(c) \in Nat /\ n - 1 \in Nat
  BY CvFacts
<1>1. p \in Element
  BY <1>0, PowClosed, Zenon
<1>2. Convolved(c, d)[n] = SumUpTo(f, Len(c))
  BY Zenon DEF Convolved
<1>3. ASSUME NEW i \in 1..Len(c) PROVE f[i] \in Element /\ h[i] = p \otimes f[i]
  <2>1. f[i] = IF n + 1 - i \in 1..Len(d) THEN c[i] \otimes d[n + 1 - i] ELSE Zero
    BY Zenon
  <2>2. h[i] = IF n + 1 - i \in 1..Len(d)
               THEN TermsOf(c, s)[i] \otimes TermsOf(d, s)[n + 1 - i] ELSE Zero
    BY Zenon DEF Products
  <2> HIDE DEF f, h
  <2>3. CASE n + 1 - i \in 1..Len(d)
    <3> DEFINE j == n + 1 - i
               u == Pow(s, i - 1)
               v == Pow(s, j - 1)
    <3>1. i - 1 \in Nat /\ j - 1 \in Nat /\ (i - 1) + (j - 1) = n - 1
      BY <2>3, <1>0
    <3>2. j \in 1..Len(d)
      BY <2>3, Zenon
    <3>3. u \in Element /\ v \in Element /\ c[i] \in Element /\ d[j] \in Element
      BY <3>1, <3>2, PowClosed, CvFacts, Zenon
    <3>4. TermsOf(c, s)[i] = u \otimes c[i] /\ TermsOf(d, s)[j] = v \otimes d[j]
      BY <3>2, Zenon DEF TermsOf
    <3>5. p = u \otimes v
      BY <3>1, PowSum, Zenon
    <3>6. f[i] = c[i] \otimes d[j] /\ h[i] = TermsOf(c, s)[i] \otimes TermsOf(d, s)[j]
      BY <2>1, <2>2, <2>3, Zenon
    <3> HIDE DEF u, v, p, j
    <3>7. f[i] \in Element
      BY <3>3, <3>6, ElementClosed
    <3>8. (u \otimes c[i]) \otimes (v \otimes d[j]) = (u \otimes v) \otimes (c[i] \otimes d[j])
      BY <3>3, RegroupFactors
    <3> QED BY <3>4, <3>5, <3>6, <3>7, <3>8, Zenon
  <2>4. CASE n + 1 - i \notin 1..Len(d)
    <3>1. f[i] = Zero /\ h[i] = Zero
      BY <2>1, <2>2, <2>4, Zenon
    <3>2. p \otimes Zero = Zero /\ Zero \in Element
      BY <1>1, ElementClosed, ElementRing, ZeroTimes, Zenon
    <3> QED BY <3>1, <3>2, Zenon
  <2> QED BY <2>3, <2>4, Zenon
<1> HIDE DEF p, f, h
<1>4. Terms(f, Len(c)) /\ ScaledBy(h, p, f, Len(c))
  BY <1>1, <1>3, Zenon DEF ScaledBy, Terms
<1>5. SumUpTo(h, Len(c)) = p \otimes SumUpTo(f, Len(c))
  BY <1>0, <1>4, ScaledSum
<1>6. TermsOf(Convolved(c, d), s)[n] = p \otimes Convolved(c, d)[n]
  BY ConvolvedCv, Zenon DEF TermsOf, p
<1>7. Terms(h, Len(c))
  BY <1>1, <1>3, ElementClosed, Zenon DEF Terms
<1> QED BY <1>2, <1>5, <1>6, <1>7, Zenon DEF h

\* Column i of the terms sums to term i of the first factor times the
\* decryption of the second.
LEMMA ProductColumn ==
    ASSUME NEW c \in Cv, NEW d \in Cv, NEW s \in Element, NEW i \in 1..Len(c)
    PROVE  SumUpTo(Column(Products(c, d, s), Len(c) + Len(d) - 1, i), Len(c) + Len(d) - 1)
               = TermsOf(c, s)[i] \otimes SumUpTo(TermsOf(d, s), Len(d))
<1> DEFINE N == Len(c) + Len(d) - 1
           x == TermsOf(c, s)[i]
           f == Column(Products(c, d, s), N, i)
           t == TermsOf(d, s)
           g == [j \in 1..Len(d) |-> x \otimes t[j]]
<1>1. Len(d) \in Nat /\ i - 1 \in Nat /\ N \in Nat /\ (i - 1) + Len(d) <= N
  BY CvFacts
<1>2. x \in Element /\ Terms(t, Len(d))
  BY TermsOfFacts, Zenon DEF Terms
<1>3. \A j \in 1..N : f[j] = IF j + 1 - i \in 1..Len(d) THEN x \otimes t[j + 1 - i] ELSE Zero
  BY Zenon DEF Column, Products
<1>4. \A j \in 1..Len(d) : g[j] = x \otimes t[j]
  BY Zenon
<1> HIDE DEF N, x, f, t, g
<1>5. ScaledBy(g, x, t, Len(d))
  BY <1>2, <1>4, Zenon DEF ScaledBy
<1>6. Terms(g, Len(d))
  BY <1>2, <1>4, ElementClosed, Zenon DEF Terms
<1>7. \A j \in 1..N : j + 1 - i = j - (i - 1)
  BY <1>1
<1>8. Window(f, g, i - 1, Len(d), N)
  BY <1>3, <1>4, <1>6, <1>7, Zenon DEF Window
<1>9. SumUpTo(f, N) = SumUpTo(g, Len(d))
  BY <1>1, <1>8, SumPastWindow
<1>10. SumUpTo(g, Len(d)) = x \otimes SumUpTo(t, Len(d))
  BY <1>1, <1>5, ScaledSum
<1> QED BY <1>9, <1>10, Zenon DEF N, x, f, t

\* A product decrypts to the product.
LEMMA ConvolvedPhase ==
    ASSUME NEW c \in Cv, NEW d \in Cv, NEW s \in Element
    PROVE  DecryptCore(Convolved(c, d), s) = DecryptCore(c, s) \otimes DecryptCore(d, s)
<1> DEFINE N == Len(c) + Len(d) - 1
           L == Len(c)
           t == Products(c, d, s)
           e == Convolved(c, d)
           D == DecryptCore(d, s)
           f == TermsOf(c, s)
           k == ColumnSums(t, N, L, N)
<1>1. N \in Nat /\ L \in Nat /\ N <= N
  BY CvFacts
<1>2. e \in Cv /\ Len(e) = N
  BY ConvolvedCv, Zenon
<1>3. DecryptCore(e, s) = SumUpTo(TermsOf(e, s), N)
  BY <1>2, DecryptIsSum, Zenon
<1>4. Grid(t, N, L) /\ \A n \in 1..N : SumUpTo(t[n], L) = TermsOf(e, s)[n]
  BY ProductRow, Zenon DEF Grid
<1>5. \A i \in 1..L : SumUpTo(Column(t, N, i), N) = f[i] \otimes D
  BY ProductColumn, DecryptIsSum
<1>6. Terms(f, L) /\ DecryptCore(c, s) = SumUpTo(f, L) /\ DecryptCore(c, s) \in Element /\ D \in Element
  BY TermsOfFacts, DecryptIsSum, Zenon
<1> HIDE DEF N, L, t, e, D, f
<1>7. SumUpTo(RowSums(t, N, L), N) = SumUpTo(k, L)
  BY <1>1, <1>4, SumsSwapped, Zenon
<1>8. SumUpTo(RowSums(t, N, L), N) = SumUpTo(TermsOf(e, s), N)
  <2>1. \A n \in 1..N : RowSums(t, N, L)[n] = TermsOf(e, s)[n]
    BY <1>4, Zenon DEF RowSums
  <2> QED BY <1>1, <2>1, SumEqual, Zenon
<1>9. \A i \in 1..L : k[i] = D \otimes f[i]
  <2> TAKE i \in 1..L
  <2>1. k[i] = f[i] \otimes D
    BY <1>5, Zenon DEF ColumnSums
  <2>2. f[i] \in Element
    BY <1>6, Zenon DEF Terms
  <2> QED BY <1>6, <2>1, <2>2, ElementRing, Zenon
<1> HIDE DEF k
<1>10. ScaledBy(k, D, f, L)
  BY <1>6, <1>9, Zenon DEF ScaledBy
<1>11. SumUpTo(k, L) = D \otimes SumUpTo(f, L)
  BY <1>1, <1>10, ScaledSum
<1>12. D \otimes DecryptCore(c, s) = DecryptCore(c, s) \otimes D
  BY <1>6, ElementRing, Zenon
<1> QED BY <1>3, <1>6, <1>7, <1>8, <1>11, <1>12, Zenon DEF e, D

-----------------------------------------------------------------------------
(***************************************************************************)
(* What the operations on the elements of ciphertexts do to the message.   *)
(***************************************************************************)
LEMMA MakeCv ==
    ASSUME NEW n \in Nat, n >= 2, NEW f, f = [i \in 1..n |-> f[i]],
           \A i \in 1..n : f[i] \in Element
    PROVE  f \in Cv /\ Len(f) = n
<1>1. f \in Seq(Element) /\ Len(f) = n
  OBVIOUS
<1> QED BY <1>1, Zenon DEF Cv

LEMMA PairCv ==
    ASSUME NEW x \in Element, NEW y \in Element
    PROVE  <<x, y>> \in Cv /\ Len(<<x, y>>) = 2 /\ <<x, y>>[1] = x /\ <<x, y>>[2] = y
BY DEF Cv

\* Two terms.
LEMMA SumTwo ==
    ASSUME NEW f, f[1] \in Element, f[2] \in Element
    PROVE  SumUpTo(f, 2) = f[1] \oplus f[2]
<1>1. 0 \in Nat /\ 1 \in Nat /\ 0 + 1 = 1 /\ 1 + 1 = 2
  OBVIOUS
<1>2. /\ SumUpTo(f, 0) = Zero /\ SumUpTo(f, 0 + 1) = SumUpTo(f, 0) \oplus f[0 + 1]
      /\ SumUpTo(f, 1 + 1) = SumUpTo(f, 1) \oplus f[1 + 1]
  BY <1>1, SumStep, Zenon
<1>3. Zero \oplus f[1] = f[1]
  BY ElementGroup, Zenon
<1> QED BY <1>1, <1>2, <1>3, Zenon

\* The decryption with its terms padded to n.
Padded(cv, s, n) == [i \in 1..n |-> IF i \in 1..Len(cv) THEN TermsOf(cv, s)[i] ELSE Zero]

LEMMA PaddedSum ==
    ASSUME NEW cv \in Cv, NEW s \in Element, NEW n \in Nat, Len(cv) <= n
    PROVE  /\ Terms(Padded(cv, s, n), n)
           /\ SumUpTo(Padded(cv, s, n), n) = DecryptCore(cv, s)
<1> DEFINE f == Padded(cv, s, n)
           g == TermsOf(cv, s)
<1>1. Len(cv) \in Nat /\ 0 \in Nat /\ 0 + Len(cv) <= n /\ \A j \in 1..n : j - 0 = j
  BY CvFacts
<1>2. Terms(g, Len(cv)) /\ DecryptCore(cv, s) = SumUpTo(g, Len(cv))
  BY TermsOfFacts, DecryptIsSum, Zenon
<1>3. \A j \in 1..n : f[j] = IF j \in 1..Len(cv) THEN g[j] ELSE Zero
  BY Zenon DEF Padded
<1> HIDE DEF f, g
<1>4. Window(f, g, 0, Len(cv), n)
  BY <1>1, <1>2, <1>3, Zenon DEF Window
<1>5. SumUpTo(f, n) = SumUpTo(g, Len(cv))
  BY <1>1, <1>4, SumPastWindow
<1>6. Terms(f, n)
  BY <1>2, <1>3, ElementClosed, Zenon DEF Terms
<1> QED BY <1>2, <1>5, <1>6, Zenon DEF f

\* A sum decrypts to the sum, also of ciphertexts of different lengths.
LEMMA AddPhase ==
    ASSUME NEW c \in Cv, NEW d \in Cv, NEW s \in Element
    PROVE  /\ EvalAddCore(c, d) \in Cv /\ Len(EvalAddCore(c, d)) = LongerLen(c, d)
           /\ DecryptCore(EvalAddCore(c, d), s) = DecryptCore(c, s) \oplus DecryptCore(d, s)
<1> DEFINE n == LongerLen(c, d)
           e == EvalAddCore(c, d)
           f == Padded(c, s, n)
           g == Padded(d, s, n)
           h == TermsOf(e, s)
<1>1. n \in Nat /\ n >= 2 /\ Len(c) <= n /\ Len(d) <= n /\ Len(c) \in Nat /\ Len(d) \in Nat
  BY CvFacts DEF LongerLen
<1>2. /\ \A i \in 1..n : e[i] = IF i > Len(d) THEN c[i] ELSE IF i > Len(c) THEN d[i] ELSE c[i] \oplus d[i]
      /\ e = [i \in 1..n |-> e[i]]
  BY Zenon DEF EvalAddCore
<1>3. \A i \in 1..n : /\ i > Len(d) => i \in 1..Len(c) /\ i \notin 1..Len(d)
                      /\ ~(i > Len(d)) => i \in 1..Len(d)
                      /\ i > Len(c) => i \notin 1..Len(c)
                      /\ ~(i > Len(c)) => i \in 1..Len(c)
  BY <1>1 DEF LongerLen
<1> HIDE DEF n, e
<1>4. \A i \in 1..n : e[i] \in Element
  BY <1>2, <1>3, CvFacts, ElementClosed, SMTT(60)
<1>5. e \in Cv /\ Len(e) = n
  BY <1>1, <1>2, <1>4, MakeCv, SMTT(60)
<1>6. /\ Terms(f, n) /\ Terms(g, n)
      /\ SumUpTo(f, n) = DecryptCore(c, s) /\ SumUpTo(g, n) = DecryptCore(d, s)
  BY <1>1, PaddedSum
<1>7. ASSUME NEW i \in 1..n PROVE h[i] = f[i] \oplus g[i]
  <2> DEFINE p == Pow(s, i - 1)
  <2>1. p \in Element /\ h[i] = p \otimes e[i]
    BY <1>5, TermsOfFacts
  <2>2. /\ f[i] = IF i \in 1..Len(c) THEN TermsOf(c, s)[i] ELSE Zero
        /\ g[i] = IF i \in 1..Len(d) THEN TermsOf(d, s)[i] ELSE Zero
    BY Zenon DEF Padded
  <2>3. /\ i \in 1..Len(c) => c[i] \in Element /\ TermsOf(c, s)[i] = p \otimes c[i]
        /\ i \in 1..Len(d) => d[i] \in Element /\ TermsOf(d, s)[i] = p \otimes d[i]
    BY CvFacts, TermsOfFacts, Zenon
  <2> HIDE DEF f, g, h, p
  <2>4. CASE i > Len(d)
    <3>1. e[i] = c[i] /\ f[i] = p \otimes c[i] /\ g[i] = Zero /\ c[i] \in Element
      BY <1>2, <1>3, <2>2, <2>3, <2>4, Zenon
    <3>2. p \otimes c[i] \in Element
      BY <2>1, <3>1, ElementClosed, Zenon
    <3>3. (p \otimes c[i]) \oplus Zero = p \otimes c[i]
      BY <3>2, ElementGroup, Zenon
    <3> QED BY <2>1, <3>1, <3>3, Zenon
  <2>5. CASE ~(i > Len(d)) /\ i > Len(c)
    <3>1. e[i] = d[i] /\ g[i] = p \otimes d[i] /\ f[i] = Zero /\ d[i] \in Element
      BY <1>2, <1>3, <2>2, <2>3, <2>5, Zenon
    <3>2. p \otimes d[i] \in Element
      BY <2>1, <3>1, ElementClosed, Zenon
    <3>3. Zero \oplus (p \otimes d[i]) = p \otimes d[i]
      BY <3>2, ElementGroup, Zenon
    <3> QED BY <2>1, <3>1, <3>3, Zenon
  <2>6. CASE ~(i > Len(d)) /\ ~(i > Len(c))
    <3>1. /\ e[i] = c[i] \oplus d[i] /\ f[i] = p \otimes c[i] /\ g[i] = p \otimes d[i]
          /\ c[i] \in Element /\ d[i] \in Element
      BY <1>2, <1>3, <2>2, <2>3, <2>6, ZenonT(60)
    <3>2. p \otimes (c[i] \oplus d[i]) = (p \otimes c[i]) \oplus (p \otimes d[i])
      BY <2>1, <3>1, ElementRing
    <3> QED BY <2>1, <3>1, <3>2, Zenon
  <2> QED BY <2>4, <2>5, <2>6, Zenon
<1>8. DecryptCore(e, s) = SumUpTo(h, n)
  BY <1>5, DecryptIsSum, Zenon
<1> HIDE DEF f, g, h
<1>9. Added(h, f, g, n)
  BY <1>6, <1>7, Zenon DEF Added
<1>10. SumUpTo(h, n) = SumUpTo(f, n) \oplus SumUpTo(g, n)
  BY <1>1, <1>9, AddedSum
<1> QED BY <1>5, <1>6, <1>8, <1>10, Zenon DEF e, n

\* Every element multiplied by x.
LEMMA ScaledPhase ==
    ASSUME NEW c \in Cv, NEW s \in Element, NEW x \in Element,
           NEW e, e = [i \in 1..Len(c) |-> e[i]], \A i \in 1..Len(c) : e[i] = x \otimes c[i]
    PROVE  /\ e \in Cv /\ Len(e) = Len(c)
           /\ DecryptCore(e, s) = x \otimes DecryptCore(c, s)
<1> DEFINE n == Len(c)
           f == TermsOf(c, s)
           h == TermsOf(e, s)
<1>1. n \in Nat /\ n >= 2
  BY CvFacts
<1>2. \A i \in 1..n : e[i] \in Element
  BY CvFacts, ElementClosed, ZenonT(60)
<1>3. e \in Cv /\ Len(e) = n
  BY <1>1, <1>2, MakeCv
<1>4. ASSUME NEW i \in 1..n PROVE h[i] = x \otimes f[i]
  <2> DEFINE p == Pow(s, i - 1)
  <2>1. p \in Element /\ h[i] = p \otimes e[i] /\ f[i] = p \otimes c[i]
    BY <1>3, TermsOfFacts
  <2>2. c[i] \in Element /\ e[i] = x \otimes c[i]
    BY CvFacts, Zenon
  <2> HIDE DEF p, f, h
  <2>3. p \otimes (x \otimes c[i]) = (p \otimes x) \otimes c[i]
    BY <2>1, <2>2, ElementRing
  <2>4. p \otimes x = x \otimes p
    BY <2>1, ElementRing, Zenon
  <2>5. (x \otimes p) \otimes c[i] = x \otimes (p \otimes c[i])
    BY <2>1, <2>2, ElementRing
  <2> QED BY <2>1, <2>2, <2>3, <2>4, <2>5, Zenon
<1>5. DecryptCore(e, s) = SumUpTo(h, n) /\ DecryptCore(c, s) = SumUpTo(f, n) /\ Terms(f, n)
  BY <1>3, DecryptIsSum, TermsOfFacts, Zenon
<1> HIDE DEF f, h, n
<1>6. ScaledBy(h, x, f, n)
  BY <1>4, <1>5, Zenon DEF ScaledBy
<1>7. SumUpTo(h, n) = x \otimes SumUpTo(f, n)
  BY <1>1, <1>6, ScaledSum
<1> QED BY <1>3, <1>5, <1>7, Zenon DEF n

\* The negation is the multiplication by the negated One.
LEMMA NegateTimes ==
    ASSUME NEW x \in Element
    PROVE  Negate(One) \in Element /\ Negate(x) = Negate(One) \otimes x
<1> DEFINE u == Negate(One)
           y == u \otimes x
<1>1. u \in Element /\ One \in Element /\ Zero \in Element
  BY OneTimes, ElementClosed, Zenon
<1>2. y \in Element /\ Negate(x) \in Element
  BY <1>1, ElementClosed, Zenon
<1>3. x \oplus y = Zero
  <2>1. One \otimes x = x
    BY OneTimes, Zenon
  <2>2. (One \oplus u) \otimes x = (One \otimes x) \oplus (u \otimes x)
    BY <1>1, ElementRing
  <2>3. One \oplus u = Zero
    BY <1>1, ElementGroup, Zenon
  <2>4. Zero \otimes x = Zero
    BY ZeroTimes, Zenon
  <2> QED BY <2>1, <2>2, <2>3, <2>4, Zenon
<1> HIDE DEF u, y
<1>4. (Negate(x) \oplus x) \oplus y = Negate(x) \oplus (x \oplus y)
  BY <1>2, ElementGroup
<1>5. Negate(x) \oplus x = Zero /\ Zero \oplus y = y /\ Negate(x) \oplus Zero = Negate(x)
  BY <1>2, ElementGroup, Zenon
<1> QED BY <1>1, <1>3, <1>4, <1>5, Zenon DEF u, y

\* A negated ciphertext.
Negated(cv) == [n \in DOMAIN cv |-> Negate(cv[n])]

LEMMA NegatedPhase ==
    ASSUME NEW c \in Cv, NEW s \in Element
    PROVE  /\ Negated(c) \in Cv /\ Len(Negated(c)) = Len(c)
           /\ DecryptCore(Negated(c), s) = Negate(DecryptCore(c, s))
<1> DEFINE e == Negated(c)
           u == Negate(One)
<1>1. /\ e = [i \in 1..Len(c) |-> e[i]]
      /\ \A i \in 1..Len(c) : e[i] = Negate(c[i])
  BY CvFacts, Zenon DEF Negated
<1>2. u \in Element /\ \A x \in Element : Negate(x) = u \otimes x
  BY OneTimes, NegateTimes, Zenon
<1> HIDE DEF e, u
<1>3. \A i \in 1..Len(c) : e[i] = u \otimes c[i]
  BY <1>1, <1>2, CvFacts, Zenon
<1>4. e \in Cv /\ Len(e) = Len(c) /\ DecryptCore(e, s) = u \otimes DecryptCore(c, s)
  BY <1>1, <1>2, <1>3, ScaledPhase
<1>5. DecryptCore(c, s) \in Element
  BY DecryptIsSum, Zenon
<1> QED BY <1>2, <1>4, <1>5, Zenon DEF e

\* A difference decrypts to the difference.
LEMMA SubPhase ==
    ASSUME NEW c \in Cv, NEW d \in Cv, NEW s \in Element
    PROVE  /\ EvalSubCore(c, d) \in Cv /\ Len(EvalSubCore(c, d)) = LongerLen(c, d)
           /\ DecryptCore(EvalSubCore(c, d), s) = DecryptCore(c, s) \ominus DecryptCore(d, s)
<1> DEFINE e == Negated(d)
<1>1. e \in Cv /\ Len(e) = Len(d) /\ DecryptCore(e, s) = Negate(DecryptCore(d, s))
  BY NegatedPhase, Zenon
<1>2. \A n \in 1..Len(d) : e[n] = Negate(d[n])
  BY CvFacts, Zenon DEF Negated
<1> HIDE DEF e
<1>3. LongerLen(c, e) = LongerLen(c, d)
  BY <1>1, Zenon DEF LongerLen
<1>4. \A n \in 1..LongerLen(c, d) : ~(n > Len(d)) => n \in 1..Len(d)
  BY CvFacts DEF LongerLen
<1>5. EvalSubCore(c, d) = EvalAddCore(c, e)
  BY <1>1, <1>2, <1>3, <1>4, Zenon DEF EvalSubCore, EvalAddCore, \ominus
<1>6. /\ EvalAddCore(c, e) \in Cv /\ Len(EvalAddCore(c, e)) = LongerLen(c, e)
      /\ DecryptCore(EvalAddCore(c, e), s) = DecryptCore(c, s) \oplus DecryptCore(e, s)
  BY <1>1, AddPhase, ZenonT(60)
<1> QED BY <1>1, <1>3, <1>5, <1>6, Zenon DEF \ominus

\* e is c with p added to its first element.
FirstAdded(e, c, p) ==
    /\ e = [i \in 1..Len(c) |-> e[i]]
    /\ e[1] = c[1] \oplus p
    /\ \A i \in 2..Len(c) : e[i] = c[i]

\* An element added to the first one is added to the message.
LEMMA FirstPhase ==
    ASSUME NEW c \in Cv, NEW s \in Element, NEW p \in Element, NEW e, FirstAdded(e, c, p)
    PROVE  /\ e \in Cv /\ Len(e) = Len(c)
           /\ DecryptCore(e, s) = DecryptCore(c, s) \oplus p
<1>0. /\ e = [i \in 1..Len(c) |-> e[i]] /\ e[1] = c[1] \oplus p
      /\ \A i \in 2..Len(c) : e[i] = c[i]
  BY Zenon DEF FirstAdded
<1> DEFINE d == <<p, Zero>>
<1>1. Zero \in Element
  BY ElementClosed, Zenon
<1>2. d \in Cv /\ Len(d) = 2 /\ d[1] = p /\ d[2] = Zero
  BY <1>1, PairCv, Zenon
<1> HIDE DEF d
<1>3. DecryptCore(d, s) = p
  <2>1. DecryptCore(d, s) = d[1] \oplus (d[2] \otimes s)
    BY <1>2, DecryptTwo, Zenon
  <2>2. Zero \otimes s = Zero /\ p \oplus Zero = p
    BY ZeroTimes, ElementGroup, Zenon
  <2> QED BY <1>2, <2>1, <2>2, Zenon
<1>4. LongerLen(c, d) = Len(c)
  BY <1>2, CvFacts DEF LongerLen
<1>5. \A i \in 1..Len(c) : /\ ~(i > 2) /\ i # 1 => i = 2
                           /\ i > 2 => i \in 2..Len(c)
                           /\ ~(i > Len(c))
  BY CvFacts
<1>6. c[2] \oplus Zero = c[2] /\ 2 \in 2..Len(c)
  <2>1. c[2] \in Element
    BY CvFacts, Zenon
  <2>2. 2 \in 2..Len(c)
    BY CvFacts
  <2> QED BY <2>1, <2>2, ElementGroup, Zenon
<1>7. ~(1 > 2) /\ ~(2 > 2)
  OBVIOUS
<1>8. EvalAddCore(c, d)
          = [i \in 1..Len(c) |-> IF i > 2 THEN c[i] ELSE IF i > Len(c) THEN d[i] ELSE c[i] \oplus d[i]]
  BY <1>2, <1>4, Zenon DEF EvalAddCore
<1>9. \A i \in 1..Len(c) :
         (IF i > 2 THEN c[i] ELSE IF i > Len(c) THEN d[i] ELSE c[i] \oplus d[i]) = e[i]
  <2> TAKE i \in 1..Len(c)
  <2>1. CASE i > 2
    BY <1>0, <1>5, <2>1, Zenon
  <2>2. CASE i = 1
    BY <1>0, <1>2, <1>5, <1>7, <2>2, Zenon
  <2>3. CASE ~(i > 2) /\ i # 1
    BY <1>0, <1>2, <1>5, <1>6, <1>7, <2>3, ZenonT(60)
  <2> QED BY <2>1, <2>2, <2>3, Zenon
<1>10. EvalAddCore(c, d) = [i \in 1..Len(c) |-> e[i]]
  BY <1>8, <1>9, SMTT(60)
<1>11. EvalAddCore(c, d) = e
  BY <1>0, <1>10, Zenon
<1>12. /\ EvalAddCore(c, d) \in Cv /\ Len(EvalAddCore(c, d)) = LongerLen(c, d)
       /\ DecryptCore(EvalAddCore(c, d), s) = DecryptCore(c, s) \oplus DecryptCore(d, s)
  BY <1>2, AddPhase, Zenon
<1> QED BY <1>3, <1>4, <1>11, <1>12, Zenon

=============================================================================
