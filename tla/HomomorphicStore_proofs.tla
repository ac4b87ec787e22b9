----------------------- MODULE HomomorphicStore_proofs -----------------------
(***************************************************************************)
(* A program on ciphertexts computes what the same program computes on     *)
(* messages: HomomorphicStore implements PlaintextStore, for every         *)
(* commutative ring of scalars, all keys and samples, ciphertexts of any   *)
(* number of elements and every set of variables.                          *)
(***************************************************************************)
EXTENDS HomomorphicStore, RLWE_proofs

-----------------------------------------------------------------------------
LEMMA TripleCv ==
    ASSUME NEW x \in Element, NEW y \in Element, NEW z \in Element
    PROVE  <<x, y, z>> \in Cv /\ Len(<<x, y, z>>) = 3
BY DEF Cv

\* A product, with elements for every power up to the sum of the degrees.
LEMMA MultPhase ==
    ASSUME NEW c \in Cv, NEW d \in Cv, NEW s \in Element
    PROVE  /\ EvalMultCore(c, d) \in Cv /\ Len(EvalMultCore(c, d)) = Len(c) + Len(d) - 1
           /\ DecryptCore(EvalMultCore(c, d), s) = DecryptCore(c, s) \otimes DecryptCore(d, s)
<1>1. CASE ~(Len(c) = 2 /\ Len(d) = 2)
  <2>1. EvalMultCore(c, d) = Convolved(c, d)
    BY <1>1, Zenon DEF EvalMultCore, Convolved
  <2> QED BY <2>1, ConvolvedCv, ConvolvedPhase
<1>2. CASE Len(c) = 2 /\ Len(d) = 2
  <2> DEFINE e == EvalMultCorePair(c, d)
  <2>1. EvalMultCore(c, d) = e /\ Len(c) + Len(d) - 1 = 3
    <3>1. EvalMultCore(c, d) = e
      BY <1>2, Zenon DEF EvalMultCore
    <3>2. Len(c) + Len(d) - 1 = 3
      BY <1>2
    <3> QED BY <3>1, <3>2, Zenon
  <2>2. c[1] \in Element /\ c[2] \in Element /\ d[1] \in Element /\ d[2] \in Element
    BY CvFacts, Zenon
  <2>3. e \in Cv /\ Len(e) = 3
    <3>1. /\ d[1] \otimes c[1] \in Element /\ c[2] \otimes d[2] \in Element
          /\ (c[2] \otimes d[1]) \oplus (c[1] \otimes d[2]) \in Element
      BY <2>2, ElementClosed, Zenon
    <3> QED BY <3>1, TripleCv, Zenon DEF EvalMultCorePair
  <2>4. /\ e[1] = d[1] \otimes c[1]
        /\ e[2] = (c[2] \otimes d[1]) \oplus (c[1] \otimes d[2])
        /\ e[3] = c[2] \otimes d[2]
    BY DEF EvalMultCorePair
  <2> HIDE DEF e
  <2>5. DecryptCore(e, s) = (e[1] \oplus (e[2] \otimes s)) \oplus (e[3] \otimes (s \otimes s))
    BY <2>3, DecryptThree, Zenon
  <2>6. /\ DecryptCore(c, s) = c[1] \oplus (c[2] \otimes s)
        /\ DecryptCore(d, s) = d[1] \oplus (d[2] \otimes s)
    BY <1>2, DecryptTwo, Zenon
  <2>7. (e[1] \oplus (e[2] \otimes s)) \oplus (e[3] \otimes (s \otimes s))
            = (c[1] \oplus (c[2] \otimes s)) \otimes (d[1] \oplus (d[2] \otimes s))
    <3> DEFINE c0 == c[1]
               c1 == c[2]
               d0 == d[1]
               d1 == d[2]
    <3>1. c0 \in Element /\ c1 \in Element /\ d0 \in Element /\ d1 \in Element
      BY <2>2, Zenon
    <3> HIDE DEF c0, c1, d0, d1
    <3>2. ((d0 \otimes c0) \oplus (((c1 \otimes d0) \oplus (c0 \otimes d1)) \otimes s))
              \oplus ((c1 \otimes d1) \otimes (s \otimes s))
          = (c0 \oplus (c1 \otimes s)) \otimes (d0 \oplus (d1 \otimes s))
      BY <3>1, ProductPhase
    <3> QED BY <2>4, <3>2, Zenon DEF c0, c1, d0, d1
  <2> QED BY <2>1, <2>3, <2>5, <2>6, <2>7, Zenon
<1> QED BY <1>1, <1>2, Zenon

\* The square of a ciphertext of two elements is its product with itself.
LEMMA SquareIsProduct ==
    ASSUME NEW c \in Cv, Len(c) = 2
    PROVE  EvalSquareCore(c) = EvalMultCore(c, c)
<1> DEFINE Entry(n) == [i \in 1..Len(c) |->
                           LET j == n + 1 - i IN
                           CASE j = i -> c[i] \otimes c[i]
                             [] j \in i + 1..Len(c) -> (c[i] \otimes c[j]) \oplus (c[i] \otimes c[j])
                             [] OTHER -> Zero]
           xx == c[1] \otimes c[1]
           xy == c[1] \otimes c[2]
           yy == c[2] \otimes c[2]
<1>1. c[1] \in Element /\ c[2] \in Element /\ Zero \in Element
  BY CvFacts, ElementClosed, Zenon
<1>2. xx \in Element /\ xy \in Element /\ yy \in Element /\ xy \oplus xy \in Element
  BY <1>1, ElementClosed, Zenon
<1>3. EvalSquareCore(c) = [n \in 1..3 |-> SumUpTo(Entry(n), 2)]
  <2>1. EvalSquareCore(c) = [n \in 1..2 * Len(c) - 1 |-> SumUpTo(Entry(n), Len(c))]
    BY Zenon DEF EvalSquareCore
  <2>2. 2 * Len(c) - 1 = 3
    OBVIOUS
  <2> QED BY <2>1, <2>2, Zenon
<1>4. Entry(1)[1] = xx /\ Entry(1)[2] = Zero
  OBVIOUS
<1>5. Entry(2)[1] = xy \oplus xy /\ Entry(2)[2] = Zero
  OBVIOUS
<1>6. Entry(3)[1] = Zero /\ Entry(3)[2] = yy
  OBVIOUS
<1> HIDE DEF Entry, xx, xy, yy
<1>7. /\ SumUpTo(Entry(1), 2) = xx \oplus Zero
      /\ SumUpTo(Entry(2), 2) = (xy \oplus xy) \oplus Zero
      /\ SumUpTo(Entry(3), 2) = Zero \oplus yy
  BY <1>1, <1>2, <1>4, <1>5, <1>6, SumTwo, SMTT(60)
<1>8. xx \oplus Zero = xx /\ (xy \oplus xy) \oplus Zero = xy \oplus xy /\ Zero \oplus yy = yy
  BY <1>2, ElementGroup, Zenon
<1>9. EvalSquareCore(c) = <<xx, xy \oplus xy, yy>>
  <2>1. [n \in 1..3 |-> SumUpTo(Entry(n), 2)]
            = <<SumUpTo(Entry(1), 2), SumUpTo(Entry(2), 2), SumUpTo(Entry(3), 2)>>
    OBVIOUS
  <2> QED BY <1>3, <1>7, <1>8, <2>1, Zenon
<1>10. c[2] \otimes c[1] = xy
  BY <1>1, ElementRing, Zenon DEF xy
<1>11. EvalMultCore(c, c) = <<xx, xy \oplus xy, yy>>
  BY <1>10, Zenon DEF EvalMultCore, EvalMultCorePair, xx, xy, yy
<1> QED BY <1>9, <1>11, Zenon

-----------------------------------------------------------------------------
\* A key whose two vectors are elements, from old to new.
EvalKey(ek, old, new) ==
    /\ ek.b \in Element /\ ek.a \in Element
    /\ old \in Element /\ new \in Element /\ Switches(ek, old, new)

LEMMA KeySwitchTwo ==
    ASSUME NEW c \in Cv, Len(c) = 2, NEW ek, NEW old, NEW new, EvalKey(ek, old, new)
    PROVE  /\ KeySwitchInPlace(c, ek) \in Cv /\ Len(KeySwitchInPlace(c, ek)) = 2
           /\ DecryptCore(KeySwitchInPlace(c, ek), new) = DecryptCore(c, old)
<1> DEFINE x == c[1] \oplus (c[2] \otimes ek.b)
           y == c[2] \otimes ek.a
           e == KeySwitchInPlace(c, ek)
<1>1. /\ ek.b \in Element /\ ek.a \in Element /\ old \in Element /\ new \in Element
      /\ ek.b \oplus (ek.a \otimes new) = old
  BY Zenon DEF EvalKey, Switches
<1>2. c[1] \in Element /\ c[2] \in Element
  BY CvFacts, Zenon
<1>3. e = <<x, y>>
  BY DEF KeySwitchInPlace, KeySwitchCore
<1>4. x \in Element /\ y \in Element
  BY <1>1, <1>2, ElementClosed, Zenon
<1>5. x \oplus (y \otimes new) = c[1] \oplus (c[2] \otimes (ek.b \oplus (ek.a \otimes new)))
  <2> DEFINE c0 == c[1]
             c1 == c[2]
             b == ek.b
             a == ek.a
  <2>1. c0 \in Element /\ c1 \in Element /\ b \in Element /\ a \in Element
    BY <1>1, <1>2, Zenon
  <2> HIDE DEF c0, c1, b, a
  <2>2. (c0 \oplus (c1 \otimes b)) \oplus ((c1 \otimes a) \otimes new)
            = c0 \oplus (c1 \otimes (b \oplus (a \otimes new)))
    BY <1>1, <2>1, SwitchTwo
  <2> QED BY <2>2, Zenon DEF c0, c1, b, a
<1> HIDE DEF x, y, e
<1>6. e \in Cv /\ Len(e) = 2 /\ e[1] = x /\ e[2] = y
  BY <1>3, <1>4, PairCv, Zenon
<1>7. DecryptCore(e, new) = e[1] \oplus (e[2] \otimes new)
  BY <1>1, <1>6, DecryptTwo, Zenon
<1>8. DecryptCore(c, old) = c[1] \oplus (c[2] \otimes old)
  BY <1>1, DecryptTwo, Zenon
<1> QED BY <1>1, <1>5, <1>6, <1>7, <1>8, Zenon DEF e

LEMMA KeySwitchThree ==
    ASSUME NEW c \in Cv, Len(c) = 3, NEW ek, NEW s \in Element, EvalKey(ek, s \otimes s, s)
    PROVE  /\ KeySwitchInPlace(c, ek) \in Cv /\ Len(KeySwitchInPlace(c, ek)) = 2
           /\ DecryptCore(KeySwitchInPlace(c, ek), s) = DecryptCore(c, s)
<1> DEFINE x == c[1] \oplus (c[3] \otimes ek.b)
           y == c[2] \oplus (c[3] \otimes ek.a)
           e == KeySwitchInPlace(c, ek)
<1>1. ek.b \in Element /\ ek.a \in Element /\ ek.b \oplus (ek.a \otimes s) = s \otimes s
  BY Zenon DEF EvalKey, Switches
<1>2. c[1] \in Element /\ c[2] \in Element /\ c[3] \in Element
  <2>1. 3 \in 1..Len(c)
    OBVIOUS
  <2> QED BY <2>1, CvFacts, Zenon
<1>3. e = <<x, y>>
  BY DEF KeySwitchInPlace, KeySwitchCore
<1>4. x \in Element /\ y \in Element
  BY <1>1, <1>2, ElementClosed, Zenon
<1>5. x \oplus (y \otimes s)
          = (c[1] \oplus (c[2] \otimes s)) \oplus (c[3] \otimes (ek.b \oplus (ek.a \otimes s)))
  <2> DEFINE c0 == c[1]
             c1 == c[2]
             c2 == c[3]
             b == ek.b
             a == ek.a
  <2>1. c0 \in Element /\ c1 \in Element /\ c2 \in Element /\ b \in Element /\ a \in Element
    BY <1>1, <1>2, Zenon
  <2> HIDE DEF c0, c1, c2, b, a
  <2>2. (c0 \oplus (c2 \otimes b)) \oplus ((c1 \oplus (c2 \otimes a)) \otimes s)
            = (c0 \oplus (c1 \otimes s)) \oplus (c2 \otimes (b \oplus (a \otimes s)))
    BY <2>1, SwitchThree, SMTT(60)
  <2> QED BY <2>2, Zenon DEF c0, c1, c2, b, a
<1> HIDE DEF x, y, e
<1>6. e \in Cv /\ Len(e) = 2 /\ e[1] = x /\ e[2] = y
  BY <1>3, <1>4, PairCv, Zenon
<1>7. DecryptCore(e, s) = e[1] \oplus (e[2] \otimes s)
  BY <1>6, DecryptTwo, Zenon
<1>8. DecryptCore(c, s) = (c[1] \oplus (c[2] \otimes s)) \oplus (c[3] \otimes (s \otimes s))
  BY DecryptThree, Zenon
<1> QED BY <1>1, <1>5, <1>6, <1>7, <1>8, Zenon DEF e

\* The keys of a vector: key j is one from power j + 1 of s to s.
KeyVector(keys, s) ==
    /\ Len(keys) \in Nat
    /\ keys # <<>> => 1 \in 1..Len(keys)
    /\ \A j \in 1..Len(keys) : EvalKey(keys[j], Pow(s, j + 1), s)

\* Element n of the sum that the key switches of the higher elements add up to.
SwitchedPart(cv, keys, n) ==
    SumUpTo([j \in 1..Len(cv) - 2 |-> KeySwitchCore(cv[j + 2], keys[j])[n]], Len(cv) - 2)

LEMMA RelinearizeParts ==
    ASSUME NEW cv, NEW keys
    PROVE  RelinearizeInPlace(cv, keys)
               = <<cv[1] \oplus SwitchedPart(cv, keys, 1), cv[2] \oplus SwitchedPart(cv, keys, 2)>>
BY DEF RelinearizeInPlace, SwitchedPart

\* The sum of the terms after the second.
LEMMA DecryptFromThird ==
    ASSUME NEW cv \in Cv, NEW s \in Element,
           NEW h, \A j \in 1..Len(cv) - 2 : h[j] = TermsOf(cv, s)[j + 2]
    PROVE  /\ Terms(h, Len(cv) - 2)
           /\ DecryptCore(cv, s) = (cv[1] \oplus (cv[2] \otimes s)) \oplus SumUpTo(h, Len(cv) - 2)
<1> DEFINE K == Len(cv) - 2
           f == TermsOf(cv, s)
           g == [j \in 1..K + 1 |-> f[j + 1]]
<1>1. K \in Nat /\ K + 1 \in Nat /\ (K + 1) + 1 = Len(cv)
  BY CvFacts
<1>2. \A j \in 1..K : j + 2 \in 1..Len(cv) /\ j + 1 \in 1..K + 1 /\ (j + 1) + 1 = j + 2
  BY <1>1
<1>3. \A j \in 1..K + 1 : j + 1 \in 1..Len(cv)
  BY <1>1
<1>4. Terms(f, Len(cv)) /\ DecryptCore(cv, s) = SumUpTo(f, Len(cv))
  BY TermsOfFacts, DecryptIsSum, Zenon
<1>5. \A j \in 1..K + 1 : g[j] = f[j + 1]
  BY Zenon
<1>6. f[1] = cv[1] /\ g[1] = cv[2] \otimes s /\ cv[1] \in Element /\ cv[2] \in Element
  <2>1. 1 - 1 = 0 /\ 2 - 1 = 1 /\ 1 \in 1..K + 1 /\ 1 + 1 = 2
    BY <1>1
  <2>2. f[1] = Pow(s, 1 - 1) \otimes cv[1] /\ f[2] = Pow(s, 2 - 1) \otimes cv[2]
    BY CvFacts, TermsOfFacts
  <2>3. cv[1] \in Element /\ cv[2] \in Element
    BY CvFacts, Zenon
  <2>4. One \otimes cv[1] = cv[1] /\ s \otimes cv[2] = cv[2] \otimes s
    BY <2>3, OneTimes, ElementRing, Zenon
  <2>5. g[1] = f[2]
    BY <1>5, <2>1, Zenon
  <2> QED BY <2>1, <2>2, <2>3, <2>4, <2>5, PowStep, Zenon
<1> HIDE DEF f, g, K
<1>7. Terms(g, K + 1) /\ Terms(h, K)
  BY <1>2, <1>3, <1>4, <1>5, Zenon DEF Terms, f, K
<1>8. SumUpTo(f, (K + 1) + 1) = f[1] \oplus SumUpTo(g, K + 1)
  BY <1>1, <1>4, <1>5, SumShifted, Zenon
<1>9. \A j \in 1..K : h[j] = g[j + 1]
  BY <1>2, <1>5, Zenon DEF f, K
<1>10. SumUpTo(g, K + 1) = g[1] \oplus SumUpTo(h, K)
  BY <1>1, <1>7, <1>9, SumShifted, Zenon
<1> DEFINE x == cv[1]
           y == cv[2] \otimes s
           z == SumUpTo(h, K)
<1>11. x \in Element /\ y \in Element /\ z \in Element
  BY <1>1, <1>6, <1>7, SumClosed, ElementClosed, ZenonT(60)
<1> HIDE DEF x, y, z
<1>12. x \oplus (y \oplus z) = (x \oplus y) \oplus z
  BY <1>11, ElementGroup
<1>13. SumUpTo(f, Len(cv)) = x \oplus (y \oplus z)
  BY <1>1, <1>6, <1>8, <1>10, Zenon DEF x, y, z
<1> QED BY <1>4, <1>7, <1>12, <1>13, Zenon DEF x, y, z, K

\* The pairs that the key switches add up to decrypt to the terms they replace.
LEMMA SwitchedPhase ==
    ASSUME NEW cv \in Cv, NEW s \in Element, NEW keys, KeyVector(keys, s),
           Len(keys) >= Len(cv) - 2
    PROVE  /\ SwitchedPart(cv, keys, 1) \in Element /\ SwitchedPart(cv, keys, 2) \in Element
           /\ SwitchedPart(cv, keys, 1) \oplus (s \otimes SwitchedPart(cv, keys, 2))
                  = SumUpTo([j \in 1..Len(cv) - 2 |-> TermsOf(cv, s)[j + 2]], Len(cv) - 2)
<1> DEFINE K == Len(cv) - 2
           f == [j \in 1..K |-> KeySwitchCore(cv[j + 2], keys[j])[1]]
           g == [j \in 1..K |-> KeySwitchCore(cv[j + 2], keys[j])[2]]
           sg == [j \in 1..K |-> s \otimes g[j]]
           h == [j \in 1..K |-> TermsOf(cv, s)[j + 2]]
<1>1. K \in Nat /\ Len(keys) \in Nat /\ \A j \in 1..K :
          j + 2 \in 1..Len(cv) /\ j \in 1..Len(keys) /\ (j + 2) - 1 = j + 1
  BY CvFacts DEF KeyVector
<1>2. ASSUME NEW j \in 1..K
      PROVE  /\ f[j] \in Element /\ g[j] \in Element
             /\ h[j] = f[j] \oplus (s \otimes g[j])
  <2> DEFINE c == cv[j + 2]
             b == keys[j].b
             a == keys[j].a
             p == Pow(s, j + 1)
  <2>1. f[j] = c \otimes b /\ g[j] = c \otimes a
    BY DEF KeySwitchCore
  <2>2. c \in Element
    BY <1>1, CvFacts, Zenon
  <2>3. b \in Element /\ a \in Element /\ p \in Element /\ b \oplus (a \otimes s) = p
    BY <1>1, Zenon DEF KeyVector, EvalKey, Switches
  <2>4. h[j] = p \otimes c
    <3>1. h[j] = TermsOf(cv, s)[j + 2]
      BY Zenon
    <3>2. TermsOf(cv, s)[j + 2] = Pow(s, (j + 2) - 1) \otimes cv[j + 2]
      BY <1>1, TermsOfFacts, Zenon
    <3> QED BY <1>1, <3>1, <3>2, Zenon
  <2> HIDE DEF c, b, a, p, f, g, h
  <2>5. f[j] \in Element /\ g[j] \in Element
    BY <2>1, <2>2, <2>3, ElementClosed, SMTT(60)
  <2>6. a \otimes s \in Element
    BY <2>3, ElementClosed, Zenon
  <2>7. c \otimes (b \oplus (a \otimes s)) = (c \otimes b) \oplus (c \otimes (a \otimes s))
    BY <2>2, <2>3, <2>6, ElementRing, SMTT(60)
  <2>8. c \otimes (a \otimes s) = (c \otimes a) \otimes s
    BY <2>2, <2>3, ElementRing, SMTT(60)
  <2>9. (c \otimes a) \otimes s = s \otimes (c \otimes a)
    <3>1. c \otimes a \in Element
      BY <2>2, <2>3, ElementClosed, Zenon
    <3> QED BY <3>1, ElementRing, Zenon
  <2>10. p \otimes c = c \otimes p
    BY <2>2, <2>3, ElementRing, Zenon
  <2> QED BY <2>1, <2>3, <2>4, <2>5, <2>7, <2>8, <2>9, <2>10, ZenonT(60)
<1>3. \A j \in 1..K : sg[j] = s \otimes g[j]
  BY Zenon
<1>4. SwitchedPart(cv, keys, 1) = SumUpTo(f, K) /\ SwitchedPart(cv, keys, 2) = SumUpTo(g, K)
  BY Zenon DEF SwitchedPart
<1> HIDE DEF f, g, sg, h
<1>5. Terms(f, K) /\ Terms(g, K) /\ ScaledBy(sg, s, g, K)
  BY <1>2, <1>3, Zenon DEF Terms, ScaledBy
<1>6. Terms(sg, K)
  BY <1>2, <1>3, ElementClosed, Zenon DEF Terms
<1>7. Added(h, f, sg, K)
  BY <1>2, <1>3, <1>5, <1>6, Zenon DEF Added
<1> HIDE DEF K
<1>8. SumUpTo(h, K) = SumUpTo(f, K) \oplus SumUpTo(sg, K)
  BY <1>1, <1>7, AddedSum
<1>9. SumUpTo(sg, K) = s \otimes SumUpTo(g, K)
  BY <1>1, <1>5, ScaledSum
<1>10. SumUpTo(f, K) \in Element /\ SumUpTo(g, K) \in Element
  BY <1>1, <1>5, SumClosed, Zenon
<1> QED BY <1>4, <1>8, <1>9, <1>10, Zenon DEF h, K

\* Relinearisation with keys for every power keeps the message.
LEMMA RelinearizePhase ==
    ASSUME NEW cv \in Cv, NEW s \in Element, NEW keys, KeyVector(keys, s),
           Len(keys) >= Len(cv) - 2
    PROVE  /\ RelinearizeInPlace(cv, keys) \in Cv /\ Len(RelinearizeInPlace(cv, keys)) = 2
           /\ DecryptCore(RelinearizeInPlace(cv, keys), s) = DecryptCore(cv, s)
<1> DEFINE h == [j \in 1..Len(cv) - 2 |-> TermsOf(cv, s)[j + 2]]
           u == SwitchedPart(cv, keys, 1)
           v == SwitchedPart(cv, keys, 2)
           c0 == cv[1]
           c1 == cv[2]
           e == RelinearizeInPlace(cv, keys)
           z == SumUpTo(h, Len(cv) - 2)
<1>1. u \in Element /\ v \in Element /\ u \oplus (s \otimes v) = z
  BY SwitchedPhase
<1>2. \A j \in 1..Len(cv) - 2 : h[j] = TermsOf(cv, s)[j + 2]
  BY Zenon
<1> HIDE DEF h
<1>3. DecryptCore(cv, s) = (c0 \oplus (c1 \otimes s)) \oplus z
  BY <1>2, DecryptFromThird, Zenon
<1>4. c0 \in Element /\ c1 \in Element
  BY CvFacts, Zenon
<1>5. e = <<c0 \oplus u, c1 \oplus v>>
  BY RelinearizeParts, Zenon
<1>6. c0 \oplus u \in Element /\ c1 \oplus v \in Element
  BY <1>1, <1>4, ElementClosed, Zenon
<1> HIDE DEF u, v, c0, c1, e, z
<1>7. e \in Cv /\ Len(e) = 2 /\ e[1] = c0 \oplus u /\ e[2] = c1 \oplus v
  BY <1>5, <1>6, PairCv, Zenon
<1>8. DecryptCore(e, s) = (c0 \oplus u) \oplus ((c1 \oplus v) \otimes s)
  BY <1>7, DecryptTwo, Zenon
<1> DEFINE x == c1 \otimes s
           y == v \otimes s
<1>9. (c1 \oplus v) \otimes s = x \oplus y
  BY <1>1, <1>4, ElementRing, SMTT(60)
<1>10. x \in Element /\ y \in Element /\ y = s \otimes v
  BY <1>1, <1>4, ElementClosed, ElementRing, Zenon
<1> HIDE DEF x, y
<1>11. (c0 \oplus u) \oplus (x \oplus y) = (c0 \oplus x) \oplus (u \oplus y)
  BY <1>1, <1>4, <1>10, Regroup, SMTT(60)
<1> QED BY <1>1, <1>3, <1>7, <1>8, <1>9, <1>10, <1>11, ZenonT(60) DEF e, x

-----------------------------------------------------------------------------
(***************************************************************************)
(* The keys that the context makes.                                        *)
(***************************************************************************)
LEMMA KeySwitchGenKey ==
    ASSUME NEW old \in Element, NEW new \in Element, NEW a \in Element
    PROVE  EvalKey(KeySwitchGen(old, new, a), old, new)
<1>1. Switches(KeySwitchGen(old, new, a), old, new)
  BY KeySwitchGenSwitches, Zenon
<1>2. old \ominus (a \otimes new) \in Element
  BY ElementClosed, Zenon
<1>3. KeySwitchGen(old, new, a).b = old \ominus (a \otimes new) /\ KeySwitchGen(old, new, a).a = a
  BY DEF KeySwitchGen
<1> QED BY <1>1, <1>2, <1>3, Zenon DEF EvalKey

LEMMA PowTwo ==
    ASSUME NEW s \in Element
    PROVE  /\ Pow(s, 1 + 1) = s \otimes s
           /\ \A n \in Nat : Pow(s, n + 1) = Power(s, n + 1)
<1>1. 1 \in Nat /\ \A n \in Nat : n + 1 # 0
  OBVIOUS
<1>2. Pow(s, 1 + 1) = Pow(s, 1) \otimes s /\ Pow(s, 1) = s
  BY <1>1, PowStep, Zenon
<1>3. \A n \in Nat : Pow(s, n + 1) = Power(s, n + 1)
  BY <1>1, Zenon DEF Pow
<1> QED BY <1>2, <1>3, Zenon

\* The vector with the key of the square, and the one for every power.
LEMMA MultKeyVectors ==
    ASSUME NEW s \in Element
    PROVE  KeyVector(<<EvalMultKeyGen(s, EvalA)>>, s) /\ KeyVector(EvalMultKeysGen(s), s)
<1>0. EvalA \in Element
  BY StoreAssumption, Zenon
<1>1. KeyVector(<<EvalMultKeyGen(s, EvalA)>>, s)
  <2> DEFINE k == EvalMultKeyGen(s, EvalA)
             ks == <<k>>
  <2>1. s \otimes s \in Element
    BY ElementClosed, Zenon
  <2>2. EvalKey(k, s \otimes s, s)
    BY <1>0, <2>1, KeySwitchGenKey, Zenon DEF EvalMultKeyGen
  <2> HIDE DEF k
  <2>3. EvalKey(k, Pow(s, 1 + 1), s)
    BY <2>2, PowTwo, Zenon
  <2>4. Len(ks) = 1 /\ ks[1] = k /\ 1 \in Nat /\ 1 \in 1..1 /\ \A j \in 1..1 : j = 1
    OBVIOUS
  <2> HIDE DEF ks
  <2>5. \A j \in 1..1 : EvalKey(ks[j], Pow(s, j + 1), s)
    BY <2>3, <2>4, Zenon
  <2>6. KeyVector(ks, s)
    BY <2>4, <2>5, Zenon DEF KeyVector
  <2> QED BY <2>6, Zenon DEF ks, k
<1>2. KeyVector(EvalMultKeysGen(s), s)
  <2> DEFINE ks == EvalMultKeysGen(s)
             n == MaxRelinSkDeg - 1
  <2>1. n \in Nat /\ 1 \in 1..n /\ \A i \in 1..n : i \in Nat /\ i + 1 \in Nat
    BY StoreAssumption
  <2>2. ks = [i \in 1..n |-> KeySwitchGen(Power(s, i + 1), s, EvalA)]
    BY Zenon DEF EvalMultKeysGen
  <2> HIDE DEF n, ks
  <2>3. Len(ks) = n
    BY <2>1, <2>2
  <2>4. ASSUME NEW j \in 1..n PROVE EvalKey(ks[j], Pow(s, j + 1), s)
    <3>1. Pow(s, j + 1) = Power(s, j + 1) /\ Pow(s, j + 1) \in Element
      BY <2>1, PowTwo, PowClosed, Zenon
    <3>2. ks[j] = KeySwitchGen(Power(s, j + 1), s, EvalA)
      BY <2>2, Zenon
    <3> QED BY <1>0, <3>1, <3>2, KeySwitchGenKey, Zenon
  <2>5. KeyVector(ks, s)
    BY <2>1, <2>3, <2>4, Zenon DEF KeyVector
  <2> QED BY <2>5, Zenon DEF ks
<1> QED BY <1>1, <1>2, Zenon

-----------------------------------------------------------------------------
(***************************************************************************)
(* Automorphisms.                                                          *)
(***************************************************************************)
AutoKey(ek, s, i) == EvalKey(ek, s, AutomorphismTransform(s, GInverse(i)))

LEMMA AutomorphismClosed ==
    ASSUME NEW i \in Galois, NEW x \in Element
    PROVE  AutomorphismTransform(x, i) \in Element /\ GInverse(i) \in Galois
<1>1. \A j \in Slot : Perm(i, j) \in Slot
  BY GaloisAssumption, Zenon
<1>2. \A j \in Slot : x[Perm(i, j)] \in Scalar
  BY <1>1, Zenon DEF Element
<1> QED BY <1>2, GaloisAssumption, Zenon DEF Element, AutomorphismTransform

LEMMA AutoKeyGenKey ==
    ASSUME NEW s \in Element, NEW i \in Galois, NEW a \in Element
    PROVE  AutoKey(EvalAutomorphismKeyGen(s, i, a), s, i)
<1>1. AutomorphismTransform(s, GInverse(i)) \in Element
  BY AutomorphismClosed, Zenon
<1> QED BY <1>1, KeySwitchGenKey, Zenon DEF AutoKey, EvalAutomorphismKeyGen

\* The automorphism of both elements turns the key to the inverse image of s
\* into one to s.
LEMMA AutomorphismPair ==
    ASSUME NEW s \in Element, NEW i \in Galois, NEW x \in Element, NEW y \in Element,
           NEW m, x \oplus (y \otimes AutomorphismTransform(s, GInverse(i))) = m
    PROVE  LET e == <<AutomorphismTransform(x, i), AutomorphismTransform(y, i)>>
           IN  e \in Cv /\ Len(e) = 2 /\ DecryptCore(e, s) = AutomorphismTransform(m, i)
<1> DEFINE x1 == AutomorphismTransform(x, i)
           y1 == AutomorphismTransform(y, i)
           n == AutomorphismTransform(s, GInverse(i))
           e == <<x1, y1>>
<1>1. x1 \in Element /\ y1 \in Element /\ n \in Element
  BY AutomorphismClosed, Zenon
<1>2. y \otimes n \in Element
  BY <1>1, ElementClosed, Zenon
<1>3. AutomorphismTransform(n, i) = s
  BY AutomorphismHom, Zenon
<1>4. AutomorphismTransform(y \otimes n, i) = y1 \otimes AutomorphismTransform(n, i)
  BY <1>1, AutomorphismHom, SMTT(60)
<1>5. AutomorphismTransform(x \oplus (y \otimes n), i) = x1 \oplus AutomorphismTransform(y \otimes n, i)
  BY <1>2, AutomorphismHom
<1> HIDE DEF x1, y1, n
<1>6. e \in Cv /\ Len(e) = 2 /\ e[1] = x1 /\ e[2] = y1
  BY <1>1, PairCv, Zenon
<1> HIDE DEF e
<1>7. DecryptCore(e, s) = e[1] \oplus (e[2] \otimes s)
  BY <1>6, DecryptTwo, Zenon
<1>8. DecryptCore(e, s) = AutomorphismTransform(m, i)
  BY <1>3, <1>4, <1>5, <1>6, <1>7, ZenonT(60) DEF n
<1> QED BY <1>6, <1>8, Zenon DEF e, x1, y1

LEMMA AutomorphismPhase ==
    ASSUME NEW c \in Cv, Len(c) = 2, NEW s \in Element, NEW i \in Galois,
           NEW ek, AutoKey(ek, s, i)
    PROVE  /\ EvalAutomorphism(c, i, ek) \in Cv /\ Len(EvalAutomorphism(c, i, ek)) = 2
           /\ DecryptCore(EvalAutomorphism(c, i, ek), s) = AutomorphismTransform(DecryptCore(c, s), i)
<1> DEFINE r == KeySwitchInPlace(c, ek)
           n == AutomorphismTransform(s, GInverse(i))
<1>1. EvalKey(ek, s, n)
  BY Zenon DEF AutoKey
<1>2. n \in Element
  BY <1>1, Zenon DEF EvalKey
<1>3. EvalAutomorphism(c, i, ek) = <<AutomorphismTransform(r[1], i), AutomorphismTransform(r[2], i)>>
  BY Zenon DEF EvalAutomorphism
<1>4. r \in Cv /\ Len(r) = 2 /\ DecryptCore(r, n) = DecryptCore(c, s)
  BY <1>1, KeySwitchTwo, SMTT(60)
<1> HIDE DEF r
<1>5. r[1] \in Element /\ r[2] \in Element /\ DecryptCore(r, n) = r[1] \oplus (r[2] \otimes n)
  BY <1>2, <1>4, CvFacts, DecryptTwo, SMTT(60)
<1>6. r[1] \oplus (r[2] \otimes AutomorphismTransform(s, GInverse(i))) = DecryptCore(c, s)
  BY <1>4, <1>5, Zenon
<1> QED BY <1>3, <1>5, <1>6, AutomorphismPair, SMTT(60)

\* The same on digits computed beforehand from the second element.
LEMMA FastRotatedPhase ==
    ASSUME NEW c \in Cv, Len(c) = 2, NEW s \in Element, NEW i \in Galois,
           NEW ek, AutoKey(ek, s, i)
    PROVE  /\ FastRotated(c[1], c[2], i, ek) \in Cv /\ Len(FastRotated(c[1], c[2], i, ek)) = 2
           /\ DecryptCore(FastRotated(c[1], c[2], i, ek), s)
                  = AutomorphismTransform(DecryptCore(c, s), i)
<1>1. c[1] \in Element /\ c[2] \in Element /\ ek.b \in Element
  BY CvFacts, Zenon DEF AutoKey, EvalKey
<1>2. c[2] \otimes ek.b \in Element
  BY <1>1, ElementClosed, Zenon
<1>3. (c[2] \otimes ek.b) \oplus c[1] = c[1] \oplus (c[2] \otimes ek.b)
  BY <1>1, <1>2, ElementGroup, Zenon
<1>4. FastRotated(c[1], c[2], i, ek)
          = <<AutomorphismTransform((c[2] \otimes ek.b) \oplus c[1], i),
              AutomorphismTransform(c[2] \otimes ek.a, i)>>
  BY SMTT(60) DEF FastRotated, KeySwitchCore
<1>5. EvalAutomorphism(c, i, ek)
          = <<AutomorphismTransform(c[1] \oplus (c[2] \otimes ek.b), i),
              AutomorphismTransform(c[2] \otimes ek.a, i)>>
  BY DEF EvalAutomorphism, KeySwitchInPlace, KeySwitchCore
<1>6. FastRotated(c[1], c[2], i, ek) = EvalAutomorphism(c, i, ek)
  BY <1>3, <1>4, <1>5, Zenon
<1> QED BY <1>6, AutomorphismPhase, SMTT(60)

-----------------------------------------------------------------------------
(***************************************************************************)
(* Encryption and re-encryption.                                           *)
(***************************************************************************)
LEMMA SampledElements ==
    /\ PubA \in Element /\ EvalA \in Element /\ Blind \in Element
    /\ \A m \in Message : m \in Element
    /\ \A t \in Tag : Secret[t] \in Element
BY StoreAssumption, Zenon

LEMMA PublicKeyFacts ==
    ASSUME NEW t \in Tag
    PROVE  /\ PublicKey[t].b \in Element /\ PublicKey[t].a \in Element
           /\ PublicKey[t].b \oplus (PublicKey[t].a \otimes Secret[t]) = Zero
<1> DEFINE s == Secret[t]
           pk == KeyGenPublic(s, PubA)
<1>1. s \in Element /\ PubA \in Element
  BY SampledElements, Zenon
<1>2. PublicKey[t] = pk
  BY Zenon DEF PublicKey
<1>3. pk.b = Negate(PubA \otimes s) /\ pk.a = PubA
  BY DEF KeyGenPublic
<1>4. Negate(PubA \otimes s) \in Element
  BY <1>1, ElementClosed, Zenon
<1>5. pk.b \oplus (pk.a \otimes s) = Zero
  BY <1>1, KeyGenSwitches, Zenon DEF Switches
<1> QED BY <1>1, <1>2, <1>3, <1>4, <1>5, ZenonT(60)

LEMMA EncryptPublicPhase ==
    ASSUME NEW t \in Tag, NEW m \in Element
    PROVE  LET cv == EncryptPlain(EncryptZeroPublic(PublicKey[t], Blind), m)
           IN  cv \in Cv /\ Len(cv) = 2 /\ DecryptCore(cv, Secret[t]) = m
<1> DEFINE b == PublicKey[t].b
           a == PublicKey[t].a
           s == Secret[t]
           v == Blind
           cv == EncryptPlain(EncryptZeroPublic(PublicKey[t], Blind), m)
           x == (b \otimes v) \oplus m
           y == a \otimes v
<1>1. b \in Element /\ a \in Element /\ s \in Element /\ v \in Element /\ b \oplus (a \otimes s) = Zero
  BY PublicKeyFacts, SampledElements, Zenon
<1>2. cv = <<x, y>>
  BY DEF EncryptPlain, EncryptZeroPublic
<1> HIDE DEF b, a, s, v, cv
<1>3. x \oplus (y \otimes s) = m
  BY <1>1, EncryptPhase, SMTT(60)
<1>4. x \in Element /\ y \in Element
  BY <1>1, ElementClosed, Zenon
<1> HIDE DEF x, y
<1>5. cv \in Cv /\ Len(cv) = 2 /\ cv[1] = x /\ cv[2] = y
  BY <1>2, <1>4, PairCv, Zenon
<1>6. DecryptCore(cv, s) = cv[1] \oplus (cv[2] \otimes s)
  BY <1>1, <1>5, DecryptTwo, Zenon
<1> QED BY <1>3, <1>5, <1>6, Zenon DEF cv, s

LEMMA EncryptPrivatePhase ==
    ASSUME NEW t \in Tag, NEW m \in Element
    PROVE  LET cv == EncryptPlain(EncryptZeroPrivate(Secret[t], Blind), m)
           IN  cv \in Cv /\ Len(cv) = 2 /\ DecryptCore(cv, Secret[t]) = m
<1> DEFINE s == Secret[t]
           a == Blind
           cv == EncryptPlain(EncryptZeroPrivate(Secret[t], Blind), m)
           w == a \otimes s
           x == w \oplus m
           y == Negate(a)
           u == Negate(One)
<1>1. s \in Element /\ a \in Element
  BY SampledElements, Zenon
<1>2. cv = <<x, y>>
  BY DEF EncryptPlain, EncryptZeroPrivate
<1> HIDE DEF s, a, cv
<1>3. w \in Element /\ x \in Element /\ y \in Element /\ Negate(w) \in Element
  BY <1>1, ElementClosed, Zenon
<1>4. u \in Element /\ y = u \otimes a /\ Negate(w) = u \otimes w
  BY <1>1, <1>3, NegateTimes, Zenon
<1>5. y \otimes s = Negate(w)
  <2>1. (u \otimes a) \otimes s = u \otimes (a \otimes s)
    BY <1>1, <1>4, ElementRing, SMTT(60)
  <2> QED BY <1>4, <2>1, Zenon
<1>6. x \oplus Negate(w) = m
  <2> HIDE DEF w
  <2>1. w \oplus m = m \oplus w
    BY <1>3, ElementGroup, Zenon
  <2>2. (m \oplus w) \oplus Negate(w) = m \oplus (w \oplus Negate(w))
    BY <1>3, ElementGroup, SMTT(60)
  <2>3. w \oplus Negate(w) = Zero /\ m \oplus Zero = m
    BY <1>3, ElementGroup, Zenon
  <2> QED BY <2>1, <2>2, <2>3, Zenon
<1> HIDE DEF x, y, w, u
<1>7. cv \in Cv /\ Len(cv) = 2 /\ cv[1] = x /\ cv[2] = y
  BY <1>2, <1>3, PairCv, Zenon
<1>8. DecryptCore(cv, s) = cv[1] \oplus (cv[2] \otimes s)
  BY <1>1, <1>7, DecryptTwo, Zenon
<1> QED BY <1>5, <1>6, <1>7, <1>8, Zenon DEF cv, s

\* The re-encryption key is one from the owner's secret to the recipient's.
LEMMA ReKey ==
    ASSUME NEW old \in Element, NEW t \in Tag
    PROVE  EvalKey(KeySwitchGenPublic(old, PublicKey[t], Blind), old, Secret[t])
<1> DEFINE ek == KeySwitchGenPublic(old, PublicKey[t], Blind)
           b == PublicKey[t].b
           a == PublicKey[t].a
           s == Secret[t]
           v == Blind
<1>1. b \in Element /\ a \in Element /\ s \in Element /\ v \in Element /\ b \oplus (a \otimes s) = Zero
  BY PublicKeyFacts, SampledElements, Zenon
<1>2. ek.b = (b \otimes v) \oplus old /\ ek.a = a \otimes v
  BY DEF KeySwitchGenPublic
<1> HIDE DEF b, a, s, v, ek
<1>3. ((b \otimes v) \oplus old) \oplus ((a \otimes v) \otimes s) = old
  BY <1>1, EncryptPhase
<1>4. (b \otimes v) \oplus old \in Element /\ a \otimes v \in Element
  BY <1>1, ElementClosed, Zenon
<1>5. EvalKey(ek, old, s)
  BY <1>1, <1>2, <1>3, <1>4, Zenon DEF EvalKey, Switches
<1> QED BY <1>5, Zenon DEF ek, s

\* An encryption of zero under the owner's key changes nothing for the owner.
LEMMA BlindedPhase ==
    ASSUME NEW c \in Cv, Len(c) = 2, NEW t \in Tag
    PROVE  /\ Blinded(c, PublicKey[t]) \in Cv /\ Len(Blinded(c, PublicKey[t])) = 2
           /\ DecryptCore(Blinded(c, PublicKey[t]), Secret[t]) = DecryptCore(c, Secret[t])
<1> DEFINE s == Secret[t]
           x == PublicKey[t].b \otimes Blind
           y == PublicKey[t].a \otimes Blind
           z == <<x, y>>
           e == Blinded(c, PublicKey[t])
<1>1. s \in Element /\ Zero \in Element /\ x \in Element /\ y \in Element
  BY PublicKeyFacts, SampledElements, ElementClosed, ZenonT(60)
<1>2. e = <<c[1] \oplus x, c[2] \oplus y>>
  BY DEF Blinded, EncryptZeroPublic
<1>3. x \oplus (y \otimes s) = Zero
  <2> DEFINE b == PublicKey[t].b
             a == PublicKey[t].a
             v == Blind
  <2>1. b \in Element /\ a \in Element /\ v \in Element /\ b \oplus (a \otimes s) = Zero
    BY PublicKeyFacts, SampledElements, Zenon
  <2> HIDE DEF b, a, v, s
  <2>2. ((b \otimes v) \oplus Zero) \oplus ((a \otimes v) \otimes s) = Zero
    BY <1>1, <2>1, EncryptPhase, SMTT(60)
  <2>3. b \otimes v \in Element
    BY <2>1, ElementClosed, Zenon
  <2>4. (b \otimes v) \oplus Zero = b \otimes v
    BY <2>3, ElementGroup, Zenon
  <2> QED BY <2>2, <2>4, Zenon DEF b, a, v
<1> HIDE DEF s, x, y, e
<1>4. z \in Cv /\ Len(z) = 2 /\ z[1] = x /\ z[2] = y
  BY <1>1, PairCv, Zenon
<1>5. DecryptCore(z, s) = Zero
  <2>1. DecryptCore(z, s) = z[1] \oplus (z[2] \otimes s)
    BY <1>1, <1>4, DecryptTwo, Zenon
  <2> QED BY <1>3, <1>4, <2>1, Zenon
<1>6. EvalAddCore(c, z) = <<c[1] \oplus z[1], c[2] \oplus z[2]>> /\ LongerLen(c, z) = 2
  <2> HIDE DEF z
  <2>1. LongerLen(c, z) = 2
    BY <1>4, Zenon DEF LongerLen
  <2>2. EvalAddCore(c, z) = [n \in 1..2 |-> IF n > 2 THEN c[n] ELSE IF n > 2 THEN z[n] ELSE c[n] \oplus z[n]]
    BY <1>4, <2>1, Zenon DEF EvalAddCore
  <2>3. EvalAddCore(c, z) = <<c[1] \oplus z[1], c[2] \oplus z[2]>>
    BY <2>2
  <2> QED BY <2>1, <2>3, Zenon
<1> HIDE DEF z
<1>7. e = EvalAddCore(c, z)
  BY <1>2, <1>4, <1>6, ZenonT(60)
<1>8. /\ EvalAddCore(c, z) \in Cv /\ Len(EvalAddCore(c, z)) = LongerLen(c, z)
      /\ DecryptCore(EvalAddCore(c, z), s) = DecryptCore(c, s) \oplus DecryptCore(z, s)
  BY <1>1, <1>4, AddPhase, ZenonT(60)
<1>9. DecryptCore(c, s) \in Element
  BY <1>1, DecryptIsSum, Zenon
<1>10. DecryptCore(c, s) \oplus Zero = DecryptCore(c, s)
  BY <1>9, ElementGroup, Zenon
<1> QED BY <1>5, <1>6, <1>7, <1>8, <1>10, ZenonT(60) DEF e, s

-----------------------------------------------------------------------------
(***************************************************************************)
(* The refinement.  The store that the program on ciphertexts implements   *)
(* holds what the ciphertexts decrypt to.  The invariant says what the     *)
(* steps need of the state: a variable holds a ciphertext under a tag, a   *)
(* vector of relinearisation keys has a key for each power, an             *)
(* automorphism key is one for its index, and the digits are those of the  *)
(* ciphertext they were computed from.                                     *)
(***************************************************************************)
Plain == INSTANCE PlaintextStore WITH store <- Messages

Ciphertext == [tag : Tag, cv : Cv]

IInv ==
    /\ ct \in [Name -> Ciphertext \cup {NoCt}]
    /\ evalMultKeys = [t \in Tag |-> evalMultKeys[t]]
    /\ \A t \in Tag : KeyVector(evalMultKeys[t], Secret[t])
    /\ evalAutoKeys = [t \in Tag |-> [i \in Index |-> evalAutoKeys[t][i]]]
    /\ \A t \in Tag : \A i \in Index :
           evalAutoKeys[t][i] # NoKey => AutoKey(evalAutoKeys[t][i], Secret[t], i)
    /\ digits # NoKey => digits.d = digits.of.cv[2]

LEMMA CiphertextFacts ==
    ASSUME NEW t \in Tag, NEW cv \in Cv
    PROVE  /\ [tag |-> t, cv |-> cv] \in Ciphertext
           /\ [tag |-> t, cv |-> cv] # NoCt
           /\ [tag |-> t, cv |-> cv].tag = t /\ [tag |-> t, cv |-> cv].cv = cv
<1> DEFINE c == [tag |-> t, cv |-> cv]
<1>1. c \in Ciphertext
  BY DEF Ciphertext
<1>2. cv \in Seq(Element)
  BY Zenon DEF Cv
<1>3. c \in [tag : Tag, cv : Seq(Element)]
  BY <1>2, SMTT(60)
<1>4. c # NoCt
  BY <1>3, StoreAssumption, ZenonT(60)
<1>5. c.tag = t /\ c.cv = cv
  OBVIOUS
<1> QED BY <1>1, <1>4, <1>5, ZenonT(60)

\* A variable that holds a ciphertext holds its message in the store.
LEMMA HeldFacts ==
    ASSUME IInv, NEW y \in Held
    PROVE  /\ y \in Name /\ ct[y].tag \in Tag /\ ct[y].cv \in Cv
           /\ Secret[ct[y].tag] \in Element /\ Decrypt(y) \in Element
           /\ Decrypt(y) = DecryptCore(ct[y].cv, Secret[ct[y].tag])
           /\ Messages[y].tag = ct[y].tag /\ Messages[y].m = Decrypt(y)
           /\ y \in Plain!Held
<1>1. y \in Name /\ ct[y] # NoCt
  BY Zenon DEF Held
<1>2. ct[y] \in Ciphertext
  BY <1>1, ZenonT(60) DEF IInv
<1>3. ct[y].tag \in Tag /\ ct[y].cv \in Cv
  BY <1>2, SMTT(60) DEF Ciphertext
<1>4. Secret[ct[y].tag] \in Element
  BY <1>3, SampledElements, ZenonT(60)
<1>5. Decrypt(y) = DecryptCore(ct[y].cv, Secret[ct[y].tag])
  BY Zenon DEF Decrypt
<1>6. Decrypt(y) \in Element
  BY <1>3, <1>4, <1>5, DecryptIsSum, ZenonT(60)
<1>7. Messages[y] = [tag |-> ct[y].tag, m |-> Decrypt(y)]
  BY <1>1, Zenon DEF Messages
<1>8. Messages[y].tag = ct[y].tag /\ Messages[y].m = Decrypt(y)
  BY <1>7
<1>9. ct[y].tag # "none"
  BY <1>3, StoreAssumption, Zenon
<1>10. Messages[y] # Plain!Empty
  <2>1. Plain!Empty.tag = "none"
    BY DEF Plain!Empty
  <2> QED BY <1>8, <1>9, <2>1, ZenonT(60)
<1>11. y \in Plain!Held
  BY <1>1, <1>10, Zenon DEF Plain!Held
<1> QED BY <1>1, <1>3, <1>4, <1>5, <1>6, <1>8, <1>11, ZenonT(60)

\* An assignment puts what the new ciphertext decrypts to into the store.
LEMMA AssignPuts ==
    ASSUME IInv, NEW x \in Name, NEW t \in Tag, NEW cv \in Cv, Assign(x, t, cv)
    PROVE  IInv' /\ Plain!Put(x, t, DecryptCore(cv, Secret[t]))
<1> DEFINE c == [tag |-> t, cv |-> cv]
           d == [tag |-> t, m |-> DecryptCore(cv, Secret[t])]
<1>1. ct' = [ct EXCEPT ![x] = c]
  BY Zenon DEF Assign
<1>2. c \in Ciphertext /\ c # NoCt /\ c.tag = t /\ c.cv = cv
  BY CiphertextFacts, Zenon
<1> HIDE DEF c
<1>3. ct \in [Name -> Ciphertext \cup {NoCt}]
  BY Zenon DEF IInv
<1>4. ct' \in [Name -> Ciphertext \cup {NoCt}]
  BY <1>1, <1>2, <1>3, SMTT(60)
<1>5. IInv'
  BY <1>4, Zenon DEF IInv, Assign
<1>6. ct'[x] = c /\ \A y \in Name : y # x => ct'[y] = ct[y]
  BY <1>1, <1>3, SMTT(60)
<1>7. Held' = {y \in Name : ct'[y] # NoCt}
  BY Zenon DEF Held
<1>8. Messages' = [y \in Name |-> IF y \in Held' THEN [tag |-> ct'[y].tag, m |-> DecryptCore(ct'[y].cv, Secret[ct'[y].tag])]
                                  ELSE [tag |-> "none", m |-> Zero]]
  BY Zenon DEF Messages, Decrypt
<1>9. Messages = [y \in Name |-> IF y \in Held THEN [tag |-> ct[y].tag, m |-> DecryptCore(ct[y].cv, Secret[ct[y].tag])]
                                 ELSE [tag |-> "none", m |-> Zero]]
  BY Zenon DEF Messages, Decrypt
<1>10. Messages'[x] = d
  <2>1. x \in Held'
    BY <1>2, <1>6, <1>7, ZenonT(60)
  <2> QED BY <1>2, <1>6, <1>8, <2>1, ZenonT(60)
<1>11. ASSUME NEW y \in Name, y # x PROVE Messages'[y] = Messages[y]
  <2>1. ct'[y] = ct[y]
    BY <1>6, <1>11, Zenon
  <2>2. y \in Held' <=> y \in Held
    BY <1>7, <2>1, Zenon DEF Held
  <2>3. Messages'[y] = IF y \in Held' THEN [tag |-> ct'[y].tag, m |-> DecryptCore(ct'[y].cv, Secret[ct'[y].tag])]
                       ELSE [tag |-> "none", m |-> Zero]
    BY <1>8, Zenon
  <2>4. Messages[y] = IF y \in Held THEN [tag |-> ct[y].tag, m |-> DecryptCore(ct[y].cv, Secret[ct[y].tag])]
                      ELSE [tag |-> "none", m |-> Zero]
    BY <1>9, Zenon
  <2> QED BY <2>1, <2>2, <2>3, <2>4, ZenonT(60)
<1>12. Messages' = [y \in Name |-> Messages'[y]] /\ Messages = [y \in Name |-> Messages[y]]
  BY <1>8, <1>9, Zenon
<1> HIDE DEF d
<1>13. Messages' = [Messages EXCEPT ![x] = d]
  BY <1>10, <1>11, <1>12, SMTT(60)
<1> QED BY <1>5, <1>13, Zenon DEF Plain!Put, d

\* What a step on one, or two, held ciphertexts is in the store.
LEMMA UnaryPut ==
    ASSUME IInv, NEW x \in Name, NEW y \in Held, NEW m,
           Plain!Put(x, ct[y].tag, m),
           \/ m = Decrypt(y)
           \/ m = Negate(Decrypt(y))
           \/ m = Decrypt(y) \otimes Decrypt(y)
           \/ \E i \in Index : m = AutomorphismTransform(Decrypt(y), i)
    PROVE  Plain!Next
<1>1. Plain!Unary(x, y)
  BY HeldFacts, ZenonT(60) DEF Plain!Unary, Plain!Negate, Negate, Plain!\otimes, \otimes,
     Plain!AutomorphismTransform, AutomorphismTransform
<1> QED BY <1>1, HeldFacts, ZenonT(60) DEF Plain!Next

LEMMA PlaintextPut ==
    ASSUME IInv, NEW x \in Name, NEW y \in Held, NEW p \in Message, NEW m,
           Plain!Put(x, ct[y].tag, m),
           \/ m = Decrypt(y) \oplus p
           \/ m = Decrypt(y) \ominus p
           \/ m = p \ominus Decrypt(y)
           \/ m = Decrypt(y) \otimes p
    PROVE  Plain!Next
<1>1. Plain!WithPlaintext(x, y, p)
  BY HeldFacts, ZenonT(60) DEF Plain!WithPlaintext, Plain!\oplus, \oplus, Plain!\otimes, \otimes,
     Plain!\ominus, \ominus, Plain!Negate, Negate
<1> QED BY <1>1, HeldFacts, ZenonT(60) DEF Plain!Next

LEMMA BinaryPut ==
    ASSUME IInv, NEW x \in Name, NEW y \in Held, NEW z \in Held, NEW m,
           ct[y].tag = ct[z].tag, Plain!Put(x, ct[y].tag, m),
           \/ m = Decrypt(y) \oplus Decrypt(z)
           \/ m = Decrypt(y) \ominus Decrypt(z)
           \/ m = Decrypt(y) \otimes Decrypt(z)
    PROVE  Plain!Next
<1>1. Plain!Binary(x, y, z)
  BY HeldFacts, ZenonT(60) DEF Plain!Binary, Plain!\oplus, \oplus, Plain!\otimes, \otimes,
     Plain!\ominus, \ominus, Plain!Negate, Negate
<1> QED BY <1>1, HeldFacts, ZenonT(60) DEF Plain!Next

-----------------------------------------------------------------------------
\* What every step is shown to be.
Simulated == IInv' /\ [Plain!Next]_Messages

LEMMA SameMessages ==
    ASSUME ct' = ct PROVE Messages' = Messages
BY Zenon DEF Messages, Held, Decrypt

LEMMA SimKeys ==
    ASSUME IInv, NEW t \in Tag,
           \/ GenEvalMultKey(t) \/ GenEvalMultKeys(t)
           \/ \E i \in Index : GenEvalAutomorphismKey(t, i)
    PROVE  Simulated
<1>1. ct' = ct /\ digits' = digits
  BY Zenon DEF GenEvalMultKey, GenEvalMultKeys, GenEvalAutomorphismKey
<1>2. Messages' = Messages
  BY <1>1, SameMessages, ZenonT(60)
<1>3. Secret[t] \in Element
  BY SampledElements, ZenonT(60)
<1>4. ASSUME NEW ks, KeyVector(ks, Secret[t]),
             evalMultKeys' = [evalMultKeys EXCEPT ![t] = ks], evalAutoKeys' = evalAutoKeys
      PROVE  IInv'
  <2>1. evalMultKeys = [u \in Tag |-> evalMultKeys[u]]
        /\ \A u \in Tag : KeyVector(evalMultKeys[u], Secret[u])
    BY Zenon DEF IInv
  <2>2. /\ evalMultKeys' = [u \in Tag |-> evalMultKeys'[u]]
        /\ evalMultKeys'[t] = ks /\ \A u \in Tag : u # t => evalMultKeys'[u] = evalMultKeys[u]
    BY <1>4, <2>1, SMTT(60)
  <2>3. \A u \in Tag : KeyVector(evalMultKeys'[u], Secret[u])
    BY <1>4, <2>1, <2>2, ZenonT(60)
  <2> QED BY <1>1, <1>4, <2>2, <2>3, SMTT(60) DEF IInv
<1>5. CASE GenEvalMultKey(t) \/ GenEvalMultKeys(t)
  <2>1. IInv'
    BY <1>3, <1>4, <1>5, MultKeyVectors, ZenonT(60) DEF GenEvalMultKey, GenEvalMultKeys
  <2> QED BY <1>2, <2>1, Zenon DEF Simulated
<1>6. ASSUME NEW i \in Index, GenEvalAutomorphismKey(t, i) PROVE Simulated
  <2> DEFINE ek == evalAutoKeys'[t][i]
  <2>1. /\ evalAutoKeys = [u \in Tag |-> [j \in Index |-> evalAutoKeys[u][j]]]
        /\ \A u \in Tag : \A j \in Index :
               evalAutoKeys[u][j] # NoKey => AutoKey(evalAutoKeys[u][j], Secret[u], j)
    BY Zenon DEF IInv
  <2>2. /\ evalAutoKeys' = [u \in Tag |-> [j \in Index |-> evalAutoKeys'[u][j]]]
        /\ ek = IF evalAutoKeys[t][i] = NoKey THEN EvalAutomorphismKeyGen(Secret[t], i, EvalA)
                ELSE evalAutoKeys[t][i]
        /\ \A u \in Tag : \A j \in Index :
               ~(u = t /\ j = i) => evalAutoKeys'[u][j] = evalAutoKeys[u][j]
    <3> DEFINE g == EvalAutomorphismKeyGen(Secret[t], i, EvalA)
               v == IF evalAutoKeys[t][i] = NoKey THEN g ELSE evalAutoKeys[t][i]
               r == [evalAutoKeys[t] EXCEPT ![i] = v]
    <3>1. evalAutoKeys' = [evalAutoKeys EXCEPT ![t] = r]
      BY <1>6, Zenon DEF GenEvalAutomorphismKey
    <3>2. /\ DOMAIN evalAutoKeys = Tag
          /\ \A u \in Tag : evalAutoKeys[u] = [j \in Index |-> evalAutoKeys[u][j]]
      BY <2>1, Zenon
    <3> HIDE DEF v
    <3>3. r = [j \in Index |-> r[j]] /\ r[i] = v /\ \A j \in Index : j # i => r[j] = evalAutoKeys[t][j]
      BY <3>2, SMTT(60)
    <3> HIDE DEF r
    <3>4. /\ evalAutoKeys' = [u \in Tag |-> evalAutoKeys'[u]]
          /\ evalAutoKeys'[t] = r /\ \A u \in Tag : u # t => evalAutoKeys'[u] = evalAutoKeys[u]
      BY <2>1, <3>1, SMTT(60)
    <3>5. \A u \in Tag : evalAutoKeys'[u] = [j \in Index |-> evalAutoKeys'[u][j]]
      BY <3>2, <3>3, <3>4, ZenonT(60)
    <3>6. evalAutoKeys' = [u \in Tag |-> [j \in Index |-> evalAutoKeys'[u][j]]]
      BY <3>4, <3>5, SMTT(60)
    <3>7. \A u \in Tag : \A j \in Index :
              ~(u = t /\ j = i) => evalAutoKeys'[u][j] = evalAutoKeys[u][j]
      BY <3>3, <3>4, ZenonT(60)
    <3> QED BY <3>3, <3>4, <3>6, <3>7, ZenonT(60) DEF v
  <2>3. i \in Galois /\ EvalA \in Element
    BY SampledElements, StoreAssumption, ZenonT(60)
  <2>4. AutoKey(EvalAutomorphismKeyGen(Secret[t], i, EvalA), Secret[t], i)
    BY <1>3, <2>3, AutoKeyGenKey, ZenonT(60)
  <2>5. ek # NoKey => AutoKey(ek, Secret[t], i)
    BY <2>1, <2>2, <2>4, ZenonT(60)
  <2>6. \A u \in Tag : \A j \in Index :
            evalAutoKeys'[u][j] # NoKey => AutoKey(evalAutoKeys'[u][j], Secret[u], j)
    BY <2>1, <2>2, <2>5, ZenonT(60)
  <2>7. evalMultKeys' = evalMultKeys
    BY <1>6, ZenonT(60) DEF GenEvalAutomorphismKey
  <2>8. IInv'
    BY <1>1, <2>2, <2>6, <2>7, ZenonT(60) DEF IInv
  <2> QED BY <1>2, <2>8, Zenon DEF Simulated
<1> QED BY <1>5, <1>6, ZenonT(60)

LEMMA SimEncrypt ==
    ASSUME IInv, NEW x \in Name, NEW t \in Tag, NEW m \in Message,
           EncryptPublic(x, t, m) \/ EncryptPrivate(x, t, m)
    PROVE  Simulated
<1>1. PICK cv \in Cv : Assign(x, t, cv) /\ DecryptCore(cv, Secret[t]) = m
  <2>1. m \in Element
    BY SampledElements, Zenon
  <2> QED BY <2>1, EncryptPublicPhase, EncryptPrivatePhase, ZenonT(60)
             DEF EncryptPublic, EncryptPrivate
<1>2. IInv' /\ Plain!Put(x, t, m)
  BY <1>1, AssignPuts, ZenonT(60)
<1> QED BY <1>2, Zenon DEF Simulated, Plain!Next, Plain!Encrypt

LEMMA SimPrecompute ==
    ASSUME IInv, NEW y \in Held, EvalFastRotationPrecompute(y)
    PROVE  Simulated
<1>1. ct' = ct /\ evalMultKeys' = evalMultKeys /\ evalAutoKeys' = evalAutoKeys
  BY Zenon DEF EvalFastRotationPrecompute
<1>2. digits'.d = digits'.of.cv[2]
  BY DEF EvalFastRotationPrecompute
<1>3. IInv'
  BY <1>1, <1>2, ZenonT(60) DEF IInv
<1> QED BY <1>1, <1>3, SameMessages, ZenonT(60) DEF Simulated

\* Results that stand for one message.
LEMMA UnarySimulated ==
    ASSUME IInv, NEW x \in Name, NEW y \in Held, NEW cv \in Cv, Assign(x, ct[y].tag, cv),
           NEW m, DecryptCore(cv, Secret[ct[y].tag]) = m,
           \/ m = Decrypt(y)
           \/ m = Negate(Decrypt(y))
           \/ m = Decrypt(y) \otimes Decrypt(y)
           \/ \E i \in Index : m = AutomorphismTransform(Decrypt(y), i)
    PROVE  Simulated
<1>1. IInv' /\ Plain!Put(x, ct[y].tag, m)
  BY HeldFacts, AssignPuts, ZenonT(60)
<1>2. Plain!Next
  BY <1>1, UnaryPut, ZenonT(60)
<1> QED BY <1>1, <1>2, ZenonT(60) DEF Simulated

LEMMA SimNegate ==
    ASSUME IInv, NEW x \in Name, NEW y \in Held, EvalNegate(x, y)
    PROVE  Simulated
<1>1. Assign(x, ct[y].tag, Negated(ct[y].cv))
  BY Zenon DEF EvalNegate, Negated
<1>2. /\ Negated(ct[y].cv) \in Cv
      /\ DecryptCore(Negated(ct[y].cv), Secret[ct[y].tag]) = Negate(Decrypt(y))
  BY HeldFacts, NegatedPhase, ZenonT(60)
<1> QED BY <1>1, <1>2, UnarySimulated, ZenonT(60)

LEMMA SimKeySwitch ==
    ASSUME IInv, NEW x \in Name, NEW y \in Held, KeySwitch(x, y)
    PROVE  Simulated
<1> DEFINE s == Secret[ct[y].tag]
           ek == KeySwitchGen(s, s, EvalA)
           e == KeySwitchInPlace(ct[y].cv, ek)
<1>1. Assign(x, ct[y].tag, e) /\ Len(ct[y].cv) = 2
  BY Zenon DEF KeySwitch
<1>2. s \in Element /\ EvalA \in Element
  BY HeldFacts, SampledElements, ZenonT(60)
<1>3. EvalKey(ek, s, s)
  BY <1>2, KeySwitchGenKey, ZenonT(60)
<1>4. e \in Cv /\ DecryptCore(e, s) = DecryptCore(ct[y].cv, s)
  <2>1. ct[y].cv \in Cv /\ Len(ct[y].cv) = 2
    BY <1>1, HeldFacts, ZenonT(60)
  <2> HIDE DEF s, ek
  <2> QED BY <1>3, <2>1, KeySwitchTwo, SMTT(60)
<1>5. DecryptCore(e, s) = Decrypt(y)
  BY <1>4, HeldFacts, ZenonT(60)
<1> HIDE DEF e
<1> QED BY <1>1, <1>4, <1>5, UnarySimulated, ZenonT(60)

\* The first key of a vector that is not empty is that of the square.
LEMMA FirstKey ==
    ASSUME IInv, NEW y \in Held, evalMultKeys[ct[y].tag] # <<>>
    PROVE  EvalKey(evalMultKeys[ct[y].tag][1],
                   Secret[ct[y].tag] \otimes Secret[ct[y].tag], Secret[ct[y].tag])
<1> DEFINE s == Secret[ct[y].tag]
           ks == evalMultKeys[ct[y].tag]
<1>1. KeyVector(ks, s) /\ s \in Element
  BY HeldFacts, ZenonT(60) DEF IInv
<1> HIDE DEF s, ks
<1>2. ks # <<>>
  BY Zenon DEF ks
<1>3. EvalKey(ks[1], Pow(s, 1 + 1), s)
  BY <1>1, <1>2, ZenonT(60) DEF KeyVector
<1>4. EvalKey(ks[1], s \otimes s, s)
  BY <1>1, <1>3, PowTwo, ZenonT(60)
<1> QED BY <1>4, ZenonT(60) DEF s, ks

LEMMA SimSquare ==
    ASSUME IInv, NEW x \in Name, NEW y \in Held, EvalSquare(x, y)
    PROVE  Simulated
<1> DEFINE s == Secret[ct[y].tag]
           c == ct[y].cv
           ek == evalMultKeys[ct[y].tag][1]
           p == EvalMultCore(c, c)
           e == KeySwitchInPlace(p, ek)
<1>1. c \in Cv /\ s \in Element /\ Decrypt(y) = DecryptCore(c, s)
  BY HeldFacts, ZenonT(60)
<1>2. Len(c) = 2 /\ Assign(x, ct[y].tag, e)
  BY <1>1, SquareIsProduct, ZenonT(60) DEF EvalSquare
<1>3. EvalKey(ek, s \otimes s, s)
  BY FirstKey, ZenonT(60) DEF EvalSquare
<1> HIDE DEF s, ek, c
<1>4. p \in Cv /\ Len(p) = Len(c) + Len(c) - 1
      /\ DecryptCore(p, s) = DecryptCore(c, s) \otimes DecryptCore(c, s)
  BY <1>1, MultPhase, ZenonT(60)
<1>5. Len(p) = 3
  BY <1>2, <1>4, SMTT(60)
<1> HIDE DEF p
<1>6. e \in Cv /\ DecryptCore(e, s) = DecryptCore(p, s)
  BY <1>1, <1>3, <1>4, <1>5, KeySwitchThree, ZenonT(60)
<1> HIDE DEF e
<1>7. DecryptCore(e, s) = Decrypt(y) \otimes Decrypt(y)
  BY <1>1, <1>4, <1>6, ZenonT(60)
<1>8. DecryptCore(e, Secret[ct[y].tag]) = Decrypt(y) \otimes Decrypt(y)
  BY <1>7, ZenonT(60) DEF s
<1> QED BY <1>2, <1>6, <1>8, UnarySimulated, ZenonT(60)

LEMMA SimRelinearize ==
    ASSUME IInv, NEW x \in Name, NEW y \in Held, Relinearize(x, y)
    PROVE  Simulated
<1> DEFINE s == Secret[ct[y].tag]
           c == ct[y].cv
           ks == evalMultKeys[ct[y].tag]
           e == RelinearizeInPlace(c, ks)
<1>1. c \in Cv /\ s \in Element /\ Decrypt(y) = DecryptCore(c, s) /\ KeyVector(ks, s)
  BY HeldFacts, ZenonT(60) DEF IInv
<1>2. Len(ks) >= Len(c) - 2 /\ Assign(x, ct[y].tag, e)
  BY Zenon DEF Relinearize
<1>3. e \in Cv /\ DecryptCore(e, s) = DecryptCore(c, s)
  BY <1>1, <1>2, RelinearizePhase, ZenonT(60)
<1> HIDE DEF e
<1>4. DecryptCore(e, s) = Decrypt(y)
  BY <1>1, <1>3, ZenonT(60)
<1> QED BY <1>2, <1>3, <1>4, UnarySimulated, ZenonT(60)

LEMMA SimRotate ==
    ASSUME IInv, NEW x \in Name, NEW y \in Held, NEW i \in Index,
           EvalRotate(x, y, i) \/ EvalFastRotation(x, y, i)
    PROVE  Simulated
<1> DEFINE s == Secret[ct[y].tag]
           c == ct[y].cv
           ek == evalAutoKeys[ct[y].tag][i]
<1>1. c \in Cv /\ s \in Element /\ Decrypt(y) = DecryptCore(c, s) /\ ct[y].tag \in Tag
  BY HeldFacts, Zenon
<1>2. Len(c) = 2 /\ ek # NoKey
  BY Zenon DEF EvalRotate, EvalFastRotation
<1>3. AutoKey(ek, s, i)
  BY <1>1, <1>2, ZenonT(60) DEF IInv
<1>4. i \in Galois
  BY StoreAssumption, ZenonT(60)
<1>5. PICK e : /\ Assign(x, ct[y].tag, e)
               /\ e = EvalAutomorphism(c, i, ek) \/ e = FastRotated(c[1], c[2], i, ek)
  <2>1. CASE EvalRotate(x, y, i)
    BY <2>1, Zenon DEF EvalRotate
  <2>2. CASE EvalFastRotation(x, y, i)
    <3>1. digits # NoKey /\ digits.of = ct[y]
          /\ Assign(x, ct[y].tag, FastRotated(c[1], digits.d, i, ek))
      BY <2>2, Zenon DEF EvalFastRotation
    <3>2. digits.d = c[2]
      BY <3>1, Zenon DEF IInv
    <3> QED BY <3>1, <3>2, ZenonT(60)
  <2> QED BY <2>1, <2>2, ZenonT(60)
<1> HIDE DEF c, ek
<1>6. e \in Cv /\ DecryptCore(e, s) = AutomorphismTransform(DecryptCore(c, s), i)
  <2> HIDE DEF s
  <2>1. CASE e = EvalAutomorphism(c, i, ek)
    <3>1. /\ EvalAutomorphism(c, i, ek) \in Cv
          /\ DecryptCore(EvalAutomorphism(c, i, ek), s) = AutomorphismTransform(DecryptCore(c, s), i)
      BY <1>1, <1>2, <1>3, <1>4, AutomorphismPhase, SMTT(60)
    <3> QED BY <2>1, <3>1, ZenonT(60)
  <2>2. CASE e = FastRotated(c[1], c[2], i, ek)
    <3>1. /\ FastRotated(c[1], c[2], i, ek) \in Cv
          /\ DecryptCore(FastRotated(c[1], c[2], i, ek), s) = AutomorphismTransform(DecryptCore(c, s), i)
      BY <1>1, <1>2, <1>3, <1>4, FastRotatedPhase, SMTT(60)
    <3> QED BY <2>2, <3>1, ZenonT(60)
  <2> QED BY <1>5, <2>1, <2>2, ZenonT(60)
<1>7. DecryptCore(e, s) = AutomorphismTransform(Decrypt(y), i)
  BY <1>1, <1>6, Zenon
<1> QED BY <1>5, <1>6, <1>7, UnarySimulated, ZenonT(60)

LEMMA CvIndices ==
    ASSUME NEW c \in Cv
    PROVE  /\ DOMAIN c = 1..Len(c) /\ 1 \in 1..Len(c) /\ c = [i \in 1..Len(c) |-> c[i]]
           /\ \A i \in 2..Len(c) : i \in 1..Len(c) /\ i # 1
<1>1. c \in Seq(Element) /\ DOMAIN c = 1..Len(c) /\ 1 \in 1..Len(c) /\ Len(c) \in Nat
  BY CvFacts, Zenon
<1>2. c = [i \in 1..Len(c) |-> c[i]]
  BY <1>1, SMTT(60)
<1>3. \A i \in 2..Len(c) : i \in 1..Len(c) /\ i # 1
  BY <1>1, SMTT(60)
<1> QED BY <1>1, <1>2, <1>3, ZenonT(60)

LEMMA SimPlaintext ==
    ASSUME IInv, NEW x \in Name, NEW y \in Held, NEW p \in Message,
           \/ EvalAddPlain(x, y, p) \/ EvalSubPlain(x, y, p)
           \/ EvalSubFromPlain(x, y, p) \/ EvalMultPlain(x, y, p)
    PROVE  Simulated
<1> DEFINE s == Secret[ct[y].tag]
           c == ct[y].cv
           m == DecryptCore(c, s)
<1>1. /\ c \in Cv /\ s \in Element /\ Decrypt(y) = m /\ m \in Element /\ ct[y].tag \in Tag
      /\ p \in Element /\ Negate(p) \in Element
  BY HeldFacts, SampledElements, ElementClosed, ZenonT(60)
<1>2. /\ DOMAIN c = 1..Len(c) /\ 1 \in 1..Len(c) /\ c = [i \in 1..Len(c) |-> c[i]]
      /\ \A i \in 2..Len(c) : i \in 1..Len(c) /\ i # 1
  BY <1>1, CvIndices, Zenon
<1>3. ASSUME NEW e \in Cv, Assign(x, ct[y].tag, e), NEW r, DecryptCore(e, s) = r,
             r = m \oplus p \/ r = m \ominus p \/ r = p \ominus m \/ r = m \otimes p
      PROVE  Simulated
  <2>1. IInv' /\ Plain!Put(x, ct[y].tag, r)
    BY <1>1, <1>3, AssignPuts, ZenonT(60)
  <2>2. r = Decrypt(y) \oplus p \/ r = Decrypt(y) \ominus p \/ r = p \ominus Decrypt(y)
        \/ r = Decrypt(y) \otimes p
    BY <1>1, <1>3, ZenonT(60)
  <2>3. Plain!Next
    BY <2>1, <2>2, PlaintextPut, ZenonT(60)
  <2> QED BY <2>1, <2>3, ZenonT(60) DEF Simulated
<1>4. CASE EvalAddPlain(x, y, p)
  <2> DEFINE e == [c EXCEPT ![1] = c[1] \oplus p]
  <2>1. Assign(x, ct[y].tag, e)
    BY <1>4, ZenonT(60) DEF EvalAddPlain
  <2> HIDE DEF c
  <2>2. FirstAdded(e, c, p)
    BY <1>2, ZenonT(60) DEF FirstAdded
  <2> HIDE DEF e, s
  <2>3. e \in Cv /\ DecryptCore(e, s) = m \oplus p
    BY <1>1, <2>2, FirstPhase, ZenonT(60)
  <2> QED BY <1>3, <2>1, <2>3, ZenonT(60)
<1>5. CASE EvalSubPlain(x, y, p)
  <2> DEFINE e == [c EXCEPT ![1] = c[1] \ominus p]
  <2>1. Assign(x, ct[y].tag, e)
    BY <1>5, Zenon DEF EvalSubPlain
  <2> HIDE DEF c
  <2>2. FirstAdded(e, c, Negate(p))
    BY <1>2, ZenonT(60) DEF FirstAdded, \ominus
  <2> HIDE DEF e, s
  <2>3. e \in Cv /\ DecryptCore(e, s) = m \oplus Negate(p)
    BY <1>1, <2>2, FirstPhase, ZenonT(60)
  <2>4. DecryptCore(e, s) = m \ominus p
    BY <2>3, Zenon DEF \ominus
  <2> QED BY <1>3, <2>1, <2>3, <2>4, Zenon
<1>6. CASE EvalSubFromPlain(x, y, p)
  <2> DEFINE e == [n \in DOMAIN c |-> IF n = 1 THEN Negate(c[1]) \oplus p ELSE Negate(c[n])]
             d == Negated(c)
  <2>1. Assign(x, ct[y].tag, e)
    BY <1>6, Zenon DEF EvalSubFromPlain
  <2> HIDE DEF c, s
  <2>2. d \in Cv /\ Len(d) = Len(c) /\ DecryptCore(d, s) = Negate(m)
    BY <1>1, NegatedPhase, ZenonT(60)
  <2>3. \A i \in 1..Len(c) : d[i] = Negate(c[i])
    BY <1>2, Zenon DEF Negated
  <2>4. /\ e = [i \in 1..Len(c) |-> e[i]] /\ e[1] = d[1] \oplus p
        /\ \A i \in 2..Len(c) : e[i] = d[i]
    BY <1>2, <2>3, ZenonT(60)
  <2> HIDE DEF e, d
  <2>5. FirstAdded(e, d, p)
    BY <2>2, <2>4, ZenonT(60) DEF FirstAdded
  <2>6. e \in Cv /\ DecryptCore(e, s) = Negate(m) \oplus p
    <3>2. s \in Element /\ p \in Element /\ d \in Cv
      BY <1>1, <2>2, ZenonT(60)
    <3>3. e \in Cv /\ DecryptCore(e, s) = DecryptCore(d, s) \oplus p
      BY <2>5, <3>2, FirstPhase, ZenonT(60)
    <3> QED BY <2>2, <3>3, ZenonT(60)
  <2>7. Negate(m) \in Element
    BY <1>1, ElementClosed, Zenon
  <2>8. Negate(m) \oplus p = p \ominus m
    BY <1>1, <2>7, ElementGroup, ZenonT(60) DEF \ominus
  <2> QED BY <1>3, <2>1, <2>6, <2>8, Zenon
<1>7. CASE EvalMultPlain(x, y, p)
  <2> DEFINE e == [n \in DOMAIN c |-> c[n] \otimes p]
  <2>1. Assign(x, ct[y].tag, e)
    BY <1>7, ZenonT(60) DEF EvalMultPlain
  <2> HIDE DEF c, s
  <2>2. \A i \in 1..Len(c) : c[i] \otimes p = p \otimes c[i]
    BY <1>1, CvFacts, ElementRing, ZenonT(60)
  <2>3. e = [i \in 1..Len(c) |-> e[i]] /\ \A i \in 1..Len(c) : e[i] = p \otimes c[i]
    BY <1>2, <2>2, ZenonT(60)
  <2> HIDE DEF e
  <2>4. e \in Cv /\ DecryptCore(e, s) = p \otimes m
    BY <1>1, <2>3, ScaledPhase, SMTT(60)
  <2>5. p \otimes m = m \otimes p
    BY <1>1, ElementRing, ZenonT(60)
  <2> QED BY <1>3, <2>1, <2>4, <2>5, ZenonT(60)
<1> QED BY <1>4, <1>5, <1>6, <1>7, ZenonT(60)

LEMMA SimBinary ==
    ASSUME IInv, NEW x \in Name, NEW y \in Held, NEW z \in Held,
           \/ EvalAdd(x, y, z) \/ EvalSub(x, y, z)
           \/ EvalMult(x, y, z) \/ EvalMultNoRelin(x, y, z)
           \/ EvalMultAndRelinearize(x, y, z)
    PROVE  Simulated
<1> DEFINE t == ct[y].tag
           s == Secret[t]
           c == ct[y].cv
           d == ct[z].cv
           p == EvalMultCore(c, d)
           ks == evalMultKeys[t]
<1>1. ct[z].tag = t
  BY Zenon DEF EvalAdd, EvalSub, EvalMult, EvalMultNoRelin, EvalMultAndRelinearize, TypeCheck
<1>2. /\ c \in Cv /\ d \in Cv /\ s \in Element /\ t \in Tag
      /\ Decrypt(y) = DecryptCore(c, s) /\ Decrypt(z) = DecryptCore(d, s)
  BY <1>1, HeldFacts, ZenonT(60)
<1>3. ASSUME NEW e \in Cv, Assign(x, t, e), NEW r, DecryptCore(e, s) = r,
             \/ r = DecryptCore(c, s) \oplus DecryptCore(d, s)
             \/ r = DecryptCore(c, s) \ominus DecryptCore(d, s)
             \/ r = DecryptCore(c, s) \otimes DecryptCore(d, s)
      PROVE  Simulated
  <2>1. IInv' /\ Plain!Put(x, t, r)
    BY <1>2, <1>3, AssignPuts, ZenonT(60)
  <2>2. \/ r = Decrypt(y) \oplus Decrypt(z) \/ r = Decrypt(y) \ominus Decrypt(z)
        \/ r = Decrypt(y) \otimes Decrypt(z)
    BY <1>2, <1>3, ZenonT(60)
  <2>3. Plain!Next
    BY <1>1, <2>1, <2>2, BinaryPut, ZenonT(60)
  <2> QED BY <2>1, <2>3, ZenonT(60) DEF Simulated
<1>4. /\ p \in Cv /\ Len(p) = Len(c) + Len(d) - 1
      /\ DecryptCore(p, s) = DecryptCore(c, s) \otimes DecryptCore(d, s)
  BY <1>2, MultPhase, ZenonT(60)
<1>5. KeyVector(ks, s)
  BY <1>2, ZenonT(60) DEF IInv
<1>6. CASE EvalAdd(x, y, z)
  <2>1. Assign(x, t, EvalAddCore(c, d))
    BY <1>6, ZenonT(60) DEF EvalAdd
  <2> HIDE DEF c, d, s, t
  <2> QED BY <1>2, <1>3, <2>1, AddPhase, ZenonT(60)
<1>7. CASE EvalSub(x, y, z)
  <2>1. Assign(x, t, EvalSubCore(c, d))
    BY <1>7, ZenonT(60) DEF EvalSub
  <2> HIDE DEF c, d, s, t
  <2> QED BY <1>2, <1>3, <2>1, SubPhase, ZenonT(60)
<1>8. CASE EvalMultNoRelin(x, y, z)
  <2>1. Assign(x, t, p)
    BY <1>8, Zenon DEF EvalMultNoRelin
  <2> HIDE DEF c, d, s, t, p
  <2> QED BY <1>3, <1>4, <2>1, ZenonT(60)
<1>9. CASE EvalMult(x, y, z)
  <2> DEFINE e == KeySwitchInPlace(p, ks[1])
  <2>1. Assign(x, t, e) /\ Len(c) = 2 /\ Len(d) = 2 /\ evalMultKeys[ct[y].tag] # <<>>
    BY <1>9, ZenonT(60) DEF EvalMult
  <2>2. EvalKey(ks[1], s \otimes s, s)
    BY <2>1, FirstKey, ZenonT(60)
  <2> HIDE DEF c, d, s, t, ks, p
  <2>3. Len(p) = 3
    <3> HIDE DEF e
    <3>1. Len(p) = Len(c) + Len(d) - 1 /\ Len(c) = 2 /\ Len(d) = 2
      BY <1>4, <2>1, ZenonT(60)
    <3> QED BY <3>1, SMTT(60)
  <2>4. e \in Cv /\ DecryptCore(e, s) = DecryptCore(p, s)
    BY <1>2, <1>4, <2>2, <2>3, KeySwitchThree, ZenonT(60)
  <2> HIDE DEF e
  <2> QED BY <1>3, <1>4, <2>1, <2>4, ZenonT(60)
<1>10. CASE EvalMultAndRelinearize(x, y, z)
  <2> DEFINE e == RelinearizeInPlace(p, ks)
  <2>1. Assign(x, t, e) /\ Len(ks) >= Len(c) + Len(d) - 3
    BY <1>10, ZenonT(60) DEF EvalMultAndRelinearize
  <2>2. Len(c) \in Nat /\ Len(d) \in Nat
    BY <1>2, CvFacts, ZenonT(60)
  <2> HIDE DEF c, d, s, t, ks, p
  <2>3. Len(ks) >= Len(p) - 2
    BY <1>4, <2>1, <2>2, SMTT(60)
  <2>4. e \in Cv /\ DecryptCore(e, s) = DecryptCore(p, s)
    BY <1>2, <1>4, <1>5, <2>3, RelinearizePhase, ZenonT(60)
  <2> HIDE DEF e
  <2> QED BY <1>3, <1>4, <2>1, <2>4, ZenonT(60)
<1> QED BY <1>6, <1>7, <1>8, <1>9, <1>10, ZenonT(60)

\* The owner's message, for the recipient.
LEMMA SimReEncrypt ==
    ASSUME IInv, "recipient" \notin BlindWith,
           NEW x \in Name, NEW y \in Held, NEW t \in Tag, ReEncrypt(x, y, t)
    PROVE  Simulated
<1> DEFINE o == ct[y].tag
           s == Secret[o]
           c == ct[y].cv
           ek == KeySwitchGenPublic(s, PublicKey[t], Blind)
<1>1. /\ c \in Cv /\ s \in Element /\ o \in Tag /\ Decrypt(y) = DecryptCore(c, s)
      /\ Secret[t] \in Element /\ Len(c) = 2
  BY HeldFacts, SampledElements, ZenonT(60) DEF ReEncrypt
<1>2. PICK cv : /\ cv = c \/ cv = Blinded(c, PublicKey[o])
                /\ Assign(x, t, KeySwitchInPlace(cv, ek))
  <2>1. \A b : b \notin BlindWith \cap {"recipient"}
    BY Zenon
  <2> QED BY <2>1, Zenon DEF ReEncrypt, BlindingKeys
<1>3. cv \in Cv /\ Len(cv) = 2 /\ DecryptCore(cv, s) = DecryptCore(c, s)
  BY <1>1, <1>2, BlindedPhase, ZenonT(60)
<1>4. EvalKey(ek, s, Secret[t])
  BY <1>1, ReKey, ZenonT(60)
<1> DEFINE e == KeySwitchInPlace(cv, ek)
<1>5. e \in Cv /\ DecryptCore(e, Secret[t]) = DecryptCore(cv, s)
  <2> HIDE DEF s, c, ek
  <2> QED BY <1>3, <1>4, KeySwitchTwo, SMTT(60)
<1> HIDE DEF e
<1>6. Assign(x, t, e) /\ DecryptCore(e, Secret[t]) = Decrypt(y)
  BY <1>1, <1>2, <1>3, <1>5, ZenonT(60) DEF e
<1>7. IInv' /\ Plain!Put(x, t, Decrypt(y))
  BY <1>5, <1>6, AssignPuts, ZenonT(60)
<1>8. Plain!ReEncrypt(x, y, t)
  BY <1>7, HeldFacts, ZenonT(60) DEF Plain!ReEncrypt
<1>9. Plain!Next
  BY <1>8, HeldFacts, ZenonT(60) DEF Plain!Next
<1> QED BY <1>7, <1>9, ZenonT(60) DEF Simulated

-----------------------------------------------------------------------------
\* Initially no variable holds anything and there are no keys.
LEMMA InitMaps ==
    ASSUME Init PROVE IInv /\ Plain!Init
<1>1. /\ evalMultKeys = [t \in Tag |-> <<>>] /\ ct = [x \in Name |-> NoCt] /\ digits = NoKey
      /\ evalAutoKeys = [t \in Tag |-> [i \in Index |-> NoKey]]
  BY Zenon DEF Init
<1>2. ct \in [Name -> Ciphertext \cup {NoCt}]
  BY <1>1, SMTT(60)
<1>3. \A s : KeyVector(<<>>, s)
  <2>1. Len(<<>>) = 0 /\ 0 \in Nat /\ \A j : j \notin 1..0
    OBVIOUS
  <2> QED BY <2>1, ZenonT(60) DEF KeyVector
<1>4. IInv
  BY <1>1, <1>2, <1>3, ZenonT(60) DEF IInv
<1>5. \A x \in Name : x \notin Held
  BY <1>1, Zenon DEF Held
<1>6. Messages = [x \in Name |-> [tag |-> "none", m |-> Zero]]
  BY <1>5, ZenonT(60) DEF Messages
<1>7. Plain!Init
  BY <1>6, Zenon DEF Plain!Init, Plain!Empty, Plain!Zero, Zero
<1> QED BY <1>4, <1>7, ZenonT(60)

LEMMA StepMaps ==
    ASSUME "recipient" \notin BlindWith, IInv, [Next]_vars
    PROVE  Simulated
<1>1. CASE UNCHANGED vars
  <2>1. ct' = ct /\ digits' = digits /\ evalMultKeys' = evalMultKeys /\ evalAutoKeys' = evalAutoKeys
    BY <1>1, ZenonT(60) DEF vars
  <2> QED BY <2>1, SameMessages, ZenonT(60) DEF Simulated, IInv
<1>2. CASE Next
  BY <1>2, SimKeys, SimEncrypt, SimPrecompute, SimNegate, SimSquare, SimRelinearize, SimKeySwitch,
     SimRotate, SimPlaintext, SimBinary, SimReEncrypt, ZenonT(60) DEF Next
<1> QED BY <1>1, <1>2, Zenon

\* A program on ciphertexts computes what the same program computes on
\* messages: for every ring of scalars, every set of variables, owners,
\* messages and automorphisms, every length of ciphertext and number of
\* relinearisation keys.  Re-encryption is blinded with no public key or with
\* that of the owner (PREBase::ReEncrypt).
THEOREM ComputesOnMessages ==
    ASSUME "recipient" \notin BlindWith
    PROVE  Spec => Plain!Spec
<1>1. Init => IInv /\ Plain!Init
  BY InitMaps, Zenon
<1>2. IInv /\ [Next]_vars => IInv' /\ [Plain!Next]_Messages
  BY StepMaps, Zenon DEF Simulated
<1> QED BY <1>1, <1>2, PTL DEF Spec, Plain!Spec

=============================================================================
