-------------------------------- MODULE RLWE --------------------------------
(***************************************************************************)
(* The algebra under the BFV, BGV and CKKS schemes: what PKEBase, PKERNS,  *)
(* KeySwitchBV, LeveledSHEBase, PREBase and MultipartyBase compute on the  *)
(* elements of keys and ciphertexts.                                       *)
(*                                                                         *)
(* An element is in EVALUATION format: one scalar for each slot, added and *)
(* multiplied slot by slot, and permuted by an automorphism.  Scalars form *)
(* any commutative ring (the code: the integers modulo Q).  Two things are *)
(* left out: the noise terms (ns * e), which the parameters keep small     *)
(* enough for decoding to remove, and the digits of key switching: a key   *)
(* has one digit and the decomposition of c is c.  Sampled elements are    *)
(* arguments.                                                              *)
(***************************************************************************)
EXTENDS Naturals, Sequences

CONSTANTS
    Scalar,            \* the ring of scalars
    FZero, FOne,
    FAdd(_, _), FMul(_, _), FNeg(_),
    Slot,              \* the evaluation points
    Galois,            \* the automorphism indices
    Perm(_, _),        \* Perm(i, j): the slot that automorphism i moves to j
    GInverse(_)        \* the inverse of an index modulo the cyclotomic order

ASSUME ScalarAssumption ==
    /\ FZero \in Scalar /\ FOne \in Scalar
    /\ \A x, y \in Scalar : /\ FAdd(x, y) \in Scalar /\ FMul(x, y) \in Scalar
                            /\ FAdd(x, y) = FAdd(y, x) /\ FMul(x, y) = FMul(y, x)
    /\ \A x \in Scalar : /\ FNeg(x) \in Scalar
                         /\ FAdd(x, FZero) = x /\ FMul(x, FOne) = x
                         /\ FAdd(x, FNeg(x)) = FZero
    /\ \A x, y, z \in Scalar : /\ FAdd(FAdd(x, y), z) = FAdd(x, FAdd(y, z))
                               /\ FMul(FMul(x, y), z) = FMul(x, FMul(y, z))
                               /\ FMul(x, FAdd(y, z)) = FAdd(FMul(x, y), FMul(x, z))

ASSUME GaloisAssumption ==
    \A i \in Galois : /\ GInverse(i) \in Galois
                      /\ \A j \in Slot : /\ Perm(i, j) \in Slot
                                         /\ Perm(GInverse(i), Perm(i, j)) = j

(***************************************************************************)
(* Elements.                                                               *)
(***************************************************************************)
Element == [Slot -> Scalar]

Zero == [j \in Slot |-> FZero]

x \oplus y == [j \in Slot |-> FAdd(x[j], y[j])]

x \otimes y == [j \in Slot |-> FMul(x[j], y[j])]

Negate(x) == [j \in Slot |-> FNeg(x[j])]

x \ominus y == x \oplus Negate(y)

AutomorphismTransform(x, i) == [j \in Slot |-> x[Perm(i, j)]]

(***************************************************************************)
(* Public keys and encryption.                                             *)
(***************************************************************************)
KeyGenPublic(s, a) == [b |-> Negate(a \otimes s), a |-> a]

EncryptZeroPublic(pk, v) == <<pk.b \otimes v, pk.a \otimes v>>

EncryptZeroPrivate(s, a) == <<a \otimes s, Negate(a)>>

EncryptPlain(ba, m) == <<ba[1] \oplus m, ba[2]>>

(***************************************************************************)
(* Key switching: b + a * new = old, so that c * b + (c * a) * new =       *)
(* c * old.                                                                *)
(***************************************************************************)
KeySwitchGen(old, new, a) == [b |-> old \ominus (a \otimes new), a |-> a]

KeySwitchGenPublic(old, pk, u) ==
    [b |-> (pk.b \otimes u) \oplus old, a |-> pk.a \otimes u]

KeySwitchCore(c, ek) == <<c \otimes ek.b, c \otimes ek.a>>

\* From the third element when there is one, else from the second; whatever
\* follows is dropped by cv.resize(2).
KeySwitchInPlace(cv, ek) ==
    IF Len(cv) = 2
    THEN LET ba == KeySwitchCore(cv[2], ek) IN <<cv[1] \oplus ba[1], ba[2]>>
    ELSE LET ba == KeySwitchCore(cv[3], ek) IN <<cv[1] \oplus ba[1], cv[2] \oplus ba[2]>>

EvalMultKeyGen(s, a) == KeySwitchGen(s \otimes s, s, a)

EvalAutomorphismKeyGen(s, i, a) ==
    KeySwitchGen(s, AutomorphismTransform(s, GInverse(i)), a)

(***************************************************************************)
(* Operations on the elements of ciphertexts, which a multiplication that  *)
(* is not relinearised leaves of different lengths.                        *)
(***************************************************************************)
LongerLen(cv1, cv2) == IF Len(cv1) < Len(cv2) THEN Len(cv2) ELSE Len(cv1)

EvalAddCore(cv1, cv2) ==
    [n \in 1..LongerLen(cv1, cv2) |->
        IF n > Len(cv2) THEN cv1[n] ELSE IF n > Len(cv1) THEN cv2[n] ELSE cv1[n] \oplus cv2[n]]

EvalSubCore(cv1, cv2) ==
    [n \in 1..LongerLen(cv1, cv2) |->
        IF n > Len(cv2) THEN cv1[n] ELSE IF n > Len(cv1) THEN Negate(cv2[n]) ELSE cv1[n] \ominus cv2[n]]

EvalMultCorePair(cv1, cv2) ==
    << cv2[1] \otimes cv1[1],
       (cv1[2] \otimes cv2[1]) \oplus (cv1[1] \otimes cv2[2]),
       cv1[2] \otimes cv2[2] >>

\* Mutant: the automorphism comes before the key switch.
EvalAutomorphismFirst(cv, i, ek) ==
    KeySwitchInPlace(<<AutomorphismTransform(cv[1], i), AutomorphismTransform(cv[2], i)>>, ek)

EvalAutomorphism(cv, i, ek) ==
    LET rcv == KeySwitchInPlace(cv, ek)
    IN  <<AutomorphismTransform(rcv[1], i), AutomorphismTransform(rcv[2], i)>>

(***************************************************************************)
(* Ciphertexts of any length.                                              *)
(***************************************************************************)
SumUpTo(f, n) ==
    LET Sum[i \in 0..n] == IF i = 0 THEN Zero ELSE Sum[i - 1] \oplus f[i]
    IN  Sum[n]

Power(s, n) ==
    LET P[i \in 1..n] == IF i = 1 THEN s ELSE P[i - 1] \otimes s
    IN  P[n]

DecryptCore(cv, s) ==
    cv[1] \oplus SumUpTo([i \in 1..Len(cv) - 1 |-> Power(s, i) \otimes cv[i + 1]], Len(cv) - 1)

EvalMultCore(cv1, cv2) ==
    IF Len(cv1) = 2 /\ Len(cv2) = 2
    THEN EvalMultCorePair(cv1, cv2)
    ELSE [n \in 1..Len(cv1) + Len(cv2) - 1 |->
             SumUpTo([i \in 1..Len(cv1) |->
                         IF n + 1 - i \in 1..Len(cv2) THEN cv1[i] \otimes cv2[n + 1 - i] ELSE Zero],
                     Len(cv1))]

\* Every pair of different elements is multiplied once and added twice.
EvalSquareCore(cv) ==
    [n \in 1..2 * Len(cv) - 1 |->
        SumUpTo([i \in 1..Len(cv) |->
                    LET j == n + 1 - i IN
                    CASE j = i -> cv[i] \otimes cv[i]
                      [] j \in i + 1..Len(cv) -> (cv[i] \otimes cv[j]) \oplus (cv[i] \otimes cv[j])
                      [] OTHER -> Zero],
                Len(cv))]

\* Mutant: every element is switched with the key of the square.
RelinearizeFirstKey(cv, keys) ==
    LET Switched[n \in 1..2] ==
            SumUpTo([j \in 1..Len(cv) - 2 |-> KeySwitchCore(cv[j + 2], keys[1])[n]], Len(cv) - 2)
    IN  <<cv[1] \oplus Switched[1], cv[2] \oplus Switched[2]>>

RelinearizeInPlace(cv, keys) ==
    LET Switched[n \in 1..2] ==
            SumUpTo([j \in 1..Len(cv) - 2 |-> KeySwitchCore(cv[j + 2], keys[j])[n]], Len(cv) - 2)
    IN  <<cv[1] \oplus Switched[1], cv[2] \oplus Switched[2]>>

(***************************************************************************)
(* The operations of threshold keys.                                       *)
(***************************************************************************)
\* Mutant: the flag "fresh" is ignored.
MultipartyKeyGenPublicAdd(pk, s, fresh) ==
    [b |-> Negate(pk.a \otimes s) \oplus pk.b, a |-> pk.a]

MultipartyKeyGenPublic(pk, s, fresh) ==
    [b |-> IF fresh THEN Negate(pk.a \otimes s) ELSE Negate(pk.a \otimes s) \oplus pk.b,
     a |-> pk.a]

MultiAddPubKeys(pk1, pk2) == [b |-> pk1.b \oplus pk2.b, a |-> pk1.a]

MultiKeySwitchGen(old, new, ek) == KeySwitchGen(old, new, ek.a)

\* Mutant: the index is not inverted.
MultiEvalAutomorphismKeyGenIndex(s, i, ek) ==
    MultiKeySwitchGen(s, AutomorphismTransform(s, i), ek)

MultiEvalAutomorphismKeyGen(s, i, ek) ==
    MultiKeySwitchGen(s, AutomorphismTransform(s, GInverse(i)), ek)

MultiAddEvalKeys(ek1, ek2) == [b |-> ek1.b \oplus ek2.b, a |-> ek1.a]

\* Mutant: only the second vectors are added, as for the keys of round one.
MultiAddEvalMultKeysB(ek1, ek2) == [b |-> ek1.b \oplus ek2.b, a |-> ek1.a]

MultiAddEvalMultKeys(ek1, ek2) == [b |-> ek1.b \oplus ek2.b, a |-> ek1.a \oplus ek2.a]

MultiMultEvalKey(s, ek) == [b |-> ek.b \otimes s, a |-> ek.a \otimes s]

\* In the mode NOISE_FLOODING_MULTIPARTY both throw for elements of fewer than
\* three towers, and no share comes about; the number of towers is left open.
DecryptShareLead(cv, s) == cv[1] \oplus (s \otimes cv[2])

DecryptShareMain(cv, s) == s \otimes cv[2]
=============================================================================
