-------------------------- MODULE HomomorphicStore --------------------------
(***************************************************************************)
(* A program that computes on ciphertexts through one CryptoContext:       *)
(* encryption and decryption, key generation for relinearisation and       *)
(* automorphisms, the arithmetic with and without relinearisation,         *)
(* rotations, hoisted rotations, key switching and re-encryption.          *)
(*                                                                         *)
(* The result of an operation is assigned to a variable that may be one of *)
(* its operands, which also stands for the InPlace and Mutable forms.  A   *)
(* call that throws changes nothing, so its condition is a guard.  What    *)
(* the code leaves to its callers is a guard as well, each marked          *)
(* "caller".                                                               *)
(***************************************************************************)
EXTENDS RLWE

CONSTANTS
    Name, Tag, Message, Index,
    Secret,            \* Secret[t]: the private element of the key pair tagged t
    PubA, EvalA,       \* sampled for public keys and for evaluation keys
    Blind,             \* sampled in an encryption
    MaxRelinSkDeg,     \* the largest power of the secret that keys are made for
    BlindWith,         \* the public keys passed to ReEncrypt, see BlindingKeys
    MaxElements,       \* bound: elements of a ciphertext
    NoCt, NoKey

ASSUME StoreAssumption ==
    /\ Secret \in [Tag -> Element]
    /\ {PubA, EvalA, Blind} \subseteq Element /\ Message \subseteq Element
    /\ Index \subseteq Galois
    /\ MaxRelinSkDeg \in Nat \ {0, 1}
    /\ BlindWith \subseteq {"none", "owner", "recipient"}
    /\ "none" \notin Tag
    /\ NoCt \notin [tag : Tag, cv : Seq(Element)]

VARIABLES
    evalMultKeys,      \* evalMultKeyMap: the vector of keys of a tag
    evalAutoKeys,      \* evalAutomorphismKeyMap: the keys of a tag, by index
    digits,            \* what EvalFastRotationPrecompute returned last
    ct                 \* the ciphertext variables

vars == <<evalMultKeys, evalAutoKeys, digits, ct>>

Held == {x \in Name : ct[x] # NoCt}

PublicKey == [t \in Tag |-> KeyGenPublic(Secret[t], PubA)]

(***************************************************************************)
(* Keys.  A vector of relinearisation keys replaces the one there was, and *)
(* an automorphism key is added unless there is one for its index.         *)
(***************************************************************************)
EvalMultKeysGen(s) ==
    [i \in 1..MaxRelinSkDeg - 1 |-> KeySwitchGen(Power(s, i + 1), s, EvalA)]

Init ==
    /\ evalMultKeys = [t \in Tag |-> <<>>]
    /\ evalAutoKeys = [t \in Tag |-> [i \in Index |-> NoKey]]
    /\ digits = NoKey
    /\ ct = [x \in Name |-> NoCt]

GenEvalMultKey(t) ==
    /\ evalMultKeys' = [evalMultKeys EXCEPT ![t] = <<EvalMultKeyGen(Secret[t], EvalA)>>]
    /\ UNCHANGED <<evalAutoKeys, digits, ct>>

GenEvalMultKeys(t) ==
    /\ evalMultKeys' = [evalMultKeys EXCEPT ![t] = EvalMultKeysGen(Secret[t])]
    /\ UNCHANGED <<evalAutoKeys, digits, ct>>

GenEvalAutomorphismKey(t, i) ==
    /\ evalAutoKeys' = [evalAutoKeys EXCEPT ![t][i] =
                            IF @ = NoKey THEN EvalAutomorphismKeyGen(Secret[t], i, EvalA) ELSE @]
    /\ UNCHANGED <<evalMultKeys, digits, ct>>

(***************************************************************************)
(* Ciphertexts.                                                            *)
(***************************************************************************)
Assign(x, t, cv) ==
    /\ Len(cv) <= MaxElements
    /\ ct' = [ct EXCEPT ![x] = [tag |-> t, cv |-> cv]]
    /\ UNCHANGED <<evalMultKeys, evalAutoKeys, digits>>

EncryptPublic(x, t, m) == Assign(x, t, EncryptPlain(EncryptZeroPublic(PublicKey[t], Blind), m))

EncryptPrivate(x, t, m) == Assign(x, t, EncryptPlain(EncryptZeroPrivate(Secret[t], Blind), m))

TypeCheck(y, z) == ct[y].tag = ct[z].tag

EvalNegate(x, y) == Assign(x, ct[y].tag, [n \in DOMAIN ct[y].cv |-> Negate(ct[y].cv[n])])

EvalAdd(x, y, z) == TypeCheck(y, z) /\ Assign(x, ct[y].tag, EvalAddCore(ct[y].cv, ct[z].cv))

EvalSub(x, y, z) == TypeCheck(y, z) /\ Assign(x, ct[y].tag, EvalSubCore(ct[y].cv, ct[z].cv))

EvalAddPlain(x, y, p) == Assign(x, ct[y].tag, [ct[y].cv EXCEPT ![1] = @ \oplus p])

EvalSubPlain(x, y, p) == Assign(x, ct[y].tag, [ct[y].cv EXCEPT ![1] = @ \ominus p])

\* EvalSub(plaintext, ciphertext) adds to the negated ciphertext.
EvalSubFromPlain(x, y, p) ==
    Assign(x, ct[y].tag, [n \in DOMAIN ct[y].cv |->
                             IF n = 1 THEN Negate(ct[y].cv[1]) \oplus p ELSE Negate(ct[y].cv[n])])

EvalMultPlain(x, y, p) == Assign(x, ct[y].tag, [n \in DOMAIN ct[y].cv |-> ct[y].cv[n] \otimes p])

EvalMultNoRelin(x, y, z) ==
    TypeCheck(y, z) /\ Assign(x, ct[y].tag, EvalMultCore(ct[y].cv, ct[z].cv))

\* caller: neither operand has a third element.
EvalMult(x, y, z) ==
    /\ TypeCheck(y, z)
    /\ evalMultKeys[ct[y].tag] # <<>>
    /\ Len(ct[y].cv) = 2 /\ Len(ct[z].cv) = 2
    /\ Assign(x, ct[y].tag,
              KeySwitchInPlace(EvalMultCore(ct[y].cv, ct[z].cv), evalMultKeys[ct[y].tag][1]))

\* caller: the operand has no third element.
EvalSquare(x, y) ==
    /\ evalMultKeys[ct[y].tag] # <<>>
    /\ Len(ct[y].cv) = 2
    /\ Assign(x, ct[y].tag, KeySwitchInPlace(EvalSquareCore(ct[y].cv), evalMultKeys[ct[y].tag][1]))

Relinearize(x, y) ==
    /\ evalMultKeys[ct[y].tag] # <<>>
    /\ Len(evalMultKeys[ct[y].tag]) >= Len(ct[y].cv) - 2
    /\ Assign(x, ct[y].tag, RelinearizeInPlace(ct[y].cv, evalMultKeys[ct[y].tag]))

\* caller: the operands are under the same key, which is not checked here.
EvalMultAndRelinearize(x, y, z) ==
    /\ ct[y].tag = ct[z].tag
    /\ evalMultKeys[ct[y].tag] # <<>>
    /\ Len(evalMultKeys[ct[y].tag]) >= Len(ct[y].cv) + Len(ct[z].cv) - 3
    /\ Assign(x, ct[y].tag,
              RelinearizeInPlace(EvalMultCore(ct[y].cv, ct[z].cv), evalMultKeys[ct[y].tag]))

\* caller: the operand has no third element, also below.
EvalRotate(x, y, i) ==
    /\ evalAutoKeys[ct[y].tag][i] # NoKey
    /\ Len(ct[y].cv) = 2
    /\ Assign(x, ct[y].tag, EvalAutomorphism(ct[y].cv, i, evalAutoKeys[ct[y].tag][i]))

EvalFastRotationPrecompute(y) ==
    /\ digits' = [of |-> ct[y], d |-> ct[y].cv[2]]
    /\ UNCHANGED <<evalMultKeys, evalAutoKeys, ct>>

FastRotated(c0, d, i, ek) ==
    LET ba == KeySwitchCore(d, ek)
    IN  <<AutomorphismTransform(ba[1] \oplus c0, i), AutomorphismTransform(ba[2], i)>>

\* caller: the digits are those of this ciphertext.
EvalFastRotation(x, y, i) ==
    /\ digits # NoKey /\ digits.of = ct[y]
    /\ evalAutoKeys[ct[y].tag][i] # NoKey
    /\ Len(ct[y].cv) = 2
    /\ Assign(x, ct[y].tag, FastRotated(ct[y].cv[1], digits.d, i, evalAutoKeys[ct[y].tag][i]))

\* KeySwitch leaves the tag as it was.  caller: the new key is the old one.
KeySwitch(x, y) ==
    /\ Len(ct[y].cv) = 2
    /\ Assign(x, ct[y].tag,
              KeySwitchInPlace(ct[y].cv, KeySwitchGen(Secret[ct[y].tag], Secret[ct[y].tag], EvalA)))

(***************************************************************************)
(* Re-encryption, with a key that ReKeyGen makes from the private key of   *)
(* the ciphertext and the public key of t.  When a public key is passed,   *)
(* an encryption of zero under it is added before the key is switched.     *)
(***************************************************************************)
BlindingKeys(owner, recipient) ==
    {PublicKey[owner] : b \in BlindWith \cap {"owner"}}
        \cup {PublicKey[recipient] : b \in BlindWith \cap {"recipient"}}

Blinded(cv, pk) ==
    LET ba == EncryptZeroPublic(pk, Blind) IN <<cv[1] \oplus ba[1], cv[2] \oplus ba[2]>>

ReEncrypt(x, y, t) ==
    /\ Len(ct[y].cv) = 2
    /\ \E cv \in {ct[y].cv : b \in BlindWith \cap {"none"}}
                    \cup {Blinded(ct[y].cv, pk) : pk \in BlindingKeys(ct[y].tag, t)} :
           Assign(x, t, KeySwitchInPlace(cv, KeySwitchGenPublic(Secret[ct[y].tag], PublicKey[t], Blind)))

Next ==
    \/ \E t \in Tag : \/ GenEvalMultKey(t) \/ GenEvalMultKeys(t)
                      \/ \E i \in Index : GenEvalAutomorphismKey(t, i)
    \/ \E x \in Name, t \in Tag, m \in Message : EncryptPublic(x, t, m) \/ EncryptPrivate(x, t, m)
    \/ \E y \in Held : EvalFastRotationPrecompute(y)
    \/ \E x \in Name, y \in Held :
           \/ EvalNegate(x, y) \/ EvalSquare(x, y) \/ Relinearize(x, y) \/ KeySwitch(x, y)
           \/ \E i \in Index : EvalRotate(x, y, i) \/ EvalFastRotation(x, y, i)
           \/ \E p \in Message : \/ EvalAddPlain(x, y, p) \/ EvalSubPlain(x, y, p)
                                 \/ EvalSubFromPlain(x, y, p) \/ EvalMultPlain(x, y, p)
           \/ \E z \in Held : \/ EvalAdd(x, y, z) \/ EvalSub(x, y, z)
                              \/ EvalMult(x, y, z) \/ EvalMultNoRelin(x, y, z)
                              \/ EvalMultAndRelinearize(x, y, z)
           \/ \E t \in Tag : ReEncrypt(x, y, t)

Spec == Init /\ [][Next]_vars

(***************************************************************************)
(* Properties.                                                             *)
(***************************************************************************)
\* Decrypt with the private key that the ciphertext's tag names.
Decrypt(x) == DecryptCore(ct[x].cv, Secret[ct[x].tag])

\* The messages the variables hold.
Messages ==
    [x \in Name |-> IF x \in Held THEN [tag |-> ct[x].tag, m |-> Decrypt(x)]
                    ELSE [tag |-> "none", m |-> Zero]]

\* "publicKey the public key of the recipient of the re-encrypted ciphertext":
\* a re-encrypted ciphertext decrypts, for the recipient, to the message it had.
ReEncryptKeepsMessage ==
    [][\A x, y \in Name, t \in Tag :
          y \in Held /\ ReEncrypt(x, y, t) => DecryptCore(ct'[x].cv, Secret[t]) = Decrypt(y)]_vars
=============================================================================
