----------------------------- MODULE Threshold ------------------------------
(***************************************************************************)
(* Threshold encryption: parties that each hold a share of a secret key    *)
(* build the joint public key, the joint relinearisation and automorphism  *)
(* keys, compute on ciphertexts under the joint key and decrypt them       *)
(* together (CryptoContext's Multiparty* and Multi* methods).              *)
(*                                                                         *)
(* Everything the parties publish can be used by everyone in any order.    *)
(* The tag of a joint key, a string the callers agree on, is here the      *)
(* coalition "who" whose shares the key is made of.  Callers never         *)
(* combine two objects that already share a party; the code does not       *)
(* check that.                                                             *)
(***************************************************************************)
EXTENDS RLWE, FiniteSets

CONSTANTS
    Party, Lead,       \* the parties, and the one that calls KeyGen
    Share,             \* Share[p]: the secret element of party p
    Joint,             \* Joint[W]: the sum of the shares of W
    PubA, EvalA,       \* elements sampled for the public key and the eval keys
    JointA,            \* sampled for a public key made from all private keys
    Blind,             \* elements sampled as v, or u, in an encryption
    Message,           \* the plaintext elements that are encrypted
    Index,             \* the automorphism indices that keys are made for
    MaxElements,       \* bound: elements of a ciphertext
    MaxCts,            \* bound: ciphertexts made
    NoKey

ASSUME PartyAssumption ==
    /\ Lead \in Party
    /\ Share \in [Party -> Element]
    /\ Joint \in [SUBSET Party -> Element]
    /\ Joint[{}] = Zero
    /\ \A W \in SUBSET Party : \A p \in Party \ W :
           Joint[W \cup {p}] = Joint[W] \oplus Share[p]
    /\ \A V, W \in SUBSET Party :
           V \cap W = {} => Joint[V \cup W] = Joint[V] \oplus Joint[W]

ASSUME SampleAssumption ==
    /\ PubA \in Element /\ EvalA \in Element /\ JointA \in Element
    /\ Blind \subseteq Element /\ Message \subseteq Element /\ Index \subseteq Galois
    /\ MaxElements = 3

VARIABLES
    pub,               \* the public keys published
    round1,            \* shares and sums of keys from s to s
    round2,            \* products of a round-one key and shares
    autoShares,        \* shares and sums of automorphism keys
    evalMult,          \* evalMultKeyMap: the relinearisation key of a coalition
    evalAuto,          \* evalAutomorphismKeyMap: its automorphism keys
    cts,               \* the ciphertexts
    parts,             \* the partial decryptions published
    fusing             \* the loop of MultipartyDecryptFusion

vars == <<pub, round1, round2, autoShares, evalMult, evalAuto, cts, parts, fusing>>

Coalition == (SUBSET Party) \ {{}}

Key(k, W) == [key |-> k, who |-> W]

Disjoint(k1, k2) == k1.who \cap k2.who = {}

(***************************************************************************)
(* Public keys.                                                            *)
(***************************************************************************)
KeyGen ==
    /\ pub' = pub \cup {Key(KeyGenPublic(Share[Lead], PubA), {Lead})}
    /\ UNCHANGED <<round1, round2, autoShares, evalMult, evalAuto, cts, parts, fusing>>

MultipartyKeyGen(p, k, fresh) ==
    /\ p \notin k.who
    /\ pub' = pub \cup {Key(MultipartyKeyGenPublic(k.key, Share[p], fresh),
                            IF fresh THEN {p} ELSE k.who \cup {p})}
    /\ UNCHANGED <<round1, round2, autoShares, evalMult, evalAuto, cts, parts, fusing>>

\* MultipartyKeyGen(privateKeyVec): a key pair for the sum of private keys.
MultipartyKeyGenVec(W) ==
    /\ pub' = pub \cup {Key(KeyGenPublic(Joint[W], JointA), W)}
    /\ UNCHANGED <<round1, round2, autoShares, evalMult, evalAuto, cts, parts, fusing>>

AddPubKeys(k1, k2) ==
    /\ Disjoint(k1, k2) /\ k1.key.a = k2.key.a
    /\ pub' = pub \cup {Key(MultiAddPubKeys(k1.key, k2.key), k1.who \cup k2.who)}
    /\ UNCHANGED <<round1, round2, autoShares, evalMult, evalAuto, cts, parts, fusing>>

(***************************************************************************)
(* The joint relinearisation key.  Round one makes a key from the joint    *)
(* secret to itself; in round two every party multiplies it by its share,  *)
(* and the sum of the products switches from the square of the secret.     *)
(***************************************************************************)
RoundOneLead ==
    /\ round1' = round1 \cup {Key(KeySwitchGen(Share[Lead], Share[Lead], EvalA), {Lead})}
    /\ UNCHANGED <<pub, round2, autoShares, evalMult, evalAuto, cts, parts, fusing>>

RoundOneShare(p, k) ==
    /\ p \notin k.who
    /\ round1' = round1 \cup {Key(MultiKeySwitchGen(Share[p], Share[p], k.key), {p})}
    /\ UNCHANGED <<pub, round2, autoShares, evalMult, evalAuto, cts, parts, fusing>>

AddEvalKeys(k1, k2) ==
    /\ Disjoint(k1, k2)
    /\ round1' = round1 \cup {Key(MultiAddEvalKeys(k1.key, k2.key), k1.who \cup k2.who)}
    /\ UNCHANGED <<pub, round2, autoShares, evalMult, evalAuto, cts, parts, fusing>>

RoundTwoShare(p, k) ==
    /\ p \in k.who
    /\ round2' = round2 \cup {[key |-> MultiMultEvalKey(Share[p], k.key),
                               who |-> {p}, of |-> k.who]}
    /\ UNCHANGED <<pub, round1, autoShares, evalMult, evalAuto, cts, parts, fusing>>

AddEvalMultKeys(k1, k2) ==
    /\ Disjoint(k1, k2) /\ k1.of = k2.of
    /\ round2' = round2 \cup {[key |-> MultiAddEvalMultKeys(k1.key, k2.key),
                               who |-> k1.who \cup k2.who, of |-> k1.of]}
    /\ UNCHANGED <<pub, round1, autoShares, evalMult, evalAuto, cts, parts, fusing>>

InsertEvalMultKey(k) ==
    /\ k.who = k.of
    /\ evalMult' = [evalMult EXCEPT ![k.who] = k.key]
    /\ UNCHANGED <<pub, round1, round2, autoShares, evalAuto, cts, parts, fusing>>

(***************************************************************************)
(* Joint automorphism keys.                                                *)
(***************************************************************************)
AutoKey(k, W, i) == [key |-> k, who |-> W, index |-> i]

AutoLead(i) ==
    /\ autoShares' = autoShares \cup {AutoKey(EvalAutomorphismKeyGen(Share[Lead], i, EvalA), {Lead}, i)}
    /\ UNCHANGED <<pub, round1, round2, evalMult, evalAuto, cts, parts, fusing>>

AutoShare(p, k) ==
    /\ p \notin k.who
    /\ autoShares' = autoShares \cup
           {AutoKey(MultiEvalAutomorphismKeyGen(Share[p], k.index, k.key), {p}, k.index)}
    /\ UNCHANGED <<pub, round1, round2, evalMult, evalAuto, cts, parts, fusing>>

\* Only indices that both maps hold are added.
AddAutoKeys(k1, k2) ==
    /\ Disjoint(k1, k2) /\ k1.index = k2.index
    /\ autoShares' = autoShares \cup
           {AutoKey(MultiAddEvalKeys(k1.key, k2.key), k1.who \cup k2.who, k1.index)}
    /\ UNCHANGED <<pub, round1, round2, evalMult, evalAuto, cts, parts, fusing>>

\* The map inserted, here of one index, replaces the map of the tag.
InsertAutoKey(k) ==
    /\ evalAuto' = [evalAuto EXCEPT ![k.who] = [i \in Index |-> IF i = k.index THEN k.key ELSE NoKey]]
    /\ UNCHANGED <<pub, round1, round2, autoShares, evalMult, cts, parts, fusing>>

(***************************************************************************)
(* Ciphertexts: their elements, the coalition of their key tag, and what   *)
(* they are meant to decrypt to.                                           *)
(***************************************************************************)
MakeCt(cv, W, m) ==
    /\ Len(cv) <= MaxElements /\ Cardinality(cts) < MaxCts
    /\ cts' = cts \cup {[cv |-> cv, who |-> W, m |-> m]}
    /\ UNCHANGED <<pub, round1, round2, autoShares, evalMult, evalAuto, parts, fusing>>

Encrypt(k, m, v) ==
    MakeCt(EncryptPlain(EncryptZeroPublic(k.key, v), m), k.who, m)

EvalAdd(c, d) ==
    /\ c.who = d.who
    /\ MakeCt(EvalAddCore(c.cv, d.cv), c.who, c.m \oplus d.m)

EvalMultNoRelin(c, d) ==
    /\ c.who = d.who /\ Len(c.cv) = 2 /\ Len(d.cv) = 2
    /\ MakeCt(EvalMultCorePair(c.cv, d.cv), c.who, c.m \otimes d.m)

Relinearize(c) ==
    /\ evalMult[c.who] # NoKey /\ Len(c.cv) = 3
    /\ MakeCt(KeySwitchInPlace(c.cv, evalMult[c.who]), c.who, c.m)

EvalMult(c, d) ==
    /\ c.who = d.who /\ Len(c.cv) = 2 /\ Len(d.cv) = 2 /\ evalMult[c.who] # NoKey
    /\ MakeCt(KeySwitchInPlace(EvalMultCorePair(c.cv, d.cv), evalMult[c.who]),
              c.who, c.m \otimes d.m)

EvalRotate(c, i) ==
    /\ evalAuto[c.who][i] # NoKey /\ Len(c.cv) = 2
    /\ MakeCt(EvalAutomorphism(c.cv, i, evalAuto[c.who][i]), c.who,
              AutomorphismTransform(c.m, i))

\* ReKeyGen from the key of one party to a public key, then ReEncrypt.
ReEncrypt(p, c, k, u) ==
    /\ c.who = {p} /\ Len(c.cv) = 2
    /\ MakeCt(KeySwitchInPlace(c.cv, KeySwitchGenPublic(Share[p], k.key, u)), k.who, c.m)

(***************************************************************************)
(* Decryption by shares.                                                   *)
(***************************************************************************)
\* Mutant: a ciphertext that was not relinearised is let through.
CheckMultipartyDecryptCompatibilityAny(c) == TRUE

CheckMultipartyDecryptCompatibility(c) == Len(c.cv) <= 2

MultipartyDecryptLead(p, c) ==
    /\ p \in c.who
    /\ CheckMultipartyDecryptCompatibility(c)
    /\ parts' = parts \cup {[ct |-> c, by |-> p, lead |-> TRUE,
                             val |-> DecryptShareLead(c.cv, Share[p])]}
    /\ UNCHANGED <<pub, round1, round2, autoShares, evalMult, evalAuto, cts, fusing>>

MultipartyDecryptMain(p, c) ==
    /\ p \in c.who
    /\ CheckMultipartyDecryptCompatibility(c)
    /\ parts' = parts \cup {[ct |-> c, by |-> p, lead |-> FALSE,
                             val |-> DecryptShareMain(c.cv, Share[p])]}
    /\ UNCHANGED <<pub, round1, round2, autoShares, evalMult, evalAuto, cts, fusing>>

\* The fusion adds the first elements of the partial ciphertexts it is given,
\* in the order of the caller.  The caller gives it partial decryptions of one
\* ciphertext, one of each party, perhaps not of every party.
FusionFirst(q) ==
    /\ fusing' = [ct |-> q.ct, by |-> {q.by}, leads |-> IF q.lead THEN 1 ELSE 0, val |-> q.val]
    /\ UNCHANGED <<pub, round1, round2, autoShares, evalMult, evalAuto, cts, parts>>

FusionNext(q) ==
    /\ fusing # NoKey
    /\ q.ct = fusing.ct /\ q.by \notin fusing.by
    /\ fusing' = [fusing EXCEPT !.by = @ \cup {q.by},
                                !.leads = IF q.lead THEN @ + 1 ELSE @,
                                !.val = @ \oplus q.val]
    /\ UNCHANGED <<pub, round1, round2, autoShares, evalMult, evalAuto, cts, parts>>

Init ==
    /\ pub = {} /\ round1 = {} /\ round2 = {} /\ autoShares = {}
    /\ evalMult = [W \in Coalition |-> NoKey]
    /\ evalAuto = [W \in Coalition |-> [i \in Index |-> NoKey]]
    /\ cts = {} /\ parts = {} /\ fusing = NoKey

PublicKeyStep ==
    \/ KeyGen
    \/ \E p \in Party, k \in pub, fresh \in BOOLEAN : MultipartyKeyGen(p, k, fresh)
    \/ \E W \in Coalition : MultipartyKeyGenVec(W)
    \/ \E k1, k2 \in pub : AddPubKeys(k1, k2)

MultKeyStep ==
    \/ RoundOneLead
    \/ \E p \in Party, k \in round1 : RoundOneShare(p, k) \/ RoundTwoShare(p, k)
    \/ \E k1, k2 \in round1 : AddEvalKeys(k1, k2)
    \/ \E k1, k2 \in round2 : AddEvalMultKeys(k1, k2)
    \/ \E k \in round2 : InsertEvalMultKey(k)

AutoKeyStep ==
    \/ \E i \in Index : AutoLead(i)
    \/ \E p \in Party, k \in autoShares : AutoShare(p, k)
    \/ \E k1, k2 \in autoShares : AddAutoKeys(k1, k2)
    \/ \E k \in autoShares : InsertAutoKey(k)

CiphertextStep ==
    \/ \E k \in pub, m \in Message, v \in Blind : Encrypt(k, m, v)
    \/ \E c, d \in cts : EvalAdd(c, d) \/ EvalMultNoRelin(c, d) \/ EvalMult(c, d)
    \/ \E c \in cts : Relinearize(c)
    \/ \E c \in cts, i \in Index : EvalRotate(c, i)
    \/ \E p \in Party, c \in cts, k \in pub, u \in Blind : ReEncrypt(p, c, k, u)

DecryptionStep ==
    \/ \E p \in Party, c \in cts : MultipartyDecryptLead(p, c) \/ MultipartyDecryptMain(p, c)
    \/ \E q \in parts : FusionFirst(q) \/ FusionNext(q)

Next == PublicKeyStep \/ MultKeyStep \/ AutoKeyStep \/ CiphertextStep \/ DecryptionStep

Spec == Init /\ [][Next]_vars

-----------------------------------------------------------------------------
EvalKey == [a : Element, b : Element]

Ct == [cv : Seq(Element), who : Coalition, m : Element]

\* The state holds well-formed keys, ciphertexts and partial decryptions.
TypeOK ==
    /\ pub \subseteq [key : EvalKey, who : Coalition]
    /\ round1 \subseteq [key : EvalKey, who : Coalition]
    /\ round2 \subseteq [key : EvalKey, who : Coalition, of : Coalition]
    /\ autoShares \subseteq [key : EvalKey, who : Coalition, index : Index]
    /\ evalMult \in [Coalition -> EvalKey \cup {NoKey}]
    /\ evalAuto \in [Coalition -> [Index -> EvalKey \cup {NoKey}]]
    /\ cts \subseteq Ct /\ \A c \in cts : Len(c.cv) \in {2, 3}
    /\ parts \subseteq [ct : Ct, by : Party, lead : BOOLEAN, val : Element]
    /\ fusing # NoKey =>
           fusing \in [ct : Ct, by : SUBSET Party, leads : Nat, val : Element]

\* A public key made by any mixture of chains of MultipartyKeyGen, fresh keys
\* and MultiAddPubKeys encrypts under the sum of the shares of its parties.
PublicKeysJoint ==
    \A k \in pub : k.key.b \oplus (k.key.a \otimes Joint[k.who]) = Zero

\* A relinearisation key that the two rounds lead to switches from the square
\* of the coalition's secret to the secret, although no party ever had either.
RelinKeysJoint ==
    \A W \in Coalition : evalMult[W] # NoKey =>
        evalMult[W].b \oplus (evalMult[W].a \otimes Joint[W]) = Joint[W] \otimes Joint[W]

\* An automorphism key that the shares add up to switches from the coalition's
\* secret to its preimage under the automorphism.
AutoKeysJoint ==
    \A W \in Coalition, i \in Index : evalAuto[W][i] # NoKey =>
        evalAuto[W][i].b
            \oplus (evalAuto[W][i].a \otimes AutomorphismTransform(Joint[W], GInverse(i)))
        = Joint[W]

\* DecryptCore with the secret s.
Phase(cv, s) ==
    IF Len(cv) = 3
    THEN (cv[1] \oplus (cv[2] \otimes s)) \oplus (cv[3] \otimes (s \otimes s))
    ELSE cv[1] \oplus (cv[2] \otimes s)

\* Whatever was computed on a ciphertext under a joint key, relinearised or
\* not, it decrypts under the sum of the shares to the result on plaintexts.
CiphertextsRight == \A c \in cts : Phase(c.cv, Joint[c.who]) = c.m

\* The fusion of the partial decryptions of all parties of the coalition, one
\* of them made by MultipartyDecryptLead, is the plaintext, in whatever order
\* the partial decryptions are added.
FusionRight ==
    fusing # NoKey /\ fusing.by = fusing.ct.who /\ fusing.leads = 1 =>
        fusing.val = fusing.ct.m
=============================================================================
