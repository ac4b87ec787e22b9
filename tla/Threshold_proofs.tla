-------------------------- MODULE Threshold_proofs --------------------------
(***************************************************************************)
(* The invariant of Threshold, for every number of parties, every ring and *)
(* every choice of shares and samples: its preservation by the operations  *)
(* on keys, on ciphertexts, by partial decryptions and by their fusion,    *)
(* and the theorems that follow.                                           *)
(***************************************************************************)
EXTENDS Threshold, RLWE_proofs, SequenceTheorems

(***************************************************************************)
(* The inductive invariant: what the shares and partial sums that the      *)
(* parties publish on the way satisfy.                                     *)
(***************************************************************************)
RoundOneInv ==
    \A k \in round1 : k.key.a = EvalA /\ Switches(k.key, Joint[k.who], Joint[k.who])

RoundTwoInv ==
    \A k \in round2 : Switches(k.key, Joint[k.who] \otimes Joint[k.of], Joint[k.of])

AutoSharesInv ==
    \A k \in autoShares :
        /\ k.key.a = EvalA
        /\ Switches(k.key, Joint[k.who], AutomorphismTransform(Joint[k.who], GInverse(k.index)))

PartsInv ==
    \A q \in parts :
        /\ q.ct \in cts /\ Len(q.ct.cv) = 2 /\ q.by \in q.ct.who
        /\ q.val = IF q.lead THEN DecryptShareLead(q.ct.cv, Share[q.by])
                             ELSE DecryptShareMain(q.ct.cv, Share[q.by])

FusingInv ==
    fusing # NoKey =>
        /\ fusing.ct \in cts /\ Len(fusing.ct.cv) = 2
        /\ fusing.leads = 0 => fusing.val = fusing.ct.cv[2] \otimes Joint[fusing.by]
        /\ fusing.leads = 1 =>
               fusing.val = fusing.ct.cv[1] \oplus (fusing.ct.cv[2] \otimes Joint[fusing.by])

IInv ==
    /\ TypeOK /\ PublicKeysJoint /\ RoundOneInv /\ RoundTwoInv /\ AutoSharesInv
    /\ RelinKeysJoint /\ AutoKeysJoint /\ CiphertextsRight /\ PartsInv /\ FusingInv

-----------------------------------------------------------------------------
\* The secrets of coalitions.
LEMMA JointFacts ==
    /\ \A W \in Coalition : Joint[W] \in Element
    /\ \A p \in Party : Share[p] \in Element /\ {p} \in Coalition /\ Joint[{p}] = Share[p]
    /\ \A V, W \in Coalition :
           V \cup W \in Coalition /\ (V \cap W = {} => Joint[V \cup W] = Joint[V] \oplus Joint[W])
<1>1. \A W \in Coalition : Joint[W] \in Element
  BY PartyAssumption, Zenon DEF Coalition
<1>2. ASSUME NEW p \in Party PROVE Share[p] \in Element /\ {p} \in Coalition /\ Joint[{p}] = Share[p]
  <2>1. Share[p] \in Element /\ {p} \in Coalition
    <3>1. Share[p] \in Element
      BY PartyAssumption, Zenon
    <3>2. {p} \in SUBSET Party /\ {p} # {}
      BY Zenon
    <3>3. {p} \in Coalition
      BY <3>2, Zenon DEF Coalition
    <3>4. QED
      BY <3>1, <3>3, Zenon
  <2>2. {} \in SUBSET Party /\ p \in Party \ {} /\ {} \cup {p} = {p}
    BY Zenon
  <2>3. Joint[{} \cup {p}] = Joint[{}] \oplus Share[p]
    BY <2>2, PartyAssumption, Zenon
  <2>4. QED
    BY <2>1, <2>2, <2>3, PartyAssumption, ElementGroup, ZenonT(60)
<1>3. ASSUME NEW V \in Coalition, NEW W \in Coalition
      PROVE  V \cup W \in Coalition /\ (V \cap W = {} => Joint[V \cup W] = Joint[V] \oplus Joint[W])
  BY PartyAssumption, Zenon DEF Coalition
<1>4. QED
  BY <1>1, <1>2, <1>3, ZenonT(60)

\* The initial state satisfies the inductive invariant.
LEMMA InitIInv == Init => IInv
  BY DEF Init, IInv, TypeOK, PublicKeysJoint, RoundOneInv, RoundTwoInv, AutoSharesInv,
         RelinKeysJoint, AutoKeysJoint, CiphertextsRight, PartsInv, FusingInv

\* Publishing a key for the joint secret preserves the invariant.
LEMMA PublicKeyAdded ==
    ASSUME IInv, NEW key \in EvalKey, NEW W \in Coalition, Switches(key, Zero, Joint[W]),
           pub' = pub \cup {[key |-> key, who |-> W]},
           UNCHANGED <<round1, round2, autoShares, evalMult, evalAuto, cts, parts, fusing>>
    PROVE  IInv'
<1>1. TypeOK'
  BY DEF IInv, TypeOK
<1>2. PublicKeysJoint'
  BY DEF IInv, PublicKeysJoint, Switches
<1>3. QED
  BY <1>1, <1>2, ZenonT(60) DEF IInv, RoundOneInv, RoundTwoInv, AutoSharesInv,
         RelinKeysJoint, AutoKeysJoint, CiphertextsRight, PartsInv, FusingInv

\* KeyGen with the secret of a coalition.
LEMMA MadePublicKey ==
    ASSUME NEW W \in Coalition, NEW a \in Element
    PROVE  /\ KeyGenPublic(Joint[W], a) \in EvalKey
           /\ Switches(KeyGenPublic(Joint[W], a), Zero, Joint[W])
<1>1. Joint[W] \in Element
  BY JointFacts, Zenon
<1>2. Switches(KeyGenPublic(Joint[W], a), Zero, Joint[W])
  BY <1>1, KeyGenSwitches, Zenon
<1>3. KeyGenPublic(Joint[W], a) \in EvalKey
  BY <1>1, ElementClosed, ZenonT(60) DEF KeyGenPublic, EvalKey
<1>4. QED
  BY <1>2, <1>3, Zenon

\* Two keys with one a between secrets of disjoint coalitions add up.
LEMMA AddedKeys ==
    ASSUME NEW k1 \in EvalKey, NEW k2 \in EvalKey, k1.a = k2.a,
           NEW o1 \in Element, NEW o2 \in Element, NEW n1 \in Element, NEW n2 \in Element,
           Switches(k1, o1, n1), Switches(k2, o2, n2)
    PROVE  /\ [b |-> k1.b \oplus k2.b, a |-> k1.a] \in EvalKey
           /\ Switches([b |-> k1.b \oplus k2.b, a |-> k1.a], o1 \oplus o2, n1 \oplus n2)
<1> DEFINE k == [b |-> k1.b \oplus k2.b, a |-> k1.a]
<1>1. k1.a \in Element /\ k1.b \in Element /\ k2.b \in Element
  BY Zenon DEF EvalKey
<1>2. k1.b \oplus (k1.a \otimes n1) = o1 /\ k2.b \oplus (k1.a \otimes n2) = o2
  BY Zenon DEF Switches
<1>3. (k1.b \oplus k2.b) \oplus (k1.a \otimes (n1 \oplus n2)) = o1 \oplus o2
  <2>1. k1.a \otimes (n1 \oplus n2) = (k1.a \otimes n1) \oplus (k1.a \otimes n2)
    BY <1>1, ElementRing, SMTT(60)
  <2>2. k1.a \otimes n1 \in Element /\ k1.a \otimes n2 \in Element
    BY <1>1, ElementClosed, ZenonT(60)
  <2>3. QED
    BY <1>1, <1>2, <2>1, <2>2, Regroup, SMTT(60)
<1>4. k1.b \oplus k2.b \in Element
  BY <1>1, ElementClosed, ZenonT(60)
<1>5. k \in EvalKey /\ k.b = k1.b \oplus k2.b /\ k.a = k1.a
  BY <1>1, <1>4, ZenonT(60) DEF EvalKey
<1>6. QED
  BY <1>3, <1>5, ZenonT(60) DEF Switches

\* A step of the chain of MultipartyKeyGen adds a fresh key of the party.
LEMMA ChainedPublicKey ==
    ASSUME NEW pk \in EvalKey, NEW W \in Coalition, NEW p \in Party, p \notin W,
           Switches(pk, Zero, Joint[W])
    PROVE  /\ MultipartyKeyGenPublic(pk, Share[p], FALSE) \in EvalKey
           /\ Switches(MultipartyKeyGenPublic(pk, Share[p], FALSE), Zero, Joint[W \cup {p}])
<1> DEFINE f == KeyGenPublic(Share[p], pk.a)
<1>1. pk.a \in Element /\ Zero \in Element /\ Share[p] \in Element /\ Joint[W] \in Element
  BY JointFacts, ElementClosed, ZenonT(60) DEF EvalKey
<1>2. f \in EvalKey /\ Switches(f, Zero, Share[p])
  BY <1>1, KeyGenSwitches, ElementClosed, ZenonT(60) DEF KeyGenPublic, EvalKey
<1>3. f.a = pk.a /\ f.b = Negate(pk.a \otimes Share[p])
  BY Zenon DEF KeyGenPublic
<1> HIDE DEF f
<1>4. /\ [b |-> f.b \oplus pk.b, a |-> f.a] \in EvalKey
      /\ Switches([b |-> f.b \oplus pk.b, a |-> f.a], Zero \oplus Zero, Share[p] \oplus Joint[W])
  BY <1>1, <1>2, <1>3, AddedKeys, ZenonT(60)
<1>5. Zero \oplus Zero = Zero /\ Share[p] \oplus Joint[W] = Joint[W] \oplus Share[p]
  BY <1>1, ElementGroup, ZenonT(60)
<1>6. Joint[W \cup {p}] = Joint[W] \oplus Joint[{p}] /\ Joint[{p}] = Share[p]
  <2>1. W \cap {p} = {} /\ {p} \in Coalition
    BY JointFacts, ZenonT(60)
  <2>2. QED
    BY <2>1, JointFacts, ZenonT(60)
<1>7. MultipartyKeyGenPublic(pk, Share[p], FALSE) = [b |-> f.b \oplus pk.b, a |-> f.a]
  BY <1>3, ZenonT(60) DEF MultipartyKeyGenPublic
<1>8. QED
  BY <1>4, <1>5, <1>6, <1>7, ZenonT(60)

\* The steps that make public keys preserve the invariant.
LEMMA PublicKeyStepInv == IInv /\ PublicKeyStep => IInv'
<1> SUFFICES ASSUME IInv, PublicKeyStep PROVE IInv'
  BY Zenon
<1> USE DEF Key
<1>0. PubA \in Element /\ JointA \in Element /\ Lead \in Party
  BY SampleAssumption, PartyAssumption, ZenonT(60)
<1>1. CASE KeyGen
  <2>1. {Lead} \in Coalition /\ Joint[{Lead}] = Share[Lead]
    BY <1>0, JointFacts, ZenonT(60)
  <2>2. /\ KeyGenPublic(Share[Lead], PubA) \in EvalKey
        /\ Switches(KeyGenPublic(Share[Lead], PubA), Zero, Joint[{Lead}])
    BY <1>0, <2>1, MadePublicKey, ZenonT(60)
  <2>3. QED
    BY <1>1, <2>1, <2>2, PublicKeyAdded, ZenonT(60) DEF KeyGen
<1>2. ASSUME NEW p \in Party, NEW k \in pub, NEW fresh \in BOOLEAN, MultipartyKeyGen(p, k, fresh)
      PROVE  IInv'
  <2>1. k.key \in EvalKey /\ k.who \in Coalition /\ p \notin k.who
    BY <1>2, Zenon DEF IInv, TypeOK, MultipartyKeyGen
  <2>2. Switches(k.key, Zero, Joint[k.who])
    BY Zenon DEF IInv, PublicKeysJoint, Switches
  <2>3. {p} \in Coalition /\ k.who \cup {p} \in Coalition /\ Joint[{p}] = Share[p]
    BY <2>1, JointFacts, ZenonT(60)
  <2>4. CASE fresh = TRUE
    <3>1. k.key.a \in Element
      BY <2>1, Zenon DEF EvalKey
    <3>2. MultipartyKeyGenPublic(k.key, Share[p], TRUE) = KeyGenPublic(Share[p], k.key.a)
      BY Zenon DEF MultipartyKeyGenPublic, KeyGenPublic
    <3>3. /\ KeyGenPublic(Share[p], k.key.a) \in EvalKey
          /\ Switches(KeyGenPublic(Share[p], k.key.a), Zero, Joint[{p}])
      BY <2>3, <3>1, MadePublicKey, ZenonT(60)
    <3>4. QED
      BY <1>2, <2>3, <2>4, <3>2, <3>3, PublicKeyAdded, ZenonT(60) DEF MultipartyKeyGen
  <2>5. CASE fresh = FALSE
    <3>1. /\ MultipartyKeyGenPublic(k.key, Share[p], FALSE) \in EvalKey
          /\ Switches(MultipartyKeyGenPublic(k.key, Share[p], FALSE), Zero, Joint[k.who \cup {p}])
      BY <2>1, <2>2, ChainedPublicKey, ZenonT(60)
    <3>2. QED
      BY <1>2, <2>3, <2>5, <3>1, PublicKeyAdded, ZenonT(60) DEF MultipartyKeyGen
  <2>6. QED
    BY <2>4, <2>5, ZenonT(60)
<1>3. ASSUME NEW W \in Coalition, MultipartyKeyGenVec(W) PROVE IInv'
  <2>1. /\ KeyGenPublic(Joint[W], JointA) \in EvalKey
        /\ Switches(KeyGenPublic(Joint[W], JointA), Zero, Joint[W])
    BY <1>0, MadePublicKey, ZenonT(60)
  <2>2. QED
    BY <1>3, <2>1, PublicKeyAdded, ZenonT(60) DEF MultipartyKeyGenVec
<1>4. ASSUME NEW k1 \in pub, NEW k2 \in pub, AddPubKeys(k1, k2) PROVE IInv'
  <2>1. /\ k1.key \in EvalKey /\ k1.who \in Coalition /\ k2.key \in EvalKey /\ k2.who \in Coalition
        /\ k1.who \cap k2.who = {} /\ k1.key.a = k2.key.a
    BY <1>4, Zenon DEF IInv, TypeOK, AddPubKeys, Disjoint
  <2>2. Switches(k1.key, Zero, Joint[k1.who]) /\ Switches(k2.key, Zero, Joint[k2.who])
    BY Zenon DEF IInv, PublicKeysJoint, Switches
  <2>3. Joint[k1.who] \in Element /\ Joint[k2.who] \in Element /\ Zero \in Element
    BY <2>1, JointFacts, ElementClosed, ZenonT(60)
  <2>4. /\ MultiAddPubKeys(k1.key, k2.key) \in EvalKey
        /\ Switches(MultiAddPubKeys(k1.key, k2.key), Zero \oplus Zero, Joint[k1.who] \oplus Joint[k2.who])
    BY <2>1, <2>2, <2>3, AddedKeys, ZenonT(60) DEF MultiAddPubKeys
  <2>5. Zero \oplus Zero = Zero
    BY <2>3, ElementGroup, ZenonT(60)
  <2>6. k1.who \cup k2.who \in Coalition /\ Joint[k1.who \cup k2.who] = Joint[k1.who] \oplus Joint[k2.who]
    BY <2>1, JointFacts, Zenon
  <2>7. QED
    BY <1>4, <2>4, <2>5, <2>6, PublicKeyAdded, ZenonT(60) DEF AddPubKeys
<1>5. QED
  BY <1>1, <1>2, <1>3, <1>4, ZenonT(60) DEF PublicKeyStep

-----------------------------------------------------------------------------
\* A share of round one, and of an automorphism key, switches between secrets
\* of the party.
LEMMA MadeEvalKey ==
    ASSUME NEW old \in Element, NEW new \in Element
    PROVE  /\ KeySwitchGen(old, new, EvalA) \in EvalKey
           /\ KeySwitchGen(old, new, EvalA).a = EvalA
           /\ Switches(KeySwitchGen(old, new, EvalA), old, new)
<1>1. EvalA \in Element
  BY SampleAssumption, Zenon
<1>2. Switches(KeySwitchGen(old, new, EvalA), old, new)
  BY <1>1, KeySwitchGenSwitches, Zenon
<1>3. old \ominus (EvalA \otimes new) \in Element
  BY <1>1, ElementClosed, Zenon
<1>4. QED
  BY <1>1, <1>2, <1>3, ZenonT(60) DEF KeySwitchGen, EvalKey

\* Publishing a share or a sum of round one preserves the invariant.
LEMMA RoundOneAdded ==
    ASSUME IInv, NEW key \in EvalKey, NEW W \in Coalition, key.a = EvalA,
           Switches(key, Joint[W], Joint[W]),
           round1' = round1 \cup {[key |-> key, who |-> W]},
           UNCHANGED <<pub, round2, autoShares, evalMult, evalAuto, cts, parts, fusing>>
    PROVE  IInv'
<1>1. TypeOK'
  BY DEF IInv, TypeOK
<1>2. RoundOneInv'
  BY DEF IInv, RoundOneInv
<1>3. QED
  BY <1>1, <1>2, ZenonT(60) DEF IInv, PublicKeysJoint, RoundTwoInv, AutoSharesInv,
         RelinKeysJoint, AutoKeysJoint, CiphertextsRight, PartsInv, FusingInv

\* Publishing a product, or a sum of products, preserves the invariant.
LEMMA RoundTwoAdded ==
    ASSUME IInv, NEW key \in EvalKey, NEW W \in Coalition, NEW V \in Coalition,
           Switches(key, Joint[W] \otimes Joint[V], Joint[V]),
           round2' = round2 \cup {[key |-> key, who |-> W, of |-> V]},
           UNCHANGED <<pub, round1, autoShares, evalMult, evalAuto, cts, parts, fusing>>
    PROVE  IInv'
<1>1. TypeOK'
  BY DEF IInv, TypeOK
<1>2. RoundTwoInv'
  BY DEF IInv, RoundTwoInv
<1>3. QED
  BY <1>1, <1>2, ZenonT(60) DEF IInv, PublicKeysJoint, RoundOneInv, AutoSharesInv,
         RelinKeysJoint, AutoKeysJoint, CiphertextsRight, PartsInv, FusingInv

\* The share of a party multiplied into a key of round one.
LEMMA MultipliedKey ==
    ASSUME NEW k \in EvalKey, NEW o \in Element, NEW n \in Element, NEW s \in Element,
           Switches(k, o, n)
    PROVE  /\ MultiMultEvalKey(s, k) \in EvalKey
           /\ Switches(MultiMultEvalKey(s, k), s \otimes o, n)
<1>1. k.a \in Element /\ k.b \in Element /\ k.b \oplus (k.a \otimes n) = o
  BY Zenon DEF EvalKey, Switches
<1>2. (k.b \otimes s) \oplus ((k.a \otimes s) \otimes n) = o \otimes s
  BY <1>1, ProductSwitches, SMTT(60)
<1>3. k.b \otimes s \in Element /\ k.a \otimes s \in Element /\ o \otimes s = s \otimes o
  BY <1>1, ElementClosed, ElementRing, ZenonT(60)
<1>4. QED
  BY <1>2, <1>3, ZenonT(60) DEF MultiMultEvalKey, EvalKey, Switches

\* Products for one coalition add up.
LEMMA AddedMultKeys ==
    ASSUME NEW k1 \in EvalKey, NEW k2 \in EvalKey,
           NEW o1 \in Element, NEW o2 \in Element, NEW n \in Element,
           Switches(k1, o1, n), Switches(k2, o2, n)
    PROVE  /\ MultiAddEvalMultKeys(k1, k2) \in EvalKey
           /\ Switches(MultiAddEvalMultKeys(k1, k2), o1 \oplus o2, n)
<1>1. k1.a \in Element /\ k1.b \in Element /\ k2.a \in Element /\ k2.b \in Element
  BY Zenon DEF EvalKey
<1>2. k1.b \oplus (k1.a \otimes n) = o1 /\ k2.b \oplus (k2.a \otimes n) = o2
  BY Zenon DEF Switches
<1>3. (k1.a \oplus k2.a) \otimes n = (k1.a \otimes n) \oplus (k2.a \otimes n)
  BY <1>1, ElementRing, SMTT(60)
<1>4. k1.a \otimes n \in Element /\ k2.a \otimes n \in Element
  BY <1>1, ElementClosed, ZenonT(60)
<1>5. (k1.b \oplus k2.b) \oplus ((k1.a \oplus k2.a) \otimes n) = o1 \oplus o2
  BY <1>1, <1>2, <1>3, <1>4, Regroup, SMTT(60)
<1>6. k1.b \oplus k2.b \in Element /\ k1.a \oplus k2.a \in Element
  BY <1>1, ElementClosed, ZenonT(60)
<1>7. QED
  BY <1>5, <1>6, Zenon DEF MultiAddEvalMultKeys, EvalKey, Switches

\* The steps that make relinearisation keys preserve the invariant.
LEMMA MultKeyStepInv == IInv /\ MultKeyStep => IInv'
<1> SUFFICES ASSUME IInv, MultKeyStep PROVE IInv'
  BY Zenon
<1> USE DEF Key
<1>0. Lead \in Party
  BY PartyAssumption, Zenon
<1>1. CASE RoundOneLead
  <2>1. {Lead} \in Coalition /\ Joint[{Lead}] = Share[Lead] /\ Share[Lead] \in Element
    BY <1>0, JointFacts, ZenonT(60)
  <2> DEFINE key == KeySwitchGen(Share[Lead], Share[Lead], EvalA)
  <2>2. key \in EvalKey /\ key.a = EvalA /\ Switches(key, Joint[{Lead}], Joint[{Lead}])
    BY <2>1, MadeEvalKey, ZenonT(60)
  <2>3. round1' = round1 \cup {[key |-> key, who |-> {Lead}]}
    BY <1>1, Zenon DEF RoundOneLead
  <2> HIDE DEF key
  <2>4. QED
    BY <1>1, <2>1, <2>2, <2>3, RoundOneAdded, ZenonT(60) DEF RoundOneLead
<1>2. ASSUME NEW p \in Party, NEW k \in round1, RoundOneShare(p, k) PROVE IInv'
  <2>1. {p} \in Coalition /\ Joint[{p}] = Share[p] /\ Share[p] \in Element
    BY JointFacts, Zenon
  <2>2. k.key.a = EvalA
    BY Zenon DEF IInv, RoundOneInv
  <2> DEFINE key == KeySwitchGen(Share[p], Share[p], EvalA)
  <2>3. key \in EvalKey /\ key.a = EvalA /\ Switches(key, Joint[{p}], Joint[{p}])
    BY <2>1, MadeEvalKey, ZenonT(60)
  <2>4. round1' = round1 \cup {[key |-> key, who |-> {p}]}
    BY <1>2, <2>2, ZenonT(60) DEF RoundOneShare, MultiKeySwitchGen
  <2> HIDE DEF key
  <2>5. QED
    BY <1>2, <2>1, <2>3, <2>4, RoundOneAdded, ZenonT(60) DEF RoundOneShare
<1>3. ASSUME NEW k1 \in round1, NEW k2 \in round1, AddEvalKeys(k1, k2) PROVE IInv'
  <2>1. /\ k1.key \in EvalKey /\ k1.who \in Coalition /\ k2.key \in EvalKey /\ k2.who \in Coalition
        /\ k1.who \cap k2.who = {}
    BY <1>3, Zenon DEF IInv, TypeOK, AddEvalKeys, Disjoint
  <2>2. /\ k1.key.a = EvalA /\ Switches(k1.key, Joint[k1.who], Joint[k1.who])
        /\ k2.key.a = EvalA /\ Switches(k2.key, Joint[k2.who], Joint[k2.who])
    BY Zenon DEF IInv, RoundOneInv
  <2>3. Joint[k1.who] \in Element /\ Joint[k2.who] \in Element
    BY <2>1, JointFacts, Zenon
  <2> DEFINE J == Joint[k1.who] \oplus Joint[k2.who]
             key == MultiAddEvalKeys(k1.key, k2.key)
  <2>4. key \in EvalKey /\ Switches(key, J, J)
    BY <2>1, <2>2, <2>3, AddedKeys, ZenonT(60) DEF MultiAddEvalKeys
  <2>5. key.a = EvalA
    BY <2>2, Zenon DEF MultiAddEvalKeys
  <2>6. k1.who \cup k2.who \in Coalition /\ Joint[k1.who \cup k2.who] = J
    BY <2>1, JointFacts, Zenon
  <2>7. round1' = round1 \cup {[key |-> key, who |-> k1.who \cup k2.who]}
    BY <1>3, Zenon DEF AddEvalKeys
  <2> HIDE DEF J, key
  <2>8. QED
    BY <1>3, <2>4, <2>5, <2>6, <2>7, RoundOneAdded, ZenonT(60) DEF AddEvalKeys
<1>4. ASSUME NEW p \in Party, NEW k \in round1, RoundTwoShare(p, k) PROVE IInv'
  <2>1. {p} \in Coalition /\ Joint[{p}] = Share[p] /\ Share[p] \in Element
    BY JointFacts, Zenon
  <2>2. k.key \in EvalKey /\ k.who \in Coalition /\ Switches(k.key, Joint[k.who], Joint[k.who])
    BY Zenon DEF IInv, TypeOK, RoundOneInv
  <2>3. Joint[k.who] \in Element
    BY <2>2, JointFacts, ZenonT(60)
  <2> DEFINE key == MultiMultEvalKey(Share[p], k.key)
  <2>4. key \in EvalKey /\ Switches(key, Joint[{p}] \otimes Joint[k.who], Joint[k.who])
    BY <2>1, <2>2, <2>3, MultipliedKey, ZenonT(60)
  <2>5. round2' = round2 \cup {[key |-> key, who |-> {p}, of |-> k.who]}
    BY <1>4, ZenonT(60) DEF RoundTwoShare
  <2> HIDE DEF key
  <2>6. QED
    BY <1>4, <2>1, <2>2, <2>4, <2>5, RoundTwoAdded, ZenonT(60) DEF RoundTwoShare
<1>5. ASSUME NEW k1 \in round2, NEW k2 \in round2, AddEvalMultKeys(k1, k2) PROVE IInv'
  <2>1. /\ k1.key \in EvalKey /\ k1.who \in Coalition /\ k2.key \in EvalKey /\ k2.who \in Coalition
        /\ k1.of \in Coalition /\ k1.who \cap k2.who = {} /\ k2.of = k1.of
    BY <1>5, Zenon DEF IInv, TypeOK, AddEvalMultKeys, Disjoint
  <2>2. /\ Switches(k1.key, Joint[k1.who] \otimes Joint[k1.of], Joint[k1.of])
        /\ Switches(k2.key, Joint[k2.who] \otimes Joint[k1.of], Joint[k1.of])
    BY <2>1, Zenon DEF IInv, RoundTwoInv
  <2>3. Joint[k1.who] \in Element /\ Joint[k2.who] \in Element /\ Joint[k1.of] \in Element
    BY <2>1, JointFacts, Zenon
  <2>4. Joint[k1.who] \otimes Joint[k1.of] \in Element /\ Joint[k2.who] \otimes Joint[k1.of] \in Element
    BY <2>3, ElementClosed, ZenonT(60)
  <2> DEFINE key == MultiAddEvalMultKeys(k1.key, k2.key)
  <2>5. key \in EvalKey /\ Switches(key, (Joint[k1.who] \otimes Joint[k1.of])
                                          \oplus (Joint[k2.who] \otimes Joint[k1.of]), Joint[k1.of])
    BY <2>1, <2>2, <2>3, <2>4, AddedMultKeys, ZenonT(60)
  <2>6. (Joint[k1.who] \otimes Joint[k1.of]) \oplus (Joint[k2.who] \otimes Joint[k1.of])
            = (Joint[k1.who] \oplus Joint[k2.who]) \otimes Joint[k1.of]
    BY <2>3, ElementRing, SMTT(60)
  <2>7. k1.who \cup k2.who \in Coalition /\ Joint[k1.who \cup k2.who] = Joint[k1.who] \oplus Joint[k2.who]
    BY <2>1, JointFacts, ZenonT(60)
  <2>8. Switches(key, Joint[k1.who \cup k2.who] \otimes Joint[k1.of], Joint[k1.of])
    BY <2>5, <2>6, <2>7, ZenonT(60)
  <2>9. round2' = round2 \cup {[key |-> key, who |-> k1.who \cup k2.who, of |-> k1.of]}
    BY <1>5, Zenon DEF AddEvalMultKeys
  <2> HIDE DEF key
  <2>10. QED
    BY <1>5, <2>1, <2>5, <2>7, <2>8, <2>9, RoundTwoAdded, ZenonT(60) DEF AddEvalMultKeys
<1>6. ASSUME NEW k \in round2, InsertEvalMultKey(k) PROVE IInv'
  <2>1. k.key \in EvalKey /\ k.who \in Coalition /\ k.of = k.who
    BY <1>6, Zenon DEF IInv, TypeOK, InsertEvalMultKey
  <2>2. k.key.b \oplus (k.key.a \otimes Joint[k.who]) = Joint[k.who] \otimes Joint[k.who]
    BY <2>1, Zenon DEF IInv, RoundTwoInv, Switches
  <2>3. evalMult \in [Coalition -> EvalKey \cup {NoKey}] /\ evalMult' = [evalMult EXCEPT ![k.who] = k.key]
    BY <1>6, Zenon DEF IInv, TypeOK, InsertEvalMultKey
  <2>4. TypeOK'
    BY <1>6, <2>1, <2>3, ZenonT(60) DEF IInv, TypeOK, InsertEvalMultKey
  <2>5. RelinKeysJoint'
    BY <2>1, <2>2, <2>3, ZenonT(60) DEF IInv, RelinKeysJoint
  <2>6. QED
    BY <1>6, <2>4, <2>5, ZenonT(60)
       DEF InsertEvalMultKey, IInv, PublicKeysJoint, RoundOneInv, RoundTwoInv,
         AutoSharesInv, AutoKeysJoint, CiphertextsRight, PartsInv, FusingInv
<1>7. QED
  BY <1>1, <1>2, <1>3, <1>4, <1>5, <1>6, ZenonT(60) DEF MultKeyStep

-----------------------------------------------------------------------------
\* Publishing a share or a sum of an automorphism key preserves the invariant.
LEMMA AutoShareAdded ==
    ASSUME IInv, NEW key \in EvalKey, NEW W \in Coalition, NEW i \in Index, key.a = EvalA,
           Switches(key, Joint[W], AutomorphismTransform(Joint[W], GInverse(i))),
           autoShares' = autoShares \cup {[key |-> key, who |-> W, index |-> i]},
           UNCHANGED <<pub, round1, round2, evalMult, evalAuto, cts, parts, fusing>>
    PROVE  IInv'
<1>1. TypeOK'
  BY DEF IInv, TypeOK
<1>2. AutoSharesInv'
  BY DEF IInv, AutoSharesInv
<1>3. QED
  BY <1>1, <1>2, ZenonT(60) DEF IInv, PublicKeysJoint, RoundOneInv, RoundTwoInv,
         RelinKeysJoint, AutoKeysJoint, CiphertextsRight, PartsInv, FusingInv

\* The image of a secret under the inverse of an index.
LEMMA PermutedSecret ==
    ASSUME NEW s \in Element, NEW i \in Index
    PROVE  i \in Galois /\ GInverse(i) \in Galois /\ AutomorphismTransform(s, GInverse(i)) \in Element
<1>1. i \in Galois
  BY SampleAssumption, Zenon
<1>2. GInverse(i) \in Galois
  BY <1>1, GaloisAssumption, ZenonT(60)
<1>3. QED
  BY <1>1, <1>2, ElementClosed, ZenonT(60)

\* The steps that make automorphism keys preserve the invariant.
LEMMA AutoKeyStepInv == IInv /\ AutoKeyStep => IInv'
<1> SUFFICES ASSUME IInv, AutoKeyStep PROVE IInv'
  BY Zenon
<1> USE DEF AutoKey
<1>0. Lead \in Party
  BY PartyAssumption, Zenon
<1>1. ASSUME NEW i \in Index, AutoLead(i) PROVE IInv'
  <2>1. {Lead} \in Coalition /\ Joint[{Lead}] = Share[Lead] /\ Share[Lead] \in Element
    BY <1>0, JointFacts, ZenonT(60)
  <2> DEFINE n == AutomorphismTransform(Share[Lead], GInverse(i))
             key == KeySwitchGen(Share[Lead], n, EvalA)
  <2>2. n \in Element
    BY <2>1, PermutedSecret, ZenonT(60)
  <2> HIDE DEF n
  <2>3. key \in EvalKey /\ key.a = EvalA /\ Switches(key, Share[Lead], n)
    BY <2>1, <2>2, MadeEvalKey, ZenonT(60)
  <2> HIDE DEF key
  <2>4. Switches(key, Joint[{Lead}], AutomorphismTransform(Joint[{Lead}], GInverse(i)))
    BY <2>1, <2>3, ZenonT(60) DEF n
  <2>5. autoShares' = autoShares \cup {[key |-> key, who |-> {Lead}, index |-> i]}
    BY <1>1, Zenon DEF AutoLead, EvalAutomorphismKeyGen, key, n
  <2>6. QED
    BY <1>1, <2>1, <2>3, <2>4, <2>5, AutoShareAdded, ZenonT(60) DEF AutoLead
<1>2. ASSUME NEW p \in Party, NEW k \in autoShares, AutoShare(p, k) PROVE IInv'
  <2>1. {p} \in Coalition /\ Joint[{p}] = Share[p] /\ Share[p] \in Element
    BY JointFacts, Zenon
  <2>2. k.key.a = EvalA /\ k.index \in Index
    BY Zenon DEF IInv, TypeOK, AutoSharesInv
  <2> DEFINE n == AutomorphismTransform(Share[p], GInverse(k.index))
             key == KeySwitchGen(Share[p], n, EvalA)
  <2>3. n \in Element
    BY <2>1, <2>2, PermutedSecret, ZenonT(60)
  <2> HIDE DEF n
  <2>4. key \in EvalKey /\ key.a = EvalA /\ Switches(key, Share[p], n)
    BY <2>1, <2>3, MadeEvalKey, ZenonT(60)
  <2> HIDE DEF key
  <2>5. Switches(key, Joint[{p}], AutomorphismTransform(Joint[{p}], GInverse(k.index)))
    BY <2>1, <2>4, ZenonT(60) DEF n
  <2>6. autoShares' = autoShares \cup {[key |-> key, who |-> {p}, index |-> k.index]}
    BY <1>2, <2>2, ZenonT(60) DEF AutoShare, MultiEvalAutomorphismKeyGen, MultiKeySwitchGen, key, n
  <2>7. QED
    BY <1>2, <2>1, <2>2, <2>4, <2>5, <2>6, AutoShareAdded, ZenonT(60) DEF AutoShare
<1>3. ASSUME NEW k1 \in autoShares, NEW k2 \in autoShares, AddAutoKeys(k1, k2) PROVE IInv'
  <2>1. /\ k1.key \in EvalKey /\ k1.who \in Coalition /\ k2.key \in EvalKey /\ k2.who \in Coalition
        /\ k1.who \cap k2.who = {} /\ k1.index \in Index /\ k2.index = k1.index
    BY <1>3, Zenon DEF IInv, TypeOK, AddAutoKeys, Disjoint
  <2> DEFINE g == GInverse(k1.index)
             J1 == Joint[k1.who]
             J2 == Joint[k2.who]
             n1 == AutomorphismTransform(J1, g)
             n2 == AutomorphismTransform(J2, g)
             key == MultiAddEvalKeys(k1.key, k2.key)
  <2>2. k1.key.a = EvalA /\ Switches(k1.key, J1, n1) /\ k2.key.a = EvalA /\ Switches(k2.key, J2, n2)
    BY <2>1, Zenon DEF IInv, AutoSharesInv
  <2>3. J1 \in Element /\ J2 \in Element
    BY <2>1, JointFacts, ZenonT(60)
  <2>4. g \in Galois /\ n1 \in Element /\ n2 \in Element
    BY <2>1, <2>3, PermutedSecret, ZenonT(60)
  <2>5. AutomorphismTransform(J1 \oplus J2, g) = n1 \oplus n2
    BY <2>3, <2>4, AutomorphismHom, SMTT(60)
  <2>6. k1.who \cup k2.who \in Coalition /\ Joint[k1.who \cup k2.who] = J1 \oplus J2
    BY <2>1, JointFacts, ZenonT(60)
  <2> HIDE DEF n1, n2, J1, J2, g
  <2>7. key \in EvalKey /\ Switches(key, J1 \oplus J2, n1 \oplus n2)
    BY <2>1, <2>2, <2>3, <2>4, AddedKeys, ZenonT(60) DEF MultiAddEvalKeys
  <2>8. key.a = EvalA
    BY <2>2, Zenon DEF MultiAddEvalKeys
  <2> HIDE DEF key
  <2>9. Switches(key, Joint[k1.who \cup k2.who],
                 AutomorphismTransform(Joint[k1.who \cup k2.who], GInverse(k1.index)))
    BY <2>5, <2>6, <2>7, ZenonT(60) DEF g
  <2>10. autoShares' = autoShares \cup {[key |-> key, who |-> k1.who \cup k2.who, index |-> k1.index]}
    BY <1>3, Zenon DEF AddAutoKeys, key
  <2>11. QED
    BY <1>3, <2>1, <2>6, <2>7, <2>8, <2>9, <2>10, AutoShareAdded, ZenonT(60) DEF AddAutoKeys
<1>4. ASSUME NEW k \in autoShares, InsertAutoKey(k) PROVE IInv'
  <2>1. k.key \in EvalKey /\ k.who \in Coalition /\ k.index \in Index
    BY Zenon DEF IInv, TypeOK
  <2>2. k.key.b \oplus (k.key.a \otimes AutomorphismTransform(Joint[k.who], GInverse(k.index)))
            = Joint[k.who]
    BY Zenon DEF IInv, AutoSharesInv, Switches
  <2>3. /\ evalAuto \in [Coalition -> [Index -> EvalKey \cup {NoKey}]]
        /\ evalAuto' = [evalAuto EXCEPT ![k.who] = [i \in Index |-> IF i = k.index THEN k.key ELSE NoKey]]
    BY <1>4, Zenon DEF IInv, TypeOK, InsertAutoKey
  <2>4. /\ evalAuto' \in [Coalition -> [Index -> EvalKey \cup {NoKey}]]
        /\ evalAuto'[k.who][k.index] = k.key
        /\ \A W \in Coalition, i \in Index :
               ~(W = k.who /\ i = k.index) => evalAuto'[W][i] \in {evalAuto[W][i], NoKey}
    BY <2>1, <2>3, ZenonT(60)
  <2>5. TypeOK'
    BY <1>4, <2>4, ZenonT(60) DEF IInv, TypeOK, InsertAutoKey
  <2>6. AutoKeysJoint'
    <3> SUFFICES ASSUME NEW W \in Coalition, NEW i \in Index, evalAuto'[W][i] # NoKey
                 PROVE  evalAuto'[W][i].b
                            \oplus (evalAuto'[W][i].a \otimes AutomorphismTransform(Joint[W], GInverse(i)))
                        = Joint[W]
      BY Zenon DEF AutoKeysJoint
    <3>1. CASE W = k.who /\ i = k.index
      BY <2>2, <2>4, <3>1, ZenonT(60)
    <3>2. CASE ~(W = k.who /\ i = k.index)
      <4>1. evalAuto'[W][i] = evalAuto[W][i]
        BY <2>4, <3>2, ZenonT(60)
      <4>2. QED
        BY <4>1, ZenonT(60) DEF IInv, AutoKeysJoint
    <3>3. QED
      BY <3>1, <3>2, ZenonT(60)
  <2>7. QED
    BY <1>4, <2>5, <2>6, ZenonT(60)
       DEF InsertAutoKey, IInv, PublicKeysJoint, RoundOneInv, RoundTwoInv,
         AutoSharesInv, RelinKeysJoint, CiphertextsRight, PartsInv, FusingInv
<1>5. QED
  BY <1>1, <1>2, <1>3, <1>4, ZenonT(60) DEF AutoKeyStep

(***************************************************************************)
(* Operations on ciphertexts.                                              *)
(***************************************************************************)
\* What is known of a ciphertext of the state.
LEMMA CtFacts ==
    ASSUME IInv, NEW c \in cts
    PROVE  /\ c.cv \in Seq(Element) /\ Len(c.cv) \in {2, 3} /\ c.who \in Coalition
           /\ c.m \in Element /\ Joint[c.who] \in Element
           /\ c.cv[1] \in Element /\ c.cv[2] \in Element
           /\ Len(c.cv) = 3 => c.cv[3] \in Element
           /\ Len(c.cv) = 2 => c.cv[1] \oplus (c.cv[2] \otimes Joint[c.who]) = c.m
           /\ Len(c.cv) = 3 => (c.cv[1] \oplus (c.cv[2] \otimes Joint[c.who]))
                                   \oplus (c.cv[3] \otimes (Joint[c.who] \otimes Joint[c.who])) = c.m
<1>1. c.cv \in Seq(Element) /\ Len(c.cv) \in {2, 3} /\ c.who \in Coalition /\ c.m \in Element
  BY Zenon DEF IInv, TypeOK, Ct
<1>2. Joint[c.who] \in Element
  BY <1>1, JointFacts, ZenonT(60)
<1>3. \A n \in 1..Len(c.cv) : c.cv[n] \in Element
  BY <1>1, ElementOfSeq, ZenonT(60)
<1>4. c.cv[1] \in Element /\ c.cv[2] \in Element /\ (Len(c.cv) = 3 => c.cv[3] \in Element)
  BY <1>1, <1>3, SMTT(60)
<1>5. Phase(c.cv, Joint[c.who]) = c.m
  BY Zenon DEF IInv, CiphertextsRight
<1>6. QED
  BY <1>1, <1>2, <1>4, <1>5, SMTT(60) DEF Phase

\* Making a ciphertext that decrypts to its plaintext preserves the invariant.
LEMMA CtAdded ==
    ASSUME IInv, NEW cv \in Seq(Element), Len(cv) \in {2, 3}, NEW W \in Coalition,
           NEW m \in Element, Phase(cv, Joint[W]) = m, MakeCt(cv, W, m)
    PROVE  IInv'
<1> DEFINE c == [cv |-> cv, who |-> W, m |-> m]
<1>1. c \in Ct /\ c.cv = cv /\ c.who = W /\ c.m = m
  BY Zenon DEF Ct
<1>2. cts' = cts \cup {c}
  BY Zenon DEF MakeCt
<1>3. UNCHANGED <<pub, round1, round2, autoShares, evalMult, evalAuto, parts, fusing>>
  BY Zenon DEF MakeCt
<1> HIDE DEF c
<1>4. TypeOK'
  BY <1>1, <1>2, <1>3, ZenonT(60) DEF IInv, TypeOK
<1>5. CiphertextsRight'
  BY <1>1, <1>2, ZenonT(60) DEF IInv, CiphertextsRight
<1>6. PartsInv'
  BY <1>2, <1>3, ZenonT(60) DEF IInv, PartsInv
<1>7. FusingInv'
  BY <1>2, <1>3, ZenonT(60) DEF IInv, FusingInv
<1>8. QED
  BY <1>3, <1>4, <1>5, <1>6, <1>7, ZenonT(60) DEF IInv, PublicKeysJoint, RoundOneInv, RoundTwoInv,
         AutoSharesInv, RelinKeysJoint, AutoKeysJoint

\* The same for two elements.
LEMMA PairAdded ==
    ASSUME IInv, NEW x \in Element, NEW y \in Element, NEW W \in Coalition,
           NEW m \in Element, x \oplus (y \otimes Joint[W]) = m, MakeCt(<<x, y>>, W, m)
    PROVE  IInv'
<1>1. /\ <<x, y>> \in Seq(Element) /\ Len(<<x, y>>) = 2
      /\ <<x, y>>[1] = x /\ <<x, y>>[2] = y
  BY SMTT(60)
<1>2. Phase(<<x, y>>, Joint[W]) = m
  BY <1>1, SMTT(60) DEF Phase
<1>3. QED
  BY <1>1, <1>2, CtAdded, ZenonT(60)

\* The sum of two ciphertexts has as many elements as the longer one.
LEMMA SumShape ==
    ASSUME NEW cv1 \in Seq(Element), NEW cv2 \in Seq(Element),
           Len(cv1) \in {2, 3}, Len(cv2) \in {2, 3}
    PROVE  LET r == EvalAddCore(cv1, cv2)
           IN  /\ r \in Seq(Element) /\ Len(r) = LongerLen(cv1, cv2) /\ Len(r) \in {2, 3}
               /\ r[1] = cv1[1] \oplus cv2[1] /\ r[2] = cv1[2] \oplus cv2[2]
               /\ Len(cv1) = 2 /\ Len(cv2) = 3 => r[3] = cv2[3]
               /\ Len(cv1) = 3 /\ Len(cv2) = 2 => r[3] = cv1[3]
               /\ Len(cv1) = 3 /\ Len(cv2) = 3 => r[3] = cv1[3] \oplus cv2[3]
<1> DEFINE L == LongerLen(cv1, cv2)
           r == EvalAddCore(cv1, cv2)
<1>1. L \in {2, 3} /\ L \in Nat
  BY DEF LongerLen
<1>2. /\ \A n \in 1..Len(cv1) : cv1[n] \in Element
      /\ \A n \in 1..Len(cv2) : cv2[n] \in Element
  BY ElementOfSeq, ZenonT(60)
<1>3. ASSUME NEW n \in 1..L PROVE r[n] \in Element
  <2>1. n \in 1..Len(cv1) \/ n \in 1..Len(cv2)
    BY <1>1, ZenonT(60) DEF LongerLen
  <2>2. r[n] = IF n > Len(cv2) THEN cv1[n] ELSE IF n > Len(cv1) THEN cv2[n] ELSE cv1[n] \oplus cv2[n]
    BY Zenon DEF EvalAddCore
  <2>3. n <= Len(cv1) => cv1[n] \in Element
    BY <1>1, <1>2, SMTT(60)
  <2>4. n <= Len(cv2) => cv2[n] \in Element
    BY <1>1, <1>2, SMTT(60)
  <2>5. QED
    BY <1>1, <2>1, <2>2, <2>3, <2>4, ElementClosed, SMTT(60)
<1>4. r \in [1..L -> Element]
  BY <1>3, Zenon DEF EvalAddCore
<1>5. r \in Seq(Element)
  BY <1>1, <1>4, SeqDef, SMTT(60)
<1>6. Len(r) = L
  <2>1. DOMAIN r = 1..L /\ DOMAIN r = 1..Len(r) /\ Len(r) \in Nat
    BY <1>4, <1>5, LenProperties, ZenonT(60)
  <2>2. QED
    BY <1>1, <2>1, SMTT(60)
<1>7. /\ r[1] = cv1[1] \oplus cv2[1] /\ r[2] = cv1[2] \oplus cv2[2]
      /\ Len(cv1) = 2 /\ Len(cv2) = 3 => r[3] = cv2[3]
      /\ Len(cv1) = 3 /\ Len(cv2) = 2 => r[3] = cv1[3]
      /\ Len(cv1) = 3 /\ Len(cv2) = 3 => r[3] = cv1[3] \oplus cv2[3]
  BY SMTT(60) DEF EvalAddCore, LongerLen
<1>8. QED
  BY <1>1, <1>5, <1>6, <1>7, ZenonT(60)

\* The sum of two ciphertexts of any lengths decrypts to the sum.
LEMMA SumPhase ==
    ASSUME NEW cv1 \in Seq(Element), NEW cv2 \in Seq(Element),
           Len(cv1) \in {2, 3}, Len(cv2) \in {2, 3}, NEW s \in Element
    PROVE  Phase(EvalAddCore(cv1, cv2), s) = Phase(cv1, s) \oplus Phase(cv2, s)
<1> DEFINE r == EvalAddCore(cv1, cv2)
           ss == s \otimes s
           p1 == cv1[1] \oplus (cv1[2] \otimes s)
           p2 == cv2[1] \oplus (cv2[2] \otimes s)
<1>1. /\ Len(r) = LongerLen(cv1, cv2)
      /\ r[1] = cv1[1] \oplus cv2[1] /\ r[2] = cv1[2] \oplus cv2[2]
      /\ Len(cv1) = 2 /\ Len(cv2) = 3 => r[3] = cv2[3]
      /\ Len(cv1) = 3 /\ Len(cv2) = 2 => r[3] = cv1[3]
      /\ Len(cv1) = 3 /\ Len(cv2) = 3 => r[3] = cv1[3] \oplus cv2[3]
  BY SumShape, Zenon
<1>2. /\ cv1[1] \in Element /\ cv1[2] \in Element /\ cv2[1] \in Element /\ cv2[2] \in Element
      /\ Len(cv1) = 3 => cv1[3] \in Element
      /\ Len(cv2) = 3 => cv2[3] \in Element
  BY ElementOfSeq, SMTT(60)
<1>3. ss \in Element /\ p1 \in Element /\ p2 \in Element
  BY <1>2, ElementClosed, ZenonT(60)
<1>4. (cv1[1] \oplus cv2[1]) \oplus ((cv1[2] \oplus cv2[2]) \otimes s) = p1 \oplus p2
  <2>1. (cv1[2] \oplus cv2[2]) \otimes s = (cv1[2] \otimes s) \oplus (cv2[2] \otimes s)
    BY <1>2, ElementRing, SMTT(60)
  <2>2. cv1[2] \otimes s \in Element /\ cv2[2] \otimes s \in Element
    BY <1>2, ElementClosed, ZenonT(60)
  <2>3. QED
    BY <1>2, <2>1, <2>2, Regroup, SMTT(60)
<1>5. r[1] \oplus (r[2] \otimes s) = p1 \oplus p2
  BY <1>1, <1>4, ZenonT(60)
<1>6. /\ Phase(r, s) = IF Len(r) = 3 THEN (r[1] \oplus (r[2] \otimes s)) \oplus (r[3] \otimes ss)
                                     ELSE r[1] \oplus (r[2] \otimes s)
      /\ Phase(cv1, s) = IF Len(cv1) = 3 THEN p1 \oplus (cv1[3] \otimes ss) ELSE p1
      /\ Phase(cv2, s) = IF Len(cv2) = 3 THEN p2 \oplus (cv2[3] \otimes ss) ELSE p2
  BY ZenonT(60) DEF Phase
<1> HIDE DEF r, ss, p1, p2
<1>7. CASE Len(cv1) = 2 /\ Len(cv2) = 2
  <2>1. Phase(r, s) = p1 \oplus p2
    BY <1>1, <1>5, <1>6, <1>7, SMTT(60) DEF LongerLen
  <2>2. QED
    BY <1>6, <1>7, <2>1, SMTT(60) DEF r
<1>8. CASE Len(cv1) = 2 /\ Len(cv2) = 3
  <2>1. Phase(r, s) = (p1 \oplus p2) \oplus (cv2[3] \otimes ss)
    BY <1>1, <1>5, <1>6, <1>8, SMTT(60) DEF LongerLen
  <2>2. cv2[3] \otimes ss \in Element
    BY <1>2, <1>3, <1>8, ElementClosed, ZenonT(60)
  <2>3. (p1 \oplus p2) \oplus (cv2[3] \otimes ss) = p1 \oplus (p2 \oplus (cv2[3] \otimes ss))
    BY <1>3, <2>2, ElementGroup, SMTT(60)
  <2>4. QED
    BY <1>6, <1>8, <2>1, <2>3, SMTT(60) DEF r
<1>9. CASE Len(cv1) = 3 /\ Len(cv2) = 2
  <2>1. Phase(r, s) = (p1 \oplus p2) \oplus (cv1[3] \otimes ss)
    BY <1>1, <1>5, <1>6, <1>9, SMTT(60) DEF LongerLen
  <2>2. cv1[3] \otimes ss \in Element
    BY <1>2, <1>3, <1>9, ElementClosed, ZenonT(60)
  <2>3. (p1 \oplus p2) \oplus (cv1[3] \otimes ss) = (p1 \oplus (cv1[3] \otimes ss)) \oplus p2
    BY <1>3, <2>2, ElementGroup, SMTT(60)
  <2>4. QED
    BY <1>6, <1>9, <2>1, <2>3, SMTT(60) DEF r
<1>10. CASE Len(cv1) = 3 /\ Len(cv2) = 3
  <2>1. Phase(r, s) = (p1 \oplus p2) \oplus ((cv1[3] \oplus cv2[3]) \otimes ss)
    BY <1>1, <1>5, <1>6, <1>10, ZenonT(60) DEF LongerLen
  <2>2. cv1[3] \otimes ss \in Element /\ cv2[3] \otimes ss \in Element
    BY <1>2, <1>3, <1>10, ElementClosed, ZenonT(60)
  <2>3. (cv1[3] \oplus cv2[3]) \otimes ss = (cv1[3] \otimes ss) \oplus (cv2[3] \otimes ss)
    BY <1>2, <1>3, <1>10, ElementRing, SMTT(60)
  <2>4. (p1 \oplus p2) \oplus ((cv1[3] \otimes ss) \oplus (cv2[3] \otimes ss))
            = (p1 \oplus (cv1[3] \otimes ss)) \oplus (p2 \oplus (cv2[3] \otimes ss))
    BY <1>3, <2>2, Regroup, SMTT(60)
  <2>5. QED
    BY <1>6, <1>10, <2>1, <2>3, <2>4, ZenonT(60) DEF r
<1>11. QED
  BY <1>7, <1>8, <1>9, <1>10, Zenon DEF r

\* The ciphertext operations preserve the invariant.
LEMMA CiphertextStepInv == IInv /\ CiphertextStep => IInv'
<1> SUFFICES ASSUME IInv, CiphertextStep PROVE IInv'
  BY Zenon
<1>1. ASSUME NEW k \in pub, NEW m \in Message, NEW v \in Blind, Encrypt(k, m, v) PROVE IInv'
  <2>1. k.key.a \in Element /\ k.key.b \in Element /\ k.who \in Coalition
    BY Zenon DEF IInv, TypeOK, EvalKey
  <2>2. m \in Element /\ v \in Element /\ Joint[k.who] \in Element
    BY <2>1, SampleAssumption, JointFacts, ZenonT(60)
  <2>3. k.key.b \oplus (k.key.a \otimes Joint[k.who]) = Zero
    BY Zenon DEF IInv, PublicKeysJoint
  <2> DEFINE x == (k.key.b \otimes v) \oplus m
             y == k.key.a \otimes v
  <2>4. x \in Element /\ y \in Element
    BY <2>1, <2>2, ElementClosed, ZenonT(60)
  <2>5. x \oplus (y \otimes Joint[k.who]) = m
    BY <2>1, <2>2, <2>3, EncryptPhase, ZenonT(60)
  <2>6. MakeCt(<<x, y>>, k.who, m)
    BY <1>1, ZenonT(60) DEF Encrypt, EncryptPlain, EncryptZeroPublic
  <2> HIDE DEF x, y
  <2>7. QED
    BY <2>1, <2>2, <2>4, <2>5, <2>6, PairAdded, ZenonT(60)
<1>2. ASSUME NEW c \in cts, NEW d \in cts, EvalAdd(c, d) PROVE IInv'
  <2>1. /\ c.cv \in Seq(Element) /\ Len(c.cv) \in {2, 3} /\ c.who \in Coalition
        /\ c.m \in Element /\ Joint[c.who] \in Element
        /\ d.cv \in Seq(Element) /\ Len(d.cv) \in {2, 3} /\ d.m \in Element
    BY CtFacts, ZenonT(60)
  <2>2. d.who = c.who /\ MakeCt(EvalAddCore(c.cv, d.cv), c.who, c.m \oplus d.m)
    BY <1>2, ZenonT(60) DEF EvalAdd
  <2>3. EvalAddCore(c.cv, d.cv) \in Seq(Element) /\ Len(EvalAddCore(c.cv, d.cv)) \in {2, 3}
    BY <2>1, SumShape, ZenonT(60)
  <2>4. Phase(EvalAddCore(c.cv, d.cv), Joint[c.who])
            = Phase(c.cv, Joint[c.who]) \oplus Phase(d.cv, Joint[c.who])
    BY <2>1, SumPhase, ZenonT(60)
  <2>5. Phase(c.cv, Joint[c.who]) = c.m /\ Phase(d.cv, Joint[c.who]) = d.m
    BY <2>2, ZenonT(60) DEF IInv, CiphertextsRight
  <2>6. c.m \oplus d.m \in Element
    BY <2>1, ElementClosed, ZenonT(60)
  <2>7. QED
    BY <2>1, <2>2, <2>3, <2>4, <2>5, <2>6, CtAdded, ZenonT(60)
<1>3. ASSUME NEW c \in cts, NEW d \in cts, EvalMultNoRelin(c, d) PROVE IInv'
  <2> DEFINE s == Joint[c.who]
             x == d.cv[1] \otimes c.cv[1]
             y == (c.cv[2] \otimes d.cv[1]) \oplus (c.cv[1] \otimes d.cv[2])
             z == c.cv[2] \otimes d.cv[2]
  <2>1. Len(c.cv) = 2 /\ Len(d.cv) = 2 /\ d.who = c.who /\ MakeCt(<<x, y, z>>, c.who, c.m \otimes d.m)
    BY <1>3, ZenonT(60) DEF EvalMultNoRelin, EvalMultCorePair
  <2>2. /\ c.who \in Coalition /\ c.m \in Element /\ d.m \in Element /\ s \in Element
        /\ c.cv[1] \in Element /\ c.cv[2] \in Element /\ d.cv[1] \in Element /\ d.cv[2] \in Element
        /\ c.cv[1] \oplus (c.cv[2] \otimes s) = c.m /\ d.cv[1] \oplus (d.cv[2] \otimes s) = d.m
    BY <2>1, CtFacts, ZenonT(60)
  <2>3. x \in Element /\ y \in Element /\ z \in Element /\ c.m \otimes d.m \in Element
    BY <2>2, ElementClosed, ZenonT(60)
  <2>4. (x \oplus (y \otimes s)) \oplus (z \otimes (s \otimes s)) = c.m \otimes d.m
    <3> DEFINE e0 == c.cv[1]
               e1 == c.cv[2]
               f0 == d.cv[1]
               f1 == d.cv[2]
    <3>1. e0 \in Element /\ e1 \in Element /\ f0 \in Element /\ f1 \in Element /\ s \in Element
      BY <2>2, ZenonT(60)
    <3> HIDE DEF e0, e1, f0, f1, s
    <3>2. ((f0 \otimes e0) \oplus (((e1 \otimes f0) \oplus (e0 \otimes f1)) \otimes s))
              \oplus ((e1 \otimes f1) \otimes (s \otimes s))
          = (e0 \oplus (e1 \otimes s)) \otimes (f0 \oplus (f1 \otimes s))
      BY <3>1, ProductPhase, SMTT(60)
    <3>3. QED
      BY <2>2, <3>2, ZenonT(60) DEF e0, e1, f0, f1
  <2> HIDE DEF x, y, z
  <2>5. /\ <<x, y, z>> \in Seq(Element) /\ Len(<<x, y, z>>) = 3
        /\ <<x, y, z>>[1] = x /\ <<x, y, z>>[2] = y /\ <<x, y, z>>[3] = z
    BY <2>3, SMTT(60)
  <2>6. Phase(<<x, y, z>>, Joint[c.who]) = c.m \otimes d.m
    BY <2>4, <2>5, ZenonT(60) DEF Phase
  <2>7. QED
    BY <2>1, <2>2, <2>3, <2>5, <2>6, CtAdded, ZenonT(60)
<1>4. ASSUME NEW c \in cts, Relinearize(c) PROVE IInv'
  <2> DEFINE s == Joint[c.who]
             ek == evalMult[c.who]
             x == c.cv[1] \oplus (c.cv[3] \otimes ek.b)
             y == c.cv[2] \oplus (c.cv[3] \otimes ek.a)
  <2>1. Len(c.cv) = 3 /\ ek # NoKey /\ MakeCt(<<x, y>>, c.who, c.m)
    BY <1>4, SMTT(60) DEF Relinearize, KeySwitchInPlace, KeySwitchCore
  <2>2. /\ c.who \in Coalition /\ c.m \in Element /\ s \in Element
        /\ c.cv[1] \in Element /\ c.cv[2] \in Element /\ c.cv[3] \in Element
        /\ (c.cv[1] \oplus (c.cv[2] \otimes s)) \oplus (c.cv[3] \otimes (s \otimes s)) = c.m
    BY <2>1, CtFacts, ZenonT(60)
  <2>3. ek.a \in Element /\ ek.b \in Element
    BY <2>1, <2>2, ZenonT(60) DEF IInv, TypeOK, EvalKey
  <2>4. ek.b \oplus (ek.a \otimes s) = s \otimes s
    BY <2>1, <2>2, ZenonT(60) DEF IInv, RelinKeysJoint
  <2>5. x \in Element /\ y \in Element /\ s \otimes s \in Element
    BY <2>2, <2>3, ElementClosed, ZenonT(60)
  <2>6. x \oplus (y \otimes s) = c.m
    <3>1. x \oplus (y \otimes s)
              = (c.cv[1] \oplus (c.cv[2] \otimes s)) \oplus (c.cv[3] \otimes (ek.b \oplus (ek.a \otimes s)))
      <4> DEFINE c0 == c.cv[1]
                 c1 == c.cv[2]
                 c2 == c.cv[3]
                 b == ek.b
                 a == ek.a
      <4>1. c0 \in Element /\ c1 \in Element /\ c2 \in Element /\ b \in Element /\ a \in Element
        BY <2>2, <2>3, ZenonT(60)
      <4> HIDE DEF c0, c1, c2, b, a, s
      <4>2. (c0 \oplus (c2 \otimes b)) \oplus ((c1 \oplus (c2 \otimes a)) \otimes s)
                = (c0 \oplus (c1 \otimes s)) \oplus (c2 \otimes (b \oplus (a \otimes s)))
        BY <2>2, <4>1, SwitchThree, SMTT(60)
      <4>3. QED
        BY <4>2, ZenonT(60) DEF c0, c1, c2, b, a
    <3>2. QED
      BY <2>2, <2>4, <3>1, ZenonT(60)
  <2> HIDE DEF x, y, ek
  <2>7. QED
    BY <2>1, <2>2, <2>5, <2>6, PairAdded, ZenonT(60)
<1>5. ASSUME NEW c \in cts, NEW d \in cts, EvalMult(c, d) PROVE IInv'
  <2> DEFINE s == Joint[c.who]
             ek == evalMult[c.who]
             c0 == d.cv[1] \otimes c.cv[1]
             c1 == (c.cv[2] \otimes d.cv[1]) \oplus (c.cv[1] \otimes d.cv[2])
             c2 == c.cv[2] \otimes d.cv[2]
             x == c0 \oplus (c2 \otimes ek.b)
             y == c1 \oplus (c2 \otimes ek.a)
  <2>1. /\ Len(c.cv) = 2 /\ Len(d.cv) = 2 /\ d.who = c.who /\ ek # NoKey
        /\ MakeCt(KeySwitchInPlace(<<c0, c1, c2>>, ek), c.who, c.m \otimes d.m)
    BY <1>5, Zenon DEF EvalMult, EvalMultCorePair
  <2>2. /\ c.who \in Coalition /\ c.m \in Element /\ d.m \in Element /\ s \in Element
        /\ c.cv[1] \in Element /\ c.cv[2] \in Element /\ d.cv[1] \in Element /\ d.cv[2] \in Element
        /\ c.cv[1] \oplus (c.cv[2] \otimes s) = c.m /\ d.cv[1] \oplus (d.cv[2] \otimes s) = d.m
    BY <2>1, CtFacts, ZenonT(60)
  <2>3. c0 \in Element /\ c1 \in Element /\ c2 \in Element /\ c.m \otimes d.m \in Element
    BY <2>2, ElementClosed, Zenon
  <2>4. (c0 \oplus (c1 \otimes s)) \oplus (c2 \otimes (s \otimes s)) = c.m \otimes d.m
    <3> DEFINE e0 == c.cv[1]
               e1 == c.cv[2]
               f0 == d.cv[1]
               f1 == d.cv[2]
    <3>1. e0 \in Element /\ e1 \in Element /\ f0 \in Element /\ f1 \in Element /\ s \in Element
      BY <2>2, Zenon
    <3> HIDE DEF e0, e1, f0, f1, s
    <3>2. ((f0 \otimes e0) \oplus (((e1 \otimes f0) \oplus (e0 \otimes f1)) \otimes s))
              \oplus ((e1 \otimes f1) \otimes (s \otimes s))
          = (e0 \oplus (e1 \otimes s)) \otimes (f0 \oplus (f1 \otimes s))
      BY <3>1, ProductPhase
    <3>3. QED
      BY <2>2, <3>2, Zenon DEF e0, e1, f0, f1
  <2>5. ek.a \in Element /\ ek.b \in Element
    BY <2>1, <2>2, ZenonT(60) DEF IInv, TypeOK, EvalKey
  <2>6. ek.b \oplus (ek.a \otimes s) = s \otimes s
    BY <2>1, <2>2, ZenonT(60) DEF IInv, RelinKeysJoint
  <2> HIDE DEF c0, c1, c2, ek
  <2>7. KeySwitchInPlace(<<c0, c1, c2>>, ek) = <<x, y>>
    BY DEF KeySwitchInPlace, KeySwitchCore
  <2>8. x \in Element /\ y \in Element /\ s \otimes s \in Element
    BY <2>2, <2>3, <2>5, ElementClosed, ZenonT(60)
  <2>9. x \oplus (y \otimes s) = c.m \otimes d.m
    <3>1. x \oplus (y \otimes s)
              = (c0 \oplus (c1 \otimes s)) \oplus (c2 \otimes (ek.b \oplus (ek.a \otimes s)))
      <4> DEFINE b == ek.b
                 a == ek.a
      <4>1. /\ b \in Element /\ a \in Element /\ s \in Element
            /\ c0 \in Element /\ c1 \in Element /\ c2 \in Element
        BY <2>2, <2>3, <2>5, ZenonT(60)
      <4> HIDE DEF b, a, s
      <4>2. (c0 \oplus (c2 \otimes b)) \oplus ((c1 \oplus (c2 \otimes a)) \otimes s)
                = (c0 \oplus (c1 \otimes s)) \oplus (c2 \otimes (b \oplus (a \otimes s)))
        BY <4>1, SwitchThree, SMTT(60)
      <4>3. QED
        BY <4>2, ZenonT(60) DEF b, a
    <3>2. QED
      BY <2>4, <2>6, <3>1, ZenonT(60)
  <2> HIDE DEF x, y
  <2>10. QED
    BY <2>1, <2>2, <2>3, <2>7, <2>8, <2>9, PairAdded, ZenonT(60)
<1>6. ASSUME NEW c \in cts, NEW i \in Index, EvalRotate(c, i) PROVE IInv'
  <2> DEFINE s == Joint[c.who]
             n == AutomorphismTransform(s, GInverse(i))
             ek == evalAuto[c.who][i]
             x == c.cv[1] \oplus (c.cv[2] \otimes ek.b)
             y == c.cv[2] \otimes ek.a
             sx == AutomorphismTransform(x, i)
             sy == AutomorphismTransform(y, i)
  <2>1. /\ Len(c.cv) = 2 /\ ek # NoKey
        /\ MakeCt(EvalAutomorphism(c.cv, i, ek), c.who, AutomorphismTransform(c.m, i))
    BY <1>6, ZenonT(60) DEF EvalRotate
  <2>2. EvalAutomorphism(c.cv, i, ek) = <<sx, sy>>
    BY <2>1, Zenon DEF EvalAutomorphism, KeySwitchInPlace, KeySwitchCore
  <2>3. /\ c.who \in Coalition /\ c.m \in Element /\ s \in Element
        /\ c.cv[1] \in Element /\ c.cv[2] \in Element
        /\ c.cv[1] \oplus (c.cv[2] \otimes s) = c.m
    BY <2>1, CtFacts, ZenonT(60)
  <2>4. i \in Galois /\ n \in Element
    BY <2>3, PermutedSecret, ZenonT(60)
  <2>5. ek.a \in Element /\ ek.b \in Element
    <3>1. ek \in EvalKey
      BY <2>1, <2>3, SMTT(60) DEF IInv, TypeOK
    <3>2. QED
      BY <3>1, ZenonT(60) DEF EvalKey
  <2>6. ek.b \oplus (ek.a \otimes n) = s
    BY <2>1, <2>3, ZenonT(60) DEF IInv, AutoKeysJoint
  <2>7. x \in Element /\ y \in Element
    BY <2>3, <2>5, ElementClosed, ZenonT(60)
  <2>8. x \oplus (y \otimes n) = c.m
    <3>1. x \oplus (y \otimes n) = c.cv[1] \oplus (c.cv[2] \otimes (ek.b \oplus (ek.a \otimes n)))
      <4> DEFINE b0 == ek.b
                 a0 == ek.a
                 c0 == c.cv[1]
                 c1 == c.cv[2]
      <4>1. b0 \in Element /\ a0 \in Element /\ n \in Element /\ c0 \in Element /\ c1 \in Element
        BY <2>3, <2>4, <2>5, ZenonT(60)
      <4> HIDE DEF b0, a0, c0, c1, n
      <4>2. (c0 \oplus (c1 \otimes b0)) \oplus ((c1 \otimes a0) \otimes n)
               = c0 \oplus (c1 \otimes (b0 \oplus (a0 \otimes n)))
        BY <4>1, SwitchTwo, SMTT(60)
      <4>3. QED
        BY <4>2, ZenonT(60) DEF b0, a0, c0, c1
    <3>2. QED
      BY <2>3, <2>6, <3>1, ZenonT(60)
  <2> HIDE DEF x, y, ek
  <2>9. y \otimes n \in Element /\ sx \in Element /\ sy \in Element
        /\ AutomorphismTransform(c.m, i) \in Element
    BY <2>3, <2>4, <2>7, ElementClosed, Zenon
  <2>10. AutomorphismTransform(n, i) = s
    BY <2>3, <2>4, AutomorphismHom, ZenonT(60)
  <2>11. AutomorphismTransform(y \otimes n, i) = sy \otimes AutomorphismTransform(n, i)
    BY <2>4, <2>7, AutomorphismHom, SMTT(60)
  <2>12. AutomorphismTransform(x \oplus (y \otimes n), i)
             = sx \oplus AutomorphismTransform(y \otimes n, i)
    BY <2>4, <2>7, <2>9, AutomorphismHom, SMTT(60)
  <2> HIDE DEF n, sx, sy
  <2>13. sx \oplus (sy \otimes Joint[c.who]) = AutomorphismTransform(c.m, i)
    BY <2>8, <2>10, <2>11, <2>12, ZenonT(60)
  <2>14. QED
    BY <2>1, <2>2, <2>3, <2>9, <2>13, PairAdded, ZenonT(60)
<1>7. ASSUME NEW p \in Party, NEW c \in cts, NEW k \in pub, NEW u \in Blind, ReEncrypt(p, c, k, u)
      PROVE  IInv'
  <2> DEFINE o == Share[p]
             n == Joint[k.who]
             b == (k.key.b \otimes u) \oplus o
             a == k.key.a \otimes u
             x == c.cv[1] \oplus (c.cv[2] \otimes b)
             y == c.cv[2] \otimes a
  <2>1. /\ c.who = {p} /\ Len(c.cv) = 2
        /\ MakeCt(KeySwitchInPlace(c.cv, KeySwitchGenPublic(o, k.key, u)), k.who, c.m)
    BY <1>7, ZenonT(60) DEF ReEncrypt
  <2>2. KeySwitchInPlace(c.cv, KeySwitchGenPublic(o, k.key, u)) = <<x, y>>
    BY <2>1, ZenonT(60) DEF KeySwitchInPlace, KeySwitchCore, KeySwitchGenPublic
  <2>3. /\ c.m \in Element /\ c.cv[1] \in Element /\ c.cv[2] \in Element
        /\ c.cv[1] \oplus (c.cv[2] \otimes Joint[c.who]) = c.m
    BY <2>1, CtFacts, ZenonT(60)
  <2>4. o \in Element /\ Joint[{p}] = o
    BY JointFacts, ZenonT(60)
  <2>5. k.key.a \in Element /\ k.key.b \in Element /\ k.who \in Coalition
    BY Zenon DEF IInv, TypeOK, EvalKey
  <2>6. u \in Element /\ n \in Element
    BY <2>5, SampleAssumption, JointFacts, ZenonT(60)
  <2>7. k.key.b \oplus (k.key.a \otimes n) = Zero
    BY Zenon DEF IInv, PublicKeysJoint
  <2>8. b \oplus (a \otimes n) = o
    BY <2>4, <2>5, <2>6, <2>7, EncryptPhase, ZenonT(60)
  <2>9. b \in Element /\ a \in Element
    BY <2>4, <2>5, <2>6, ElementClosed, ZenonT(60)
  <2> HIDE DEF a, b, n, o
  <2>10. x \in Element /\ y \in Element
    BY <2>3, <2>9, ElementClosed, ZenonT(60)
  <2>11. x \oplus (y \otimes n) = c.cv[1] \oplus (c.cv[2] \otimes o)
    <3>1. x \oplus (y \otimes n) = c.cv[1] \oplus (c.cv[2] \otimes (b \oplus (a \otimes n)))
      <4> DEFINE c0 == c.cv[1]
                 c1 == c.cv[2]
      <4>1. c0 \in Element /\ c1 \in Element
        BY <2>3, ZenonT(60)
      <4> HIDE DEF c0, c1
      <4>2. (c0 \oplus (c1 \otimes b)) \oplus ((c1 \otimes a) \otimes n)
                = c0 \oplus (c1 \otimes (b \oplus (a \otimes n)))
        BY <2>6, <2>9, <4>1, SwitchTwo, SMTT(60)
      <4>3. QED
        BY <4>2, ZenonT(60) DEF c0, c1
    <3>2. QED
      BY <2>8, <3>1, ZenonT(60)
  <2> HIDE DEF x, y
  <2>12. x \oplus (y \otimes Joint[k.who]) = c.m
    BY <2>1, <2>3, <2>4, <2>11, ZenonT(60) DEF n
  <2>13. QED
    BY <2>1, <2>2, <2>3, <2>5, <2>10, <2>12, PairAdded, ZenonT(60)
<1>8. QED
  BY <1>1, <1>2, <1>3, <1>4, <1>5, <1>6, <1>7, ZenonT(60) DEF CiphertextStep

-----------------------------------------------------------------------------
(* Partial decryptions and their fusion.                                   *)


\* Publishing a partial decryption preserves the invariant.
LEMMA PartAdded ==
    ASSUME IInv, NEW c \in cts, NEW p \in Party, p \in c.who, Len(c.cv) = 2, NEW lead \in BOOLEAN,
           NEW val \in Element,
           val = IF lead THEN DecryptShareLead(c.cv, Share[p]) ELSE DecryptShareMain(c.cv, Share[p]),
           parts' = parts \cup {[ct |-> c, by |-> p, lead |-> lead, val |-> val]},
           UNCHANGED <<pub, round1, round2, autoShares, evalMult, evalAuto, cts, fusing>>
    PROVE  IInv'
<1> DEFINE q == [ct |-> c, by |-> p, lead |-> lead, val |-> val]
<1>1. q \in [ct : Ct, by : Party, lead : BOOLEAN, val : Element]
  BY Zenon DEF IInv, TypeOK
<1>2. q.ct = c /\ q.by = p /\ q.lead = lead /\ q.val = val
  BY Zenon
<1>3. parts' = parts \cup {q}
  BY Zenon
<1> HIDE DEF q
<1>4. TypeOK'
  BY <1>1, <1>3, ZenonT(60) DEF IInv, TypeOK
<1>5. PartsInv'
  BY <1>2, <1>3, ZenonT(60) DEF IInv, PartsInv
<1>6. QED
  BY <1>4, <1>5, ZenonT(60) DEF IInv, PublicKeysJoint, RoundOneInv, RoundTwoInv, AutoSharesInv,
         RelinKeysJoint, AutoKeysJoint, CiphertextsRight, FusingInv

\* A partial decryption is the share of the party of the phase, with the first
\* element when it leads.
LEMMA PartFacts ==
    ASSUME IInv, NEW q \in parts
    PROVE  /\ q.ct \in cts /\ Len(q.ct.cv) = 2 /\ q.by \in Party /\ q.lead \in BOOLEAN
           /\ q.val \in Element /\ q.ct.cv[1] \in Element /\ q.ct.cv[2] \in Element
           /\ q.lead => q.val = q.ct.cv[1] \oplus (q.ct.cv[2] \otimes Share[q.by])
           /\ ~q.lead => q.val = q.ct.cv[2] \otimes Share[q.by]
<1>1. /\ q.ct \in cts /\ Len(q.ct.cv) = 2
      /\ q.val = IF q.lead THEN DecryptShareLead(q.ct.cv, Share[q.by])
                           ELSE DecryptShareMain(q.ct.cv, Share[q.by])
  BY Zenon DEF IInv, PartsInv
<1>2. q.by \in Party /\ q.lead \in BOOLEAN /\ q.val \in Element
  BY Zenon DEF IInv, TypeOK
<1>3. q.ct.cv[1] \in Element /\ q.ct.cv[2] \in Element /\ Share[q.by] \in Element
  BY <1>1, <1>2, CtFacts, JointFacts, ZenonT(60)
<1>4. Share[q.by] \otimes q.ct.cv[2] = q.ct.cv[2] \otimes Share[q.by]
  BY <1>3, ElementRing, ZenonT(60)
<1>5. QED
  BY <1>1, <1>2, <1>3, <1>4, ZenonT(60) DEF DecryptShareLead, DecryptShareMain

\* Adding a share to a sum of shares of the phase.
LEMMA FusedSum ==
    ASSUME NEW c0 \in Element, NEW c1 \in Element, NEW s \in Element, NEW J \in Element
    PROVE  /\ (c1 \otimes J) \oplus (c1 \otimes s) = c1 \otimes (J \oplus s)
           /\ (c0 \oplus (c1 \otimes J)) \oplus (c1 \otimes s) = c0 \oplus (c1 \otimes (J \oplus s))
           /\ (c1 \otimes J) \oplus (c0 \oplus (c1 \otimes s)) = c0 \oplus (c1 \otimes (J \oplus s))
<1> DEFINE x == c1 \otimes J
           y == c1 \otimes s
<1>1. x \in Element /\ y \in Element
  BY ElementClosed, ZenonT(60)
<1>2. c1 \otimes (J \oplus s) = x \oplus y
  BY ElementRing, SMTT(60)
<1> HIDE DEF x, y
<1>3. (c0 \oplus x) \oplus y = c0 \oplus (x \oplus y) /\ x \oplus (c0 \oplus y) = c0 \oplus (x \oplus y)
  BY <1>1, ElementGroup, SMTT(60)
<1>4. QED
  BY <1>2, <1>3, ZenonT(60) DEF x, y

\* Partial decryptions and their fusion preserve the invariant.
LEMMA DecryptionStepInv == IInv /\ DecryptionStep => IInv'
<1> SUFFICES ASSUME IInv, DecryptionStep PROVE IInv'
  BY Zenon
<1>1. ASSUME NEW p \in Party, NEW c \in cts, MultipartyDecryptLead(p, c) PROVE IInv'
  <2>1. c.cv[1] \in Element /\ c.cv[2] \in Element /\ Share[p] \in Element /\ Len(c.cv) \in {2, 3}
    BY CtFacts, JointFacts, ZenonT(60)
  <2>2. DecryptShareLead(c.cv, Share[p]) \in Element
    BY <2>1, ElementClosed, ZenonT(60) DEF DecryptShareLead
  <2>3. Len(c.cv) = 2 /\ p \in c.who
    <3> DEFINE len == Len(c.cv)
    <3>1. len <= 2 /\ p \in c.who
      BY <1>1, ZenonT(60) DEF MultipartyDecryptLead, CheckMultipartyDecryptCompatibility
    <3>2. len = 2 \/ len = 3
      BY <2>1, ZenonT(60)
    <3> HIDE DEF len
    <3>3. len = 2
      BY <3>1, <3>2, SMTT(60)
    <3> QED  BY <3>1, <3>3, ZenonT(60) DEF len
  <2>4. QED
    BY <1>1, <2>2, <2>3, PartAdded, ZenonT(60) DEF MultipartyDecryptLead
<1>2. ASSUME NEW p \in Party, NEW c \in cts, MultipartyDecryptMain(p, c) PROVE IInv'
  <2>1. c.cv[1] \in Element /\ c.cv[2] \in Element /\ Share[p] \in Element /\ Len(c.cv) \in {2, 3}
    BY CtFacts, JointFacts, Zenon
  <2>2. DecryptShareMain(c.cv, Share[p]) \in Element
    BY <2>1, ElementClosed, ZenonT(60) DEF DecryptShareMain
  <2>3. Len(c.cv) = 2 /\ p \in c.who
    <3> DEFINE len == Len(c.cv)
    <3>1. len <= 2 /\ p \in c.who
      BY <1>2, ZenonT(60) DEF MultipartyDecryptMain, CheckMultipartyDecryptCompatibility
    <3>2. len = 2 \/ len = 3
      BY <2>1, Zenon
    <3> HIDE DEF len
    <3>3. len = 2
      BY <3>1, <3>2
    <3> QED  BY <3>1, <3>3, Zenon DEF len
  <2>4. QED
    BY <1>2, <2>2, <2>3, PartAdded, ZenonT(60) DEF MultipartyDecryptMain
<1>3. ASSUME NEW f \in [ct : Ct, by : SUBSET Party, leads : Nat, val : Element], fusing' = f,
             UNCHANGED <<pub, round1, round2, autoShares, evalMult, evalAuto, cts, parts>>,
             f.ct \in cts, Len(f.ct.cv) = 2,
             f.leads = 0 => f.val = f.ct.cv[2] \otimes Joint[f.by],
             f.leads = 1 => f.val = f.ct.cv[1] \oplus (f.ct.cv[2] \otimes Joint[f.by])
      PROVE  IInv'
  <2>1. TypeOK'
    BY <1>3, ZenonT(60) DEF IInv, TypeOK
  <2>2. FusingInv'
    BY <1>3, ZenonT(60) DEF FusingInv
  <2>3. QED
    BY <1>3, <2>1, <2>2, ZenonT(60)
       DEF IInv, PublicKeysJoint, RoundOneInv, RoundTwoInv, AutoSharesInv,
         RelinKeysJoint, AutoKeysJoint, CiphertextsRight, PartsInv
<1>4. ASSUME NEW q \in parts, FusionFirst(q) PROVE IInv'
  <2> DEFINE f == [ct |-> q.ct, by |-> {q.by}, leads |-> IF q.lead THEN 1 ELSE 0, val |-> q.val]
  <2>1. /\ q.ct \in cts /\ Len(q.ct.cv) = 2 /\ q.by \in Party /\ q.lead \in BOOLEAN
        /\ q.val \in Element
        /\ q.lead => q.val = q.ct.cv[1] \oplus (q.ct.cv[2] \otimes Share[q.by])
        /\ ~q.lead => q.val = q.ct.cv[2] \otimes Share[q.by]
    BY PartFacts, ZenonT(60)
  <2>2. q.ct \in Ct /\ Joint[{q.by}] = Share[q.by]
    BY <2>1, JointFacts, ZenonT(60) DEF IInv, TypeOK
  <2>3. f \in [ct : Ct, by : SUBSET Party, leads : Nat, val : Element]
    BY <2>1, <2>2, ZenonT(60)
  <2>4. f.ct = q.ct /\ f.by = {q.by} /\ f.val = q.val /\ f.leads = IF q.lead THEN 1 ELSE 0
    BY Zenon
  <2>5. fusing' = f /\ UNCHANGED <<pub, round1, round2, autoShares, evalMult, evalAuto, cts, parts>>
    BY <1>4, ZenonT(60) DEF FusionFirst
  <2> HIDE DEF f
  <2>6. /\ f.leads = 0 => f.val = f.ct.cv[2] \otimes Joint[f.by]
        /\ f.leads = 1 => f.val = f.ct.cv[1] \oplus (f.ct.cv[2] \otimes Joint[f.by])
    BY <2>1, <2>2, <2>4, SMTT(60)
  <2>7. QED
    BY <1>3, <2>1, <2>3, <2>4, <2>5, <2>6, ZenonT(60)
<1>5. ASSUME NEW q \in parts, FusionNext(q) PROVE IInv'
  <2> DEFINE f == [fusing EXCEPT !.by = @ \cup {q.by}, !.leads = IF q.lead THEN @ + 1 ELSE @,
                                 !.val = @ \oplus q.val]
             J == Joint[fusing.by]
             s == Share[q.by]
             c0 == q.ct.cv[1]
             c1 == q.ct.cv[2]
  <2>1. /\ Len(q.ct.cv) = 2 /\ q.by \in Party /\ q.lead \in BOOLEAN /\ q.ct \in cts
        /\ q.val \in Element /\ c0 \in Element /\ c1 \in Element
        /\ q.lead => q.val = c0 \oplus (c1 \otimes s)
        /\ ~q.lead => q.val = c1 \otimes s
    BY PartFacts, ZenonT(60)
  <2>2. fusing # NoKey /\ fusing.ct = q.ct /\ q.by \notin fusing.by
    BY <1>5, ZenonT(60) DEF FusionNext
  <2>3. fusing \in [ct : Ct, by : SUBSET Party, leads : Nat, val : Element]
    BY <2>2, ZenonT(60) DEF IInv, TypeOK
  <2>4. /\ fusing.leads = 0 => fusing.val = c1 \otimes J
        /\ fusing.leads = 1 => fusing.val = c0 \oplus (c1 \otimes J)
    BY <2>2, ZenonT(60) DEF IInv, FusingInv
  <2>5. f.ct = q.ct /\ f.by = fusing.by \cup {q.by} /\ f.val = fusing.val \oplus q.val
        /\ f.leads = IF q.lead THEN fusing.leads + 1 ELSE fusing.leads
    BY <2>2, <2>3, ZenonT(60)
  <2>6. fusing.val \oplus q.val \in Element
    BY <2>1, <2>3, ElementClosed, ZenonT(60)
  <2>7. f \in [ct : Ct, by : SUBSET Party, leads : Nat, val : Element]
    <3>1. (IF q.lead THEN fusing.leads + 1 ELSE fusing.leads) \in Nat
      BY <2>1, <2>3, SMTT(60)
    <3>2. fusing.by \cup {q.by} \in SUBSET Party
      BY <2>1, <2>3, ZenonT(60)
    <3>3. QED
      BY <2>3, <2>6, <3>1, <3>2, ZenonT(60)
  <2>8. fusing' = f /\ UNCHANGED <<pub, round1, round2, autoShares, evalMult, evalAuto, cts, parts>>
    BY <1>5, Zenon DEF FusionNext
  <2>9. J \in Element /\ s \in Element /\ Joint[fusing.by \cup {q.by}] = J \oplus s
    BY <2>1, <2>2, <2>3, PartyAssumption, ZenonT(60)
  <2> HIDE DEF f, J, s, c0, c1
  <2>10. /\ (c1 \otimes J) \oplus (c1 \otimes s) = c1 \otimes (J \oplus s)
         /\ (c0 \oplus (c1 \otimes J)) \oplus (c1 \otimes s) = c0 \oplus (c1 \otimes (J \oplus s))
         /\ (c1 \otimes J) \oplus (c0 \oplus (c1 \otimes s)) = c0 \oplus (c1 \otimes (J \oplus s))
    <3>1. c0 \in Element /\ c1 \in Element /\ J \in Element /\ s \in Element
      BY <2>1, <2>9, ZenonT(60)
    <3>2. QED
      BY <3>1, FusedSum, SMTT(60)
  <2>11. f.leads = 0 => f.val = c1 \otimes (J \oplus s)
    <3>1. f.leads = 0 => ~q.lead /\ fusing.leads = 0
      <4>1. fusing.leads \in Nat /\ f.leads = IF q.lead THEN fusing.leads + 1 ELSE fusing.leads
        BY <2>3, <2>5, ZenonT(60)
      <4>2. QED
        BY <4>1, SMTT(60)
    <3>2. QED
      BY <2>1, <2>4, <2>5, <2>10, <3>1, ZenonT(60)
  <2>12. f.leads = 1 => f.val = c0 \oplus (c1 \otimes (J \oplus s))
    <3>1. f.leads = 1 => (q.lead /\ fusing.leads = 0) \/ (~q.lead /\ fusing.leads = 1)
      <4>1. fusing.leads \in Nat /\ f.leads = IF q.lead THEN fusing.leads + 1 ELSE fusing.leads
        BY <2>3, <2>5, ZenonT(60)
      <4>2. QED
        BY <4>1, SMTT(60)
    <3>2. QED
      BY <2>1, <2>4, <2>5, <2>10, <3>1, ZenonT(60)
  <2>13. /\ f.leads = 0 => f.val = f.ct.cv[2] \otimes Joint[f.by]
         /\ f.leads = 1 => f.val = f.ct.cv[1] \oplus (f.ct.cv[2] \otimes Joint[f.by])
    BY <2>5, <2>9, <2>11, <2>12, ZenonT(60) DEF c0, c1
  <2>14. QED
    BY <1>3, <2>1, <2>5, <2>7, <2>8, <2>13, ZenonT(60)
<1>6. QED
  BY <1>1, <1>2, <1>4, <1>5, ZenonT(60) DEF DecryptionStep

-----------------------------------------------------------------------------
\* The inductive invariant is an invariant: whatever keys the parties combine
\* in whatever order, for any number of parties.
THEOREM IInvHolds == Spec => []IInv
<1>1. IInv /\ UNCHANGED vars => IInv'
  BY ZenonT(60) DEF vars, IInv, TypeOK, PublicKeysJoint, RoundOneInv, RoundTwoInv, AutoSharesInv,
         RelinKeysJoint, AutoKeysJoint, CiphertextsRight, PartsInv, FusingInv
<1>2. IInv /\ [Next]_vars => IInv'
  BY <1>1, PublicKeyStepInv, MultKeyStepInv, AutoKeyStepInv, CiphertextStepInv, DecryptionStepInv, ZenonT(60)
     DEF Next
<1>3. QED
  BY InitIInv, <1>2, PTL DEF Spec

\* Public keys built by chains, fresh keys and sums (MultipartyKeyGen,
\* MultiAddPubKeys) always encrypt under the sum of the shares.
THEOREM PublicKeysJointHolds == Spec => []PublicKeysJoint
<1>1. IInv => PublicKeysJoint
  BY ZenonT(60) DEF IInv
<1>2. QED
  BY <1>1, IInvHolds, PTL

\* The keys of the two rounds (MultiKeySwitchGen, MultiAddEvalKeys,
\* MultiMultEvalKey, MultiAddEvalMultKeys) always switch from the square of the
\* joint secret to the joint secret.
THEOREM RelinKeysJointHolds == Spec => []RelinKeysJoint
<1>1. IInv => RelinKeysJoint
  BY ZenonT(60) DEF IInv
<1>2. QED
  BY <1>1, IInvHolds, PTL

\* The sums of MultiEvalAutomorphismKeyGen's shares always switch from the
\* joint secret to its preimage.
THEOREM AutoKeysJointHolds == Spec => []AutoKeysJoint
<1>1. IInv => AutoKeysJoint
  BY ZenonT(60) DEF IInv
<1>2. QED
  BY <1>1, IInvHolds, PTL

\* Sums, products, relinearisations, rotations and re-encryptions always
\* decrypt under the joint secret to what was computed on the plaintexts.
THEOREM CiphertextsRightHolds == Spec => []CiphertextsRight
<1>1. IInv => CiphertextsRight
  BY ZenonT(60) DEF IInv
<1>2. QED
  BY <1>1, IInvHolds, PTL

\* MultipartyDecryptFusion of one lead and the other parties' partial
\* decryptions always returns the plaintext.
THEOREM FusionRightHolds == Spec => []FusionRight
<1>1. IInv => FusionRight
  <2> SUFFICES ASSUME IInv, fusing # NoKey, fusing.by = fusing.ct.who, fusing.leads = 1
               PROVE  fusing.val = fusing.ct.m
    BY Zenon DEF FusionRight
  <2>1. /\ fusing.ct \in cts /\ Len(fusing.ct.cv) = 2
        /\ fusing.val = fusing.ct.cv[1] \oplus (fusing.ct.cv[2] \otimes Joint[fusing.by])
    BY Zenon DEF IInv, FusingInv
  <2>2. fusing.ct.cv[1] \oplus (fusing.ct.cv[2] \otimes Joint[fusing.ct.who]) = fusing.ct.m
    BY <2>1, CtFacts, ZenonT(60)
  <2>3. QED
    BY <2>1, <2>2, ZenonT(60)
<1>2. QED
  BY <1>1, IInvHolds, PTL
=============================================================================
