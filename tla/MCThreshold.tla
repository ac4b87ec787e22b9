------------------------------- MODULE MCThreshold --------------------------
(***************************************************************************)
(* TLC instance of Threshold: the fifth cyclotomic ring modulo 11 in       *)
(* evaluation format, whose slots are the units modulo 5 and whose         *)
(* automorphisms X -> X^i multiply them by i.  The index 2 is not its own  *)
(* inverse.                                                                *)
(***************************************************************************)
EXTENDS Threshold, TLC

MCModulus == 11
MCScalar == 0..MCModulus - 1
MCAdd(x, y) == (x + y) % MCModulus
MCMul(x, y) == (x * y) % MCModulus
MCNeg(x) == (MCModulus - x) % MCModulus

MCOrder == 5
MCSlot == 1..MCOrder - 1
MCGalois == MCSlot
MCPerm(i, j) == (i * j) % MCOrder
MCGInverse(i) == CHOOSE k \in MCGalois : (i * k) % MCOrder = 1

\* Elements without structure: no two slots or samples are alike.
MCElement(n) == [j \in MCSlot |-> (n * n * j + j * j + 3 * n) % MCModulus]

CONSTANTS p1, p2, p3
MCParty == {p1, p2, p3}
MCShare == [p \in MCParty |->
                CASE p = p1 -> MCElement(1) [] p = p2 -> MCElement(2) [] p = p3 -> MCElement(3)]
MCSum(W) == [j \in MCSlot |->
                ((IF p1 \in W THEN MCElement(1)[j] ELSE 0)
                 + (IF p2 \in W THEN MCElement(2)[j] ELSE 0)
                 + (IF p3 \in W THEN MCElement(3)[j] ELSE 0)) % MCModulus]
MCJoint == [W \in SUBSET MCParty |-> MCSum(W)]
MCPubA == MCElement(4)
MCEvalA == MCElement(5)
MCJointA == MCElement(6)
MCBlind == {MCElement(7)}
MCMessage == {MCElement(8)}
MCIndex == {2}

(***************************************************************************)
(* What a behaviour is about, with the bounds on what it publishes.        *)
(***************************************************************************)
VARIABLE goal

Goals == {"public", "relin", "auto"}

\* Nothing that was published is ever changed, so that a later stage of a
\* behaviour need not be interleaved with an earlier one.
Stages ==
    /\ cts # {} => UNCHANGED <<pub, round1, round2, autoShares, evalMult, evalAuto>>
    /\ parts # {} => UNCHANGED cts
    /\ fusing # NoKey => UNCHANGED parts
    /\ round2 # {} => UNCHANGED round1
    /\ pub # {} => UNCHANGED <<round1, round2, autoShares, evalMult, evalAuto>>

Bounds ==
    /\ Cardinality(pub) <= 3
    /\ goal = "public" \/ {k.who : k \in pub} \subseteq {Party}
    /\ goal # "relin" => round1 = {}
    /\ goal # "auto" => autoShares = {}
    /\ Cardinality(round1) <= 5 /\ Cardinality(round2) <= 5 /\ Cardinality(autoShares) <= 5
    /\ pub # {} /\ goal = "relin" => evalMult[Party] # NoKey
    /\ pub # {} /\ goal = "auto" => evalAuto[Party] # [i \in Index |-> NoKey]
    /\ \A k \in round2 : k.of = Party
    /\ Cardinality(cts) <= IF goal = "relin" THEN 3 ELSE 2
    /\ \A W \in Coalition : W # Party => evalAuto[W] = [i \in Index |-> NoKey]
    /\ \A q, r \in parts : q.ct = r.ct /\ (q.by = r.by \/ (q.lead /\ r.lead) => q = r)
    /\ fusing # NoKey => {q.by : q \in parts} = fusing.ct.who

MCInit == Init /\ goal \in Goals
MCNext == Next /\ goal' = goal /\ Bounds' /\ Stages
MCSpec == MCInit /\ [][MCNext]_<<vars, goal>>
=============================================================================
