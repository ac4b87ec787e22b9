-------------------------- MODULE MCBGVLeveledSHE --------------------------
(***************************************************************************)
(* Small instances of the two schemes with exact plaintexts.  One is       *)
(* BGVLeveledSHE, for each of the scaling techniques a context may be made *)
(* with: the plaintext modulus is 17, and the residues of the primes are   *)
(* different powers of its generator 3, so that no short product of them   *)
(* is 1 by accident.  The other is BFVRNS, for each of its multiplication  *)
(* techniques.                                                             *)
(***************************************************************************)
EXTENDS BGVLeveledSHE, BFVRNS, TLC

CONSTANTS r1, r2,
          Techniques    \* the techniques a context may be made with, "BFV" for all of BFV's

MCRegs == {r1, r2}

Symmetric == Permutations(MCRegs)

\* 3, 3^5, 3^2, 3^11, 3^7 modulo 17.
MCQModt == [i \in 0 .. (SizeQ - 1) |-> <<3, 5, 9, 7, 11>>[i + 1]]

\* The FIXED techniques take primes that are 1 modulo t.
MCOnes == [i \in 0 .. (SizeQ - 1) |-> 1]

-----------------------------------------------------------------------------
(***************************************************************************)
(* Contexts of BFV.  Each multiplication technique meets both encryption    *)
(* techniques and both key switching techniques; two contexts drop a        *)
(* modulus at a multiplication or at a relinearization.                     *)
(***************************************************************************)

Setup(mult, enc, ks, digitSize, t, int128, wide) ==
    [mult |-> mult, enc |-> enc, ks |-> ks, digitSize |-> digitSize, t |-> t, int128 |-> int128,
     wide |-> wide]

MCSetups ==
    {Setup("HPS", "STANDARD", "BV", 0, 2, TRUE, FALSE),
     Setup("HPS", "EXTENDED", "HYBRID", 0, 4, FALSE, TRUE),
     Setup("HPSPOVERQ", "STANDARD", "HYBRID", 0, 3, TRUE, TRUE),
     Setup("HPSPOVERQ", "EXTENDED", "BV", 4, 4, TRUE, FALSE),
     Setup("HPSPOVERQLEVELED", "STANDARD", "BV", 0, 2, TRUE, FALSE),
     Setup("HPSPOVERQLEVELED", "STANDARD", "BV", 4, 3, TRUE, FALSE),
     Setup("HPSPOVERQLEVELED", "STANDARD", "HYBRID", 0, 3, TRUE, FALSE),
     Setup("HPSPOVERQLEVELED", "STANDARD", "HYBRID", 0, 4, TRUE, FALSE),
     Setup("HPSPOVERQLEVELED", "EXTENDED", "HYBRID", 0, 4, FALSE, FALSE),
     Setup("BEHZ", "STANDARD", "BV", 0, 2, TRUE, FALSE),
     Setup("BEHZ", "EXTENDED", "HYBRID", 0, 3, TRUE, FALSE)}

ASSUME SetupsTyped == Setups \subseteq SetupType

MCModuliQ == <<113, 109, 101>>

MCSecrets == {<<1, -1>>}

MCMasks == {<<54321, 90909>>}

MCErrors == {<<2, -2>>}

MCMessages == <<{<<1, 2>>}, {<<3, 1>>}>>

-----------------------------------------------------------------------------
(***************************************************************************)
(* The same program in a context of another technique.                     *)
(***************************************************************************)

VARIABLE tech

EXT == INSTANCE BGVLeveledSHE
           WITH ScalTech <- "FLEXIBLEAUTOEXT", MultDepth <- MultDepth - 1

MANUAL == INSTANCE BGVLeveledSHE WITH ScalTech <- "FIXEDMANUAL", QModt <- MCOnes

FIXED == INSTANCE BGVLeveledSHE WITH ScalTech <- "FIXEDAUTO", QModt <- MCOnes

MCInit == Init /\ BFVInit /\ tech \in Techniques

BGVNext ==
    \/ tech = ScalTech /\ Next
    \/ tech = "FLEXIBLEAUTOEXT" /\ EXT!Next
    \/ tech = "FIXEDMANUAL" /\ MANUAL!Next
    \/ tech = "FIXEDAUTO" /\ FIXED!Next

InBFV == tech = "BFV" /\ UNCHANGED <<vars, tech>>

(* The disjuncts after the first are those of BFVNext. *)
MCNext ==
    \/ BGVNext /\ UNCHANGED <<bfvVars, tech>>
    \/ InBFV /\ GenCryptoContext
    \/ InBFV /\ BFVKeyGen
    \/ InBFV /\ \E i \in Slots : BFVEncrypt(i)
    \/ InBFV /\ \E i \in Slots : BFVEncryptSecret(i)
    \/ InBFV /\ \E i, j \in Slots : BFVEvalMult(i, j)
    \/ InBFV /\ \E i, j \in Slots : BFVEvalMultNoRelin(i, j)
    \/ InBFV /\ \E i, j \in Slots : BFVEvalAdd(i, j)
    \/ InBFV /\ \E i, j \in Slots : BFVEvalSub(i, j)
    \/ InBFV /\ \E i \in UnarySlots : BFVRelinearize(i)
    \/ InBFV /\ \E i \in UnarySlots : BFVEvalSquare(i)
    \/ InBFV /\ \E i \in UnarySlots : BFVEvalAddPlain(i)
    \/ InBFV /\ \E i \in UnarySlots : BFVEvalSubPlain(i)
    \/ InBFV /\ \E i \in UnarySlots : BFVEvalMultPlain(i)
    \/ InBFV /\ \E i \in UnarySlots, power \in Powers : BFVMultByMonomial(i, power)
    \/ InBFV /\ \E i \in UnarySlots : BFVEvalAutomorphism(i)

MCSpec == MCInit /\ [][MCNext]_<<vars, bfvVars, tech>>

=============================================================================
