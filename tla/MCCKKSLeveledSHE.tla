-------------------------- MODULE MCCKKSLeveledSHE --------------------------
(***************************************************************************)
(* Small instances of CKKSLeveledSHE, for each of the scaling techniques a *)
(* context may be made with.  The weights of the primes are such that no   *)
(* two different products of up to four of them have the same logarithm:   *)
(* an adjustment by the wrong prime is visible.                            *)
(***************************************************************************)
EXTENDS CKKSLeveledSHE, TLC

CONSTANTS r1, r2,
          Techniques    \* the techniques a context may be made with

MCRegs == {r1, r2}

Symmetric == Permutations(MCRegs)

\* log(q_0 ... q_{i-1}): the weights of q_0, q_1, ... are 1000, 307, 311, 331, 359.
MCLogModulus == [i \in 0 .. SizeQ |-> <<0, 1000, 1307, 1618, 1949, 2308>>[i + 1]]

\* With the FIXED techniques every prime above q_0 weighs ApproxSF.
MCFixedLogModulus == [i \in 0 .. SizeQ |-> IF i = 0 THEN 0 ELSE 1000 + (i - 1) * ApproxSF]

\* The table PrecomputeCRTTables fills, computed by its recurrence.
MCScalingTable(extra) ==
    LET Q(i) == MCLogModulus[i + 1] - MCLogModulus[i]
        sf[k \in 0 .. (SizeQ - 1)] ==
            IF k <= extra THEN Q(SizeQ - 1 - k) ELSE 2 * sf[k - 1] - Q(SizeQ - k)
    IN  sf

MCScalingFactorsReal == MCScalingTable(0)

MCExtFactorsReal == MCScalingTable(1)

\* The FIXED techniques do not fill the table.
MCNoTable == [k \in 0 .. (SizeQ - 1) |-> 0]

-----------------------------------------------------------------------------
(***************************************************************************)
(* The same program in a context of another technique.                     *)
(***************************************************************************)

VARIABLE tech

EXT == INSTANCE CKKSLeveledSHE
           WITH ScalTech <- "FLEXIBLEAUTOEXT", MultDepth <- MultDepth - 1,
                ScalingFactorsReal <- MCExtFactorsReal

MANUAL == INSTANCE CKKSLeveledSHE
           WITH ScalTech <- "FIXEDMANUAL", LogModulus <- MCFixedLogModulus,
                ScalingFactorsReal <- MCNoTable, AliasedOperands <- TRUE

MCInit == Init /\ tech \in Techniques

MCNext ==
    \/ tech = ScalTech /\ Next /\ UNCHANGED tech
    \/ tech = "FLEXIBLEAUTOEXT" /\ EXT!Next /\ UNCHANGED tech
    \/ tech = "FIXEDMANUAL" /\ MANUAL!Next /\ UNCHANGED tech

MCSpec == MCInit /\ [][MCNext]_<<vars, tech>>

\* With manual rescaling Decode derives the scale from the degree and the
\* number of towers (CKKSPackedEncoding::Decode), and it is the true one.
ManualDecodesAtTrueScale == tech = "FIXEDMANUAL" => MANUAL!DecodesAtTrueScale

=============================================================================
