-------------------------------- MODULE RNS --------------------------------
(***************************************************************************)
(* The residue number system of DCRTPoly: an element is kept as one        *)
(* residue per modulus of its basis, and moved between bases, scaled and   *)
(* rounded on the residues alone.  All of it works coefficient by          *)
(* coefficient, so an element is one coefficient here: a sequence x of     *)
(* residues over a sequence q of coprime moduli.  The tables that the code *)
(* precomputes are the arguments of the operators, as they are in the      *)
(* code.                                                                   *)
(*                                                                         *)
(* Where the code sums fractions in doubles, the sum is exact here and     *)
(* then drifts by some quarters, the error that the comments of            *)
(* ScaleAndRound allow.                                                    *)
(***************************************************************************)
EXTENDS Integers, Sequences, FiniteSets, Functions

Total(s) == FoldFunction(+, 0, s)

(* GetWorkingModulus. *)
Modulus(q) == FoldFunction(LAMBDA a, b : a * b, 1, q)

ModulusMod(q, m) == FoldFunction(LAMBDA a, b : (a * b) % m, 1 % m, q)

InverseMod(a, m) ==
    LET inverse == [r \in {a % m} |-> CHOOSE b \in 0 .. (m - 1) : (r * b) % m = 1 % m]
    IN  inverse[a % m]

Msb(n) ==
    LET width == [v \in {n} |-> CHOOSE k \in 0 .. 30 : 2 ^ k > v /\ (k = 0 \/ 2 ^ (k - 1) <= v)]
    IN  width[n]

(* The residues of an integer. *)
Towers(v, q) == [i \in DOMAIN q |-> v % q[i]]

Plus(x, y, q) == [i \in DOMAIN q |-> (x[i] + y[i]) % q[i]]

Minus(x, y, q) == [i \in DOMAIN q |-> (x[i] - y[i]) % q[i]]

(* The product of a tower with a constant of its own. *)
Times(x, c, q) == [i \in DOMAIN q |-> (x[i] * c[i]) % q[i]]

(* A residue above half of its modulus stands for a negative number. *)
SwitchModulus(v, old, new) == (IF v > old \div 2 THEN v - old ELSE v) % new

-----------------------------------------------------------------------------
(***************************************************************************)
(* The precomputed tables.                                                 *)
(***************************************************************************)

(* [Q / q_i]_m. *)
HatMod(q, i, m) == ModulusMod([q EXCEPT ![i] = 1], m)

(* [(Q / q_i)^{-1}]_{q_i}. *)
HatInv(q) == [i \in DOMAIN q |-> InverseMod(HatMod(q, i, q[i]), q[i])]

(* [Q / q_i]_{p_j}, by j and i. *)
HatsMod(q, p) == [j \in DOMAIN p |-> [i \in DOMAIN q |-> HatMod(q, i, p[j])]]

(* [alpha Q]_{p_j} for 0 <= alpha <= sizeQ. *)
AlphaMod(q, p) ==
    [alpha \in 0 .. Len(q) |-> [j \in DOMAIN p |-> (alpha * ModulusMod(q, p[j])) % p[j]]]

(* The product of the numbers in f, divided by q and reduced by m. *)
QuotientMod(f, q, m) ==
    IF \E k \in DOMAIN f : f[k] = q
    THEN HatMod(f, CHOOSE k \in DOMAIN f : f[k] = q, m)
    ELSE ((ModulusMod(f, m) - ModulusMod(f, q)) * InverseMod(q, m)) % m

(* What scales a number over the moduli in \o out by t / in and leaves it in *)
(* the basis out: for each modulus of out the integer parts for the moduli   *)
(* of in, then the one for itself.                                          *)
DivsMod(t, in, out) ==
    LET inv(k) == HatInv(in \o out)[k]
    IN  [j \in DOMAIN out |->
            [i \in 1 .. (Len(in) + 1) |->
                IF i <= Len(in)
                THEN QuotientMod(<<t, inv(i)>> \o out, in[i], out[j])
                ELSE QuotientMod(<<t, inv(Len(in) + j)>> \o out, out[j], out[j])]]

(* The fractions that go with them, as numerators over the moduli of in. *)
DivsFrac(t, in, out) ==
    [i \in DOMAIN in |-> ModulusMod(<<t, HatInv(in \o out)[i]>> \o out, in[i])]

-----------------------------------------------------------------------------
(***************************************************************************)
(* floor(sum of n[i] / d[i] + quarters / 4).                               *)
(***************************************************************************)

FloorOver(n, d, D, quarters) ==
    Total([i \in DOMAIN d |-> n[i] \div d[i]])
    + (4 * Total([i \in DOMAIN d |-> (n[i] % d[i]) * (D \div d[i])]) + quarters * D) \div (4 * D)

FloorSum(n, d, quarters) == FloorOver(n, d, Modulus(d), quarters)

Rounded(n, d, drift) == FloorSum(n, d, 2 + drift)

-----------------------------------------------------------------------------
(***************************************************************************)
(* Exact conversions.                                                      *)
(***************************************************************************)

CRTInterpolate(x, q) ==
    Total([i \in DOMAIN q |-> ((x[i] * HatInv(q)[i]) % q[i]) * (Modulus(q) \div q[i])]) % Modulus(q)

(* Mutant: the overflows of Q are left in, as ApproxSwitchCRTBasis does. *)
SwitchTermsApprox(y, q, p, QHatModp, alphaQModp, drift) ==
    [j \in DOMAIN p |-> Total([i \in DOMAIN q |-> y[i] * QHatModp[j][i]]) % p[j]]

(* The number of overflows of Q is what the doubles tell. *)
SwitchTerms(y, q, p, QHatModp, alphaQModp, drift) ==
    [j \in DOMAIN p |->
        (Total([i \in DOMAIN q |-> y[i] * QHatModp[j][i]]) - alphaQModp[Rounded(y, q, drift)][j]) % p[j]]

SwitchCRTBasis(x, q, p, QHatInvModq, QHatModp, alphaQModp, drift) ==
    SwitchTerms(Times(x, QHatInvModq, q) \o <<>>, q, p, QHatModp, alphaQModp, drift)

ExpandCRTBasis(x, q, p, QHatInvModq, QHatModp, alphaQModp, drift) ==
    x \o SwitchCRTBasis(x, q, p, QHatInvModq, QHatModp, alphaQModp, drift)

(* x P / Q, carried by the fractions alone, in the basis Ql \o Pl. *)
FastExpandTerms(y, q, pl, qInvModp) ==
    [j \in DOMAIN pl |-> Total([i \in DOMAIN q |-> y[i] * qInvModp[i][j]]) % pl[j]]

FastExpandCRTBasisPloverQ(x, q, ql, pl, mPlQHatInvModq, qInvModp, PlHatInvModp, PlHatModq, alphaPlModq, drift) ==
    LET Both(partPl) == SwitchCRTBasis(partPl, pl, ql, PlHatInvModp, PlHatModq, alphaPlModq, drift)
                        \o partPl
    IN  Both(FastExpandTerms(Times(x, mPlQHatInvModq, q) \o <<>>, q, pl, qInvModp) \o <<>>)

(* Back from Ql to Q: the number times Q / Ql. *)
ExpandCRTBasisQlHat(x, q, QlHatModq) ==
    [i \in DOMAIN q |-> IF i <= Len(x) THEN (x[i] * QlHatModq[i]) % q[i] ELSE 0]

-----------------------------------------------------------------------------
(***************************************************************************)
(* Scaling.                                                                *)
(***************************************************************************)

(* The message times Q / t. *)
TimesQovert(x, q, tInvModq, t, NegQModt) ==
    [i \in DOMAIN q |-> (((x[i] * NegQModt) % t) * tInvModq[i]) % q[i]]

(* Without the last modulus of the basis: a floor. *)
ScaleAndRoundPOverQ(x, q, pInvModq) ==
    [i \in DOMAIN q |-> (((x[i] - x[Len(q) + 1]) % q[i]) * pInvModq[i]) % q[i]]

ScaleTerms(in, own, inModuli, out, Modo, Frac, drift) ==
    LET alpha == Rounded([i \in DOMAIN in |-> in[i] * Frac[i]], inModuli, drift)
    IN  [j \in DOMAIN out |->
            (Total([i \in DOMAIN in |-> in[i] * Modo[j][i]])
             + own[j] * Modo[j][Len(in) + 1] + alpha) % out[j]]

(* The output basis is the front of the input basis or its back. *)
ScaleAndRound(x, basis, out, Modo, Frac, drift) ==
    LET sizeO == Len(out)
        sizeI == Len(basis) - sizeO
    IN  IF out[1] = basis[1]
        THEN ScaleTerms(SubSeq(x, sizeO + 1, Len(x)), SubSeq(x, 1, sizeO),
                        SubSeq(basis, sizeO + 1, Len(basis)), out, Modo, Frac, drift)
        ELSE ScaleTerms(SubSeq(x, 1, sizeI), SubSeq(x, sizeI + 1, Len(x)),
                        SubSeq(basis, 1, sizeI), out, Modo, Frac, drift)

(* Decryption.  The residues are cut in two digits of half a modulus when    *)
(* their fractions would not fit in a double; the sum of the integer parts   *)
(* and the fractions is then reduced modulo t.                             *)
DigitSums(lo, hi, q, t, DivqModt, DivqFrac, BDivqModt, BDivqFrac, drift) ==
    LET intSum == Total([i \in DOMAIN q |-> lo[i] * DivqModt[i] + hi[i] * BDivqModt[i]])
        n == [i \in DOMAIN q |-> lo[i] * DivqFrac[i] + hi[i] * BDivqFrac[i]]
        quot == (intSum + FloorSum(n, q, drift)) \div t
    IN  IF \E k \in 0 .. Msb(t) : t = 2 ^ k
        THEN (intSum + Rounded(n, q, drift)) % t
        ELSE intSum + Rounded(n, q, drift) - t * (IF quot < 0 THEN 0 ELSE quot)

DecryptScaleAndRound(x, q, t, DivqModt, DivqFrac, BDivqModt, BDivqFrac, doubleBits, drift) ==
    LET half == Msb(q[1]) \div 2
        split == Msb(q[1]) + Msb(Len(q)) >= doubleBits
        Low(v) == IF split THEN v % 2 ^ half ELSE v
        High(v) == IF split THEN v \div 2 ^ half ELSE 0
    IN  DigitSums([i \in DOMAIN q |-> Low(x[i])], [i \in DOMAIN q |-> High(x[i])], q, t,
                  DivqModt, DivqFrac, BDivqModt, BDivqFrac, drift)

-----------------------------------------------------------------------------
(***************************************************************************)
(* Approximate conversions, for key switching: the number may come out with *)
(* a few multiples of Q added.  The build without 128-bit integers takes     *)
(* each term through SwitchModulus.                                        *)
(***************************************************************************)

ApproxTerms(y, q, p, QHatModp, int128) ==
    LET Term(i, j) == IF int128 THEN y[i] ELSE SwitchModulus(y[i], q[i], p[j])
    IN  [j \in DOMAIN p |-> Total([i \in DOMAIN q |-> Term(i, j) * QHatModp[j][i]]) % p[j]]

ApproxSwitchCRTBasis(x, q, p, QHatInvModq, QHatModp, int128) ==
    ApproxTerms(Times(x, QHatInvModq, q) \o <<>>, q, p, QHatModp, int128)

ApproxModDown(x, q, p, PInvModq, PHatInvModp, PHatModq, int128) ==
    LET Down(inQ) == [i \in DOMAIN q |-> (((x[i] - inQ[i]) % q[i]) * PInvModq[i]) % q[i]]
    IN  Down(ApproxSwitchCRTBasis(SubSeq(x, Len(q) + 1, Len(x)), p, q, PHatInvModp, PHatModq, int128)
             \o <<>>)

(* The digits of a tower, one tower after the other: <<tower, digit>>. *)
Windows(q, baseBits) ==
    LET perTower(i) == IF baseBits = 0 THEN 1 ELSE (Msb(q[i]) + baseBits - 1) \div baseBits
        all == {<<i, k>> \in (DOMAIN q) \X (0 .. 30) : k < perTower(i)}
        before(w) == {v \in all : v[1] < w[1] \/ (v[1] = w[1] /\ v[2] < w[2])}
    IN  [n \in 1 .. Cardinality(all) |-> CHOOSE w \in all : Cardinality(before(w)) = n - 1]

CRTDecompose(x, q, baseBits, windows) ==
    LET Digit(w) == IF baseBits = 0 THEN x[w[1]]
                    ELSE (x[w[1]] \div 2 ^ (w[2] * baseBits)) % 2 ^ baseBits
    IN  [n \in DOMAIN windows |->
            [j \in DOMAIN q |->
                IF j = windows[n][1] THEN Digit(windows[n])
                ELSE SwitchModulus(Digit(windows[n]), q[windows[n][1]], q[j])]]
-----------------------------------------------------------------------------
(***************************************************************************)
(* The conversions of BEHZ: to the basis B with the modulus msk added, and   *)
(* back.  mtilde is a power of two below every modulus of Bsk.             *)
(***************************************************************************)

(* The multiple of Q that the residue modulo mtilde tells is taken off. *)
Montgomery(y, r, bsk, mtilde, QHatModbsk, QModbsk, mtildeInvModbsk) ==
    [j \in DOMAIN bsk |->
        (((IF r >= mtilde \div 2 THEN r + bsk[j] - mtilde ELSE r) * QModbsk[j]
          + Total([i \in DOMAIN y |-> y[i] * QHatModbsk[j][i]])) * mtildeInvModbsk[j]) % bsk[j]]

FastBaseConvqToBskMontgomery(x, q, bsk, mtilde, mtildeQHatInvModq, QHatModbsk, QHatModmtilde, QModbsk, negQInvModmtilde, mtildeInvModbsk) ==
    LET Convert(y) ==
            x \o Montgomery(y, (Total([i \in DOMAIN y |-> y[i] * QHatModmtilde[i]]) * negQInvModmtilde)
                               % mtilde, bsk, mtilde, QHatModbsk, QModbsk, mtildeInvModbsk)
    IN  Convert(Times(x, mtildeQHatInvModq, q) \o <<>>)

(* t x / Q, up to the multiples of Q that the conversion leaves in x. *)
FastRNSFloorq(x, q, bsk, tQHatInvModq, qInvModbsk, tQInvModbsk) ==
    LET Floor(y) == [j \in DOMAIN bsk |->
                        (x[Len(q) + j] * tQInvModbsk[j]
                         - Total([i \in DOMAIN q |-> y[i] * qInvModbsk[i][j]])) % bsk[j]]
    IN  Floor(Times(x, tQHatInvModq, q) \o <<>>)

(* The overflows of B are told by the residue modulo msk, centred. *)
FromB(y, xsk, q, msk, BHatModmsk, BInvModmsk, BHatModq, BModq) ==
    LET alpha == ((Total([i \in DOMAIN y |-> y[i] * BHatModmsk[i]]) - xsk) * BInvModmsk) % msk
        Centred(m) == IF alpha > msk \div 2
                      THEN IF alpha >= msk THEN alpha - msk ELSE alpha + m - msk
                      ELSE alpha
    IN  [j \in DOMAIN q |->
            (Total([i \in DOMAIN y |-> y[i] * BHatModq[j][i]]) - Centred(q[j]) * BModq[j]) % q[j]]

FastBaseConvSK(x, q, bsk, BHatInvModb, BHatModmsk, BInvModmsk, BHatModq, BModq) ==
    LET sizeB == Len(bsk) - 1
    IN  FromB(Times(SubSeq(x, 1, sizeB), BHatInvModb, SubSeq(bsk, 1, sizeB)) \o <<>>,
              x[Len(bsk)], q, bsk[Len(bsk)], BHatModmsk, BInvModmsk, BHatModq, BModq)

(* Decryption: the rounding is that of the bits below gamma. *)
GammaScaleAndRound(x, q, t, gamma, tgammaQHatInvModq, negInvqModtgamma) ==
    LET Shifted(s) == (s + (s % gamma)) \div gamma
    IN  Shifted(Total([i \in DOMAIN q |->
                    ((x[i] * tgammaQHatInvModq[i]) % q[i]) * negInvqModtgamma[i]]) % (t * gamma))

=============================================================================
