------------------------------- MODULE BFVRNS -------------------------------
(***************************************************************************)
(* The BFV scheme in the residue number system: its precomputed tables,    *)
(* key generation, encryption, the four multiplication techniques, the two *)
(* key switching techniques and decryption, with every number kept as its  *)
(* residues.  A ring element is a sequence of N coefficients, each a       *)
(* sequence of residues (module RNS).                                      *)
(*                                                                         *)
(* Random elements are drawn from small sets: secrets and the ephemeral    *)
(* key of an encryption are ternary, errors are bounded by ErrorBound, and *)
(* the uniform elements are the residues of a few integers.                *)
(***************************************************************************)
EXTENDS RNS

CONSTANTS
    N,              \* the ring dimension, a power of two
    ModuliQ,        \* the ciphertext moduli
    NumPartQ,       \* the digits of HYBRID key switching
    AuxBits,        \* the bits of its auxiliary primes: 60
    LogMtilde,      \* of BEHZ: 16
    LogGamma,       \* of BEHZ: 26
    Cushion,        \* the bits that FindLevelsToDrop keeps in reserve: 16
    Setups,         \* the crypto contexts: records of the choices below
    Secrets, Masks, Errors,
    Messages,       \* the messages encrypted into each slot
    ErrorBound,     \* the bound of the errors
    Powers,         \* of the monomials
    UnarySlots,     \* the slots that operations on one ciphertext work on
    BFVMaxDepth,    \* multiplications of a ciphertext
    BFVMaxSteps     \* operations after the keys are made

VARIABLES
    context,        \* the crypto context
    keys,           \* the keys
    cts,            \* the ciphertexts by slot
    steps           \* operations done

bfvVars == <<context, keys, cts, steps>>

(* A crypto context chooses the multiplication technique, the encryption     *)
(* technique, the key switching technique with the digit size of BV, the     *)
(* plaintext modulus, the build, and whether its moduli are too wide for the *)
(* fractions of a residue to fit in a double.                              *)
SetupType ==
    [mult : {"HPS", "HPSPOVERQ", "HPSPOVERQLEVELED", "BEHZ"}, enc : {"STANDARD", "EXTENDED"},
     ks : {"BV", "HYBRID"}, digitSize : 0 .. 60, t : Nat, int128 : BOOLEAN, wide : BOOLEAN]

NumQ == Len(ModuliQ)

Slots == {1, 2}

-----------------------------------------------------------------------------
(***************************************************************************)
(* Bases.  All of them are primes of the form 2 N k + 1.                    *)
(***************************************************************************)

IsPrime(p) == p > 1 /\ \A d \in 2 .. (p - 1) : d * d > p \/ p % d # 0

(* PreviousPrime and FirstPrime walk along these. *)
NTTPrimes == {p \in 2 .. 2 ^ (AuxBits + 1) : p % (2 * N) = 1 /\ IsPrime(p)}

(* The count largest of a set, in order. *)
Descending(primes, count) ==
    [j \in 1 .. count |-> CHOOSE p \in primes : Cardinality({r \in primes : r > p}) = j - 1] \o <<>>

(* The primes below the last modulus of Q, one more than Q has. *)
ModuliR == Descending({p \in NTTPrimes : p < ModuliQ[NumQ]}, NumQ + 1)

(* BEHZ takes the last of them for msk. *)
ModuliBsk == ModuliR

(* It would look for a larger msk otherwise. *)
ASSUME MskLargeEnough ==
    Modulus(ModuliBsk) >= 2 * N * Modulus(ModuliQ) * (CHOOSE t \in {s.t : s \in Setups} :
                                                        \A s \in Setups : s.t <= t)

ModuliQr == Append(ModuliQ, ModuliR[1])

Ql(l) == SubSeq(ModuliQ, 1, l)

Rl(l) == SubSeq(ModuliR, 1, l)

(* The towers of a digit of HYBRID. *)
NumPerPartQ == (NumQ + NumPartQ - 1) \div NumPartQ

ASSUME DigitsDistribute == NumQ > NumPerPartQ * (NumPartQ - 1)

Least(a, b) == IF a < b THEN a ELSE b

PartQ(part, l) == SubSeq(ModuliQ, NumPerPartQ * (part - 1) + 1, Least(NumPerPartQ * part, l))

(* The auxiliary primes: enough bits for the widest digit, none of Q's. *)
SizeP ==
    LET bits == {Msb(Modulus(PartQ(part, NumQ))) : part \in 1 .. NumPartQ}
    IN  ((CHOOSE b \in bits : \A c \in bits : c <= b) + AuxBits - 1) \div AuxBits

FirstPrime == CHOOSE p \in NTTPrimes : p > 2 ^ AuxBits /\ \A r \in NTTPrimes : r > 2 ^ AuxBits => p <= r

ModuliP ==
    Descending({p \in NTTPrimes : p < FirstPrime /\ \A i \in 1 .. NumQ : p # ModuliQ[i]}, SizeP)

ComplPartQ(part, l) ==
    SubSeq(ModuliQ, 1, NumPerPartQ * (part - 1)) \o SubSeq(ModuliQ, NumPerPartQ * part + 1, l) \o ModuliP
-----------------------------------------------------------------------------
(***************************************************************************)
(* The tables.  l counts the moduli of Ql and Rl.                           *)
(***************************************************************************)

PlainModuli == {s.t : s \in Setups}

(* Encryption. *)
TInvMod == [t \in PlainModuli |-> [i \in 1 .. (NumQ + 1) |-> InverseMod(t, ModuliQr[i])]]

NegQModt == [t \in PlainModuli |-> t - ModulusMod(ModuliQ, t)]

NegQrModt == [t \in PlainModuli |-> t - ModulusMod(ModuliQr, t)]

RInvModq == [i \in 1 .. NumQ |-> InverseMod(ModuliR[1], ModuliQ[i])]

(* Expansion to Ql Rl, and from Rl to Q. *)
QlHatInvModq == [l \in 1 .. NumQ |-> HatInv(Ql(l))]

QlHatModr == [l \in 1 .. NumQ |-> HatsMod(Ql(l), ModuliR)]

AlphaQlModr == [l \in 1 .. NumQ |-> AlphaMod(Ql(l), ModuliR)]

RlHatInvModr == [l \in 1 .. (NumQ + 1) |-> HatInv(Rl(l))]

RlHatModq == [l \in 1 .. (NumQ + 1) |-> HatsMod(Rl(l), ModuliQ)]

AlphaRlModq == [l \in 1 .. (NumQ + 1) |-> AlphaMod(Rl(l), ModuliQ)]

NegRlQHatInvModq ==
    [l \in 1 .. NumQ |-> [i \in 1 .. NumQ |->
        ModuliQ[i] - ((ModulusMod(Rl(l), ModuliQ[i]) * QlHatInvModq[NumQ][i]) % ModuliQ[i])]]

QInvModr == [i \in 1 .. NumQ |-> [j \in 1 .. (NumQ + 1) |-> InverseMod(ModuliQ[i], ModuliR[j])]]

(* Scaling by t / Q into R, by t / Rl into Ql, and from Q to Ql and back. *)
TRSHatInvModsDivsModr == [t \in PlainModuli |-> DivsMod(t, ModuliQ, ModuliR)]

TRSHatInvModsDivsFrac == [t \in PlainModuli |-> DivsFrac(t, ModuliQ, ModuliR)]

TQlSlHatInvModsDivsModq ==
    [t \in PlainModuli |-> [l \in 1 .. NumQ |-> DivsMod(t, Rl(l), Ql(l))]]

TQlSlHatInvModsDivsFrac ==
    [t \in PlainModuli |-> [l \in 1 .. NumQ |-> DivsFrac(t, Rl(l), Ql(l))]]

QlQHatInvModqDivqModq == [l \in 1 .. NumQ |-> DivsMod(1, SubSeq(ModuliQ, l + 1, NumQ), Ql(l))]

QlQHatInvModqDivqFrac == [l \in 1 .. NumQ |-> DivsFrac(1, SubSeq(ModuliQ, l + 1, NumQ), Ql(l))]

QlHatModq ==
    [l \in 1 .. NumQ |-> [i \in 1 .. l |-> ModulusMod(SubSeq(ModuliQ, l + 1, NumQ), ModuliQ[i])]]

(* Decryption; the second pair is for the high digits of the residues. *)
TQHatInvModqDivqModt ==
    [t \in PlainModuli |-> [i \in 1 .. NumQ |->
        ((t * QlHatInvModq[NumQ][i]) \div ModuliQ[i]) % t]]

TQHatInvModqDivqFrac ==
    [t \in PlainModuli |-> [i \in 1 .. NumQ |-> (t * QlHatInvModq[NumQ][i]) % ModuliQ[i]]]

HighDigit == 2 ^ (Msb(ModuliQ[1]) \div 2)

TQHatInvModqBDivqModt ==
    [t \in PlainModuli |-> [i \in 1 .. NumQ |->
        ((t * QlHatInvModq[NumQ][i] * HighDigit) \div ModuliQ[i]) % t]]

TQHatInvModqBDivqFrac ==
    [t \in PlainModuli |-> [i \in 1 .. NumQ |->
        (t * QlHatInvModq[NumQ][i] * HighDigit) % ModuliQ[i]]]

(* BEHZ: to Bsk, the floor, back to Q, and decryption. *)
Mtilde == 2 ^ LogMtilde

Gamma == 2 ^ LogGamma

ASSUME MtildeBelowBsk == \A j \in 1 .. (NumQ + 1) : Mtilde < ModuliBsk[j]

Msk == ModuliBsk[NumQ + 1]

ModuliB == SubSeq(ModuliBsk, 1, NumQ)

TQHatInvModq ==
    [t \in PlainModuli |-> [i \in 1 .. NumQ |-> (QlHatInvModq[NumQ][i] * t) % ModuliQ[i]]]

QHatModbsk == HatsMod(ModuliQ, ModuliBsk)

QHatModmtilde == [i \in 1 .. NumQ |-> HatMod(ModuliQ, i, Mtilde)]

QInvModbsk == [i \in 1 .. NumQ |-> [j \in 1 .. (NumQ + 1) |-> InverseMod(ModuliQ[i], ModuliBsk[j])]]

MtildeQHatInvModq == [i \in 1 .. NumQ |-> (QlHatInvModq[NumQ][i] * Mtilde) % ModuliQ[i]]

NegQInvModmtilde == ((Mtilde - 1) * InverseMod(ModulusMod(ModuliQ, Mtilde), Mtilde)) % Mtilde

QModbsk == [j \in 1 .. (NumQ + 1) |-> ModulusMod(ModuliQ, ModuliBsk[j])]

MtildeInvModbsk == [j \in 1 .. (NumQ + 1) |-> InverseMod(Mtilde, ModuliBsk[j])]

TQInvModbsk ==
    [t \in PlainModuli |-> [j \in 1 .. (NumQ + 1) |->
        (InverseMod(QModbsk[j], ModuliBsk[j]) * t) % ModuliBsk[j]]]

BHatInvModb == HatInv(ModuliB)

BHatModq == HatsMod(ModuliB, ModuliQ)

BHatModmsk == [i \in 1 .. NumQ |-> HatMod(ModuliB, i, Msk)]

BInvModmsk == InverseMod(ModulusMod(ModuliB, Msk), Msk)

BModq == [i \in 1 .. NumQ |-> ModulusMod(ModuliB, ModuliQ[i])]

NegInvqModtgamma ==
    [t \in PlainModuli |-> [i \in 1 .. NumQ |->
        ((t * Gamma - 1) * InverseMod(ModuliQ[i], t * Gamma)) % (t * Gamma)]]

TgammaQHatInvModq ==
    [t \in PlainModuli |-> [i \in 1 .. NumQ |->
        (((QlHatInvModq[NumQ][i] * Gamma) % ModuliQ[i]) * t) % ModuliQ[i]]]

(* HYBRID key switching. *)
ModuliQP == ModuliQ \o ModuliP

PModq == [i \in 1 .. NumQ |-> ModulusMod(ModuliP, ModuliQ[i])]

PInvModq == [i \in 1 .. NumQ |-> InverseMod(PModq[i], ModuliQ[i])]

PHatInvModp == HatInv(ModuliP)

PHatModq == HatsMod(ModuliP, ModuliQ)

NumPartQl(l) == Least((l + NumPerPartQ - 1) \div NumPerPartQ, NumPartQ)

PartQlHatInvModq ==
    [l \in 1 .. NumQ |-> [part \in 1 .. NumPartQl(l) |-> HatInv(PartQ(part, l))]]

PartQlHatModp ==
    [l \in 1 .. NumQ |-> [part \in 1 .. NumPartQl(l) |->
        HatsMod(PartQ(part, l), ComplPartQ(part, l))]]

(* The digits of BV, for ciphertexts over the first l moduli. *)
DigitWindows ==
    [d \in {s.digitSize : s \in Setups} |-> [l \in 1 .. (NumQ + 1) |->
        Windows(SubSeq(ModuliQr, 1, l), d)]]

-----------------------------------------------------------------------------
(***************************************************************************)
(* Ring elements.                                                          *)
(***************************************************************************)

Coefficients == 1 .. N

(* The element whose coefficients are the integers v. *)
Element(v, q) == [k \in Coefficients |-> Towers(v[k], q) \o <<>>] \o <<>>

Each(Op(_), x) == [k \in Coefficients |-> Op(x[k]) \o <<>>] \o <<>>

Add(x, y, q) == [k \in Coefficients |-> Plus(x[k], y[k], q) \o <<>>] \o <<>>

Subtract(x, y, q) == [k \in Coefficients |-> Minus(x[k], y[k], q) \o <<>>] \o <<>>

(* The product modulo x^N + 1. *)
Mul(x, y, q) ==
    [k \in Coefficients |-> [i \in DOMAIN q |->
        Total([m \in Coefficients |->
            IF m <= k THEN x[m][i] * y[k - m + 1][i] ELSE -(x[m][i] * y[N + k - m + 1][i])]) % q[i]]
        \o <<>>] \o <<>>

Automorphism(x, g, q) ==
    LET from(k) == CHOOSE m \in 0 .. (N - 1) : (m * g) % N = k - 1
    IN  [k \in Coefficients |-> [i \in DOMAIN q |->
            (IF (from(k) * g) % (2 * N) >= N THEN -x[from(k) + 1][i] ELSE x[from(k) + 1][i]) % q[i]]
            \o <<>>] \o <<>>

DropTo(x, l) == [k \in Coefficients |-> SubSeq(x[k], 1, l)] \o <<>>

Zero(q) == Element([k \in Coefficients |-> 0], q)

Sum(f, q) == FoldFunction(LAMBDA x, y : Add(x, y, q), Zero(q), f)

-----------------------------------------------------------------------------
(***************************************************************************)
(* Keys.  An evaluation key is a pair of vectors of elements, a and b.      *)
(***************************************************************************)

KeyBasis(c) == IF c.enc = "EXTENDED" THEN ModuliQr ELSE ModuliQ

(* A uniform element for each digit of a key. *)
Mask(v, w, q) == Element([k \in Coefficients |-> v[k] * w], q)

KeySwitchGenBV(c, sOld, sNew, mask, e) ==
    LET q == KeyBasis(c)
        windows == DigitWindows[c.digitSize][Len(q)]
        Power(w) == [k \in Coefficients |-> [j \in DOMAIN q |->
                        IF j # w[1] THEN 0 ELSE (sOld[k][j] * 2 ^ (w[2] * c.digitSize)) % q[j]]]
    IN  [a |-> [n \in DOMAIN windows |-> Mask(mask, n, q)],
         b |-> [n \in DOMAIN windows |->
                    Subtract(Power(windows[n]), Add(Mul(Mask(mask, n, q), sNew, q), Element(e, q), q), q)]]

KeySwitchGenHYBRID(sOld, sNew, mask, e) ==
    LET sNewExt == [k \in Coefficients |->
                        SubSeq(sNew[k], 1, NumQ)
                        \o [j \in 1 .. SizeP |-> SwitchModulus(sNew[k][1], ModuliQ[1], ModuliP[j])]]
        InPart(part, i) == NumPerPartQ * (part - 1) < i /\ i <= Least(NumPerPartQ * part, NumQ)
        PsOld(part) == [k \in Coefficients |-> [i \in DOMAIN ModuliQP |->
                            IF InPart(part, i) THEN (PModq[i] * sOld[k][i]) % ModuliQ[i] ELSE 0]]
    IN  [a |-> [part \in 1 .. NumPartQ |-> Mask(mask, part, ModuliQP)],
         b |-> [part \in 1 .. NumPartQ |->
                    Add(Subtract(PsOld(part), Mul(Mask(mask, part, ModuliQP), sNewExt, ModuliQP), ModuliQP),
                        Element(e, ModuliQP), ModuliQP)]]

KeySwitchGen(c, sOld, sNew, mask, e) ==
    IF c.ks = "BV" THEN KeySwitchGenBV(c, sOld, sNew, mask, e)
    ELSE KeySwitchGenHYBRID(sOld, sNew, mask, e)

(* x over the first l moduli, times the old secret, as a pair under the new. *)
KeySwitchCoreBV(c, x, l, ek) ==
    LET q == Ql(l)
        digits == [k \in Coefficients |-> CRTDecompose(x[k], q, c.digitSize, DigitWindows[c.digitSize][l])]
        Digit(n) == [k \in Coefficients |-> digits[k][n]]
        Inner(v) == Sum([n \in DOMAIN DigitWindows[c.digitSize][l] |-> Mul(Digit(n), v[n], q)], q)
    IN  <<Inner(ek.b), Inner(ek.a)>>

EvalKeySwitchPrecomputeCore(x, l, int128) ==
    [part \in 1 .. NumPartQl(l) |->
        LET q == PartQ(part, l)
            first == NumPerPartQ * (part - 1)
            Extended(y, compl) == SubSeq(compl, 1, first) \o y \o SubSeq(compl, first + 1, Len(compl))
            Digit(y) == Extended(y, ApproxSwitchCRTBasis(y, q, ComplPartQ(part, l),
                            PartQlHatInvModq[l][part], PartQlHatModp[l][part], int128) \o <<>>)
        IN  Each(LAMBDA y : Digit(SubSeq(y, first + 1, first + Len(q))), x)]

EvalFastKeySwitchCoreExt(digits, l, v) ==
    LET q == Ql(l) \o ModuliP
        Of(y) == [k \in Coefficients |-> SubSeq(y[k], 1, l) \o SubSeq(y[k], NumQ + 1, NumQ + SizeP)]
    IN  Sum([part \in DOMAIN digits |-> Mul(digits[part], Of(v[part]), q)], q)

KeySwitchCoreHYBRID(c, x, l, ek) ==
    LET Down(y) == Each(LAMBDA z : ApproxModDown(z, Ql(l), ModuliP, PInvModq, PHatInvModp, PHatModq,
                                                 c.int128), y)
        Both(digits) == <<Down(EvalFastKeySwitchCoreExt(digits, l, ek.b)),
                          Down(EvalFastKeySwitchCoreExt(digits, l, ek.a))>>
    IN  Both(EvalKeySwitchPrecomputeCore(x, l, c.int128) \o <<>>)

KeySwitchCore(c, x, l, ek) ==
    IF c.ks = "BV" THEN KeySwitchCoreBV(c, x, l, ek) ELSE KeySwitchCoreHYBRID(c, x, l, ek)

-----------------------------------------------------------------------------
(***************************************************************************)
(* Encryption and decryption.                                              *)
(***************************************************************************)

EncryptZeroWithPublic(pk, v, e0, e1, q) ==
    <<Add(Mul(pk[1], Element(v, q), q), Element(e0, q), q),
      Add(Mul(pk[2], Element(v, q), q), Element(e1, q), q)>>

EncryptZeroWithSecret(s, a, e, q) ==
    <<Add(Mul(Element(a, q), s, q), Element(e, q), q), Element([k \in Coefficients |-> -a[k]], q)>>

EncryptScaled(c, m, zero) ==
    LET q == KeyBasis(c)
        negQ == IF c.enc = "EXTENDED" THEN NegQrModt[c.t] ELSE NegQModt[c.t]
        scaled == Each(LAMBDA y : TimesQovert(y, q, TInvMod[c.t], c.t, negQ), Element(m, q))
        Reduced(x) == IF c.enc = "EXTENDED"
                      THEN Each(LAMBDA y : ScaleAndRoundPOverQ(y, ModuliQ, RInvModq), x)
                      ELSE x
    IN  <<Reduced(Add(zero[1], scaled, q)), Reduced(zero[2])>>

DecryptCore(cv, s) ==
    LET sPower[n \in 2 .. 3] == IF n = 2 THEN s ELSE Mul(sPower[n - 1], s, ModuliQ)
    IN  Sum([n \in DOMAIN cv |-> IF n = 1 THEN cv[n] ELSE Mul(cv[n], sPower[n], ModuliQ)], ModuliQ)

Decrypt(c, cv, s, drift) ==
    LET Round(y) == IF c.mult = "BEHZ"
                    THEN GammaScaleAndRound(y, ModuliQ, c.t, Gamma, TgammaQHatInvModq[c.t],
                                            NegInvqModtgamma[c.t])
                    ELSE DecryptScaleAndRound(y, ModuliQ, c.t, TQHatInvModqDivqModt[c.t],
                                              TQHatInvModqDivqFrac[c.t], TQHatInvModqBDivqModt[c.t],
                                              TQHatInvModqBDivqFrac[c.t], IF c.wide THEN 0 ELSE 52, drift)
        Message(b) == [k \in Coefficients |-> Round(b[k])]
    IN  Message(DecryptCore(cv, DropTo(s, NumQ)))

-----------------------------------------------------------------------------
(***************************************************************************)
(* The noise that the library allows for, here twice the estimate so that  *)
(* its halves are integers.  Delta is the expansion factor 2 sqrt(N),       *)
(* rounded up; its square is exact.                                        *)
(***************************************************************************)

Delta == CHOOSE d \in 1 .. (4 * N) : d * d >= 4 * N /\ (d - 1) * (d - 1) < 4 * N

DcrtBits == Msb(ModuliQ[1])

Twice_Vnorm(c) == IF c.enc = "EXTENDED" THEN 1 + Delta ELSE 2 * ErrorBound * (1 + 2 * Delta)

(* log2q is the width of the modulus that the estimate asks for. *)
Twice_noiseKS(c, log2q) ==
    IF c.ks = "HYBRID" THEN NumPerPartQ * (NumPartQ * Delta * ErrorBound + Delta + 1)
    ELSE 2 * Delta * (log2q \div DcrtBits + 1) * ErrorBound
           * 2 ^ (IF c.digitSize = 0 THEN DcrtBits ELSE c.digitSize)

(* d multiplications, each followed by a key switching of noise ks. *)
Twice_Noise(c, d, ks) ==
    LET C1 == 4 * N * c.t
    IN  IF d = 0 THEN Twice_Vnorm(c) ELSE C1 ^ (d - 1) * (C1 * Twice_Vnorm(c) + d * (4 * N + ks))

(* Its logarithm, rounded down, is the width of 4 t times the noise; the     *)
(* noise of key switching depends on that width, starting from 10^6.        *)
Log2q(c, noise) == Msb(2 * c.t * noise) - 1

Converged(c, d) ==
    LET width[n \in 0 .. 3] ==
            IF n = 0 THEN Msb(1000000) - 1
            ELSE Log2q(c, Twice_Noise(c, d, Twice_noiseKS(c, width[n - 1])))
    IN  width[3]

Estimate == [c \in Setups |-> [d \in 0 .. BFVMaxDepth |->
                Twice_Noise(c, d, Twice_noiseKS(c, Converged(c, d)))]]

(* Mutant: the width of the last modulus that is dropped is not counted. *)
DropOneMore(c, d, keySwitch) ==
    LET fits == {k \in 0 .. (NumQ - 1) :
                    k = 0 \/ Estimate[c][d] >= 2 ^ ((k - 1) * DcrtBits + 2 * d + Cushion) * 2 * Delta}
    IN  CHOOSE k \in fits : \A j \in fits : j <= k

Drop(c, d, keySwitch) ==
    LET Extra == IF keySwitch THEN Twice_noiseKS(c, Log2q(c, Estimate[c][d])) ELSE 2 * Delta
        fits == {k \in 0 .. (NumQ - 1) :
                    k = 0 \/ Estimate[c][d] >= 2 ^ (k * DcrtBits + 2 * d + Cushion) * Extra}
    IN  CHOOSE k \in fits : \A j \in fits : j <= k

FindLevelsToDrop ==
    [c \in Setups |-> [d \in 0 .. BFVMaxDepth |-> [keySwitch \in BOOLEAN |-> Drop(c, d, keySwitch)]]]

(* Parameter generation has another estimate of HYBRID key switching, and   *)
(* gives the modulus two bits more than the constraint asks for at most.     *)
ParamsGenFits(c, d) ==
    LET ks == IF c.ks = "HYBRID" THEN 2 * (d + 1) * Delta * ErrorBound
              ELSE Twice_noiseKS(c, Converged(c, d))
    IN  2 * c.t * Twice_Noise(c, d, ks) <= 2 ^ (NumQ * DcrtBits - 1)

(* The multiplicative depth that the moduli are enough for. *)
Depth == [c \in Setups |-> CHOOSE d \in 0 .. BFVMaxDepth :
             /\ d = 0 \/ ParamsGenFits(c, d)
             /\ d = BFVMaxDepth \/ ~ParamsGenFits(c, d + 1)]

-----------------------------------------------------------------------------
(***************************************************************************)
(* Multiplication.  l is the number of moduli that remain.                  *)
(***************************************************************************)

Levels(c, deg, keySwitch) ==
    IF c.mult = "HPSPOVERQLEVELED" THEN NumQ - FindLevelsToDrop[c][deg - 1][keySwitch] ELSE NumQ

(* Q to Ql, dividing by the moduli dropped, and back. *)
ToQl(x, l, drift) ==
    Each(LAMBDA y : ScaleAndRound(y, ModuliQ, Ql(l), QlQHatInvModqDivqModq[l], QlQHatInvModqDivqFrac[l],
                                  drift), x)

FromQl(x, l) == Each(LAMBDA y : ExpandCRTBasisQlHat(y, ModuliQ, QlHatModq[l]), x)

(* The basis of the product, and the two operands in it. *)
ProductBasis(c, l) ==
    CASE c.mult = "HPS" -> ModuliQ \o ModuliR
      [] c.mult \in {"HPSPOVERQ", "HPSPOVERQLEVELED"} -> Ql(l) \o Rl(l)
      [] c.mult = "BEHZ" -> ModuliQ \o ModuliBsk

ExpandFirst(c, x, l, drift) ==
    CASE c.mult = "HPS" ->
            Each(LAMBDA y : ExpandCRTBasis(y, ModuliQ, ModuliR, QlHatInvModq[l], QlHatModr[l], AlphaQlModr[l],
                                           drift), x)
      [] c.mult \in {"HPSPOVERQ", "HPSPOVERQLEVELED"} ->
            Each(LAMBDA y : ExpandCRTBasis(y, Ql(l), Rl(l), QlHatInvModq[l], QlHatModr[l], AlphaQlModr[l],
                                           drift), IF l < NumQ THEN ToQl(x, l, drift) ELSE x)
      [] c.mult = "BEHZ" ->
            Each(LAMBDA y : FastBaseConvqToBskMontgomery(y, ModuliQ, ModuliBsk, Mtilde, MtildeQHatInvModq,
                                QHatModbsk, QHatModmtilde, QModbsk, NegQInvModmtilde, MtildeInvModbsk), x)

ExpandSecond(c, x, l, drift) ==
    IF c.mult \in {"HPSPOVERQ", "HPSPOVERQLEVELED"}
    THEN Each(LAMBDA y : FastExpandCRTBasisPloverQ(y, ModuliQ, Ql(l), Rl(l), NegRlQHatInvModq[l], QInvModr,
                            RlHatInvModr[l], RlHatModq[l], AlphaRlModq[l], drift), x)
    ELSE ExpandFirst(c, x, l, drift)

Tensor(cv1, cv2, q) ==
    [n \in 1 .. (Len(cv1) + Len(cv2) - 1) |->
        Sum([i \in {i \in DOMAIN cv1 : n - i + 1 \in DOMAIN cv2} |-> Mul(cv1[i], cv2[n - i + 1], q)], q)]
    \o <<>>

ScaleBack(c, x, l, drift) ==
    CASE c.mult = "HPS" ->
            Each(LAMBDA y : SwitchCRTBasis(
                    ScaleAndRound(y, ModuliQ \o ModuliR, ModuliR, TRSHatInvModsDivsModr[c.t],
                                  TRSHatInvModsDivsFrac[c.t], drift) \o <<>>,
                    ModuliR, ModuliQ, RlHatInvModr[NumQ + 1], RlHatModq[NumQ + 1], AlphaRlModq[NumQ + 1],
                    drift), x)
      [] c.mult \in {"HPSPOVERQ", "HPSPOVERQLEVELED"} ->
            FromQl(Each(LAMBDA y : ScaleAndRound(y, Ql(l) \o Rl(l), Ql(l), TQlSlHatInvModsDivsModq[c.t][l],
                                                 TQlSlHatInvModsDivsFrac[c.t][l], drift), x), l)
      [] c.mult = "BEHZ" ->
            Each(LAMBDA y : FastBaseConvSK(
                    FastRNSFloorq(y, ModuliQ, ModuliBsk, TQHatInvModq[c.t], QInvModbsk, TQInvModbsk[c.t])
                    \o <<>>,
                    ModuliQ, ModuliBsk, BHatInvModb, BHatModmsk, BInvModmsk, BHatModq, BModq), x)

(* The product of two ciphertexts, with one element more than they need. *)
EvalMultNoRelin(c, ct1, ct2, drift) ==
    LET l == Levels(c, IF ct1.deg > ct2.deg THEN ct1.deg ELSE ct2.deg, FALSE)
        First == [i \in DOMAIN ct1.cv |-> ExpandFirst(c, ct1.cv[i], l, drift)]
        Second == [i \in DOMAIN ct2.cv |-> ExpandSecond(c, ct2.cv[i], l, drift)]
        Back(cv) == [i \in DOMAIN cv |-> ScaleBack(c, cv[i], l, drift)]
    IN  Back(Tensor(First \o <<>>, Second \o <<>>, ProductBasis(c, l))) \o <<>>

EvalSquareNoRelin(c, ct, drift) ==
    LET l == Levels(c, ct.deg, FALSE)
        cv == [i \in DOMAIN ct.cv |-> ExpandFirst(c, ct.cv[i], l, drift)]
        cvPoverQ == [i \in DOMAIN ct.cv |-> ExpandSecond(c, ct.cv[i], l, drift)]
        Back(cvSquare) == [i \in DOMAIN cvSquare |-> ScaleBack(c, cvSquare[i], l, drift)]
    IN  Back(Tensor(cv \o <<>>, cvPoverQ \o <<>>, ProductBasis(c, l))) \o <<>>

(* A third element, or the second of two, goes through the key switching;   *)
(* under HPSPOVERQLEVELED only the moduli that its noise leaves standing do. *)
RelinearizeCore(c, cv, deg, ek, drift) ==
    LET isKeySwitch == Len(cv) = 2
        l == Levels(c, deg, isKeySwitch)
        old == IF isKeySwitch THEN cv[2] ELSE cv[3]
        Switched == KeySwitchCore(c, IF c.mult = "HPSPOVERQLEVELED" THEN ToQl(old, l, drift) ELSE old, l, ek)
        Both(ab) == <<Add(cv[1], FromQl(ab[1], l), ModuliQ),
                      IF isKeySwitch THEN FromQl(ab[2], l) ELSE Add(cv[2], FromQl(ab[2], l), ModuliQ)>>
    IN  Both(Switched \o <<>>)

(* Mutant: only the first element is permuted. *)
EvalAutomorphismFirst(c, cv, deg, g, ek, drift) ==
    LET Permuted(rcv) == <<Automorphism(rcv[1], g, ModuliQ), rcv[2]>>
    IN  Permuted(RelinearizeCore(c, cv, deg, ek, drift))

EvalAutomorphism(c, cv, deg, g, ek, drift) ==
    LET Permuted(rcv) == <<Automorphism(rcv[1], g, ModuliQ), Automorphism(rcv[2], g, ModuliQ)>>
    IN  Permuted(RelinearizeCore(c, cv, deg, ek, drift))

-----------------------------------------------------------------------------
(***************************************************************************)
(* The program: a context, its keys, and ciphertexts in two slots.  A        *)
(* ciphertext is its elements and its noise scale degree; msg is the message *)
(* that it should decrypt to, depth the multiplications behind it, and pure  *)
(* says that it comes from encryptions by multiplications with              *)
(* relinearization alone, which is what the noise estimate is made for.      *)
(***************************************************************************)

NoContext == [mult |-> "none"]

NoKeys == [pk |-> <<>>]

NoCiphertext == [cv |-> <<>>]

Present(i) == cts[i].cv # <<>>

(* A rotation of the slots of the ring. *)
AutoIndex == 2 * N - 1

PlainVector(m, t) == [k \in Coefficients |-> m[k] % t] \o <<>>

MessageProduct(m, n, t) ==
    [k \in Coefficients |->
        Total([j \in Coefficients |-> IF j <= k THEN m[j] * n[k - j + 1] ELSE -(m[j] * n[N + k - j + 1])])
        % t] \o <<>>

BFVInit ==
    /\ context = NoContext
    /\ keys = NoKeys
    /\ cts = [i \in Slots |-> NoCiphertext]
    /\ steps = 0

GenCryptoContext ==
    /\ context = NoContext
    /\ context' \in Setups
    /\ UNCHANGED <<keys, cts, steps>>

(* KeyGen, EvalMultKeyGen and EvalAutomorphismKeyGen. *)
BFVKeyGen ==
    /\ context # NoContext /\ keys = NoKeys
    /\ \E sk \in Secrets, mask \in Masks, e \in Errors :
         LET q == KeyBasis(context)
             s == Element(sk, q)
             b == Subtract(Element(e, q), Mul(Element(mask, q), s, q), q)
         IN  keys' = [s |-> s,
                      pk |-> <<b, Element(mask, q)>>,
                      mult |-> KeySwitchGen(context, Mul(s, s, q), s, mask, e),
                      auto |-> KeySwitchGen(context, s, Automorphism(s, AutoIndex, q), mask, e)]
    /\ UNCHANGED <<context, cts, steps>>

Fresh(m, zero) ==
    [cv |-> EncryptScaled(context, m, zero), deg |-> 1, msg |-> m, depth |-> 0, pure |-> TRUE]

BFVEncrypt(i) ==
    /\ steps = 0 /\ keys # NoKeys /\ ~Present(i) /\ \A j \in Slots : j < i => Present(j)
    /\ \E m \in Messages[i], e \in Errors, v \in Secrets :
         cts' = [cts EXCEPT ![i] = Fresh(PlainVector(m, context.t),
                    EncryptZeroWithPublic(keys.pk, v, e, [k \in Coefficients |-> -e[k]], KeyBasis(context)))]
    /\ UNCHANGED <<context, keys, steps>>

BFVEncryptSecret(i) ==
    /\ steps = 0 /\ keys # NoKeys /\ ~Present(i) /\ \A j \in Slots : j < i => Present(j)
    /\ \E m \in Messages[i], e \in Errors, a \in Masks :
         cts' = [cts EXCEPT ![i] = Fresh(PlainVector(m, context.t),
                    EncryptZeroWithSecret(keys.s, a, e, KeyBasis(context)))]
    /\ UNCHANGED <<context, keys, steps>>

(* An operation in place. *)
Operation(i, ct) ==
    /\ cts' = [cts EXCEPT ![i] = ct]
    /\ steps' = steps + 1
    /\ UNCHANGED <<context, keys>>

CanOperate(i) == steps < BFVMaxSteps /\ Present(i)

CanMultiply(i, j) ==
    /\ CanOperate(i) /\ CanOperate(j)
    /\ cts[i].depth < Depth[context] /\ cts[j].depth < Depth[context]
    /\ cts[i].deg <= Depth[context] /\ cts[j].deg <= Depth[context]
    /\ Len(cts[i].cv) = 2 /\ Len(cts[j].cv) = 2

MultResult(i, j, cv, relin) ==
    [cv |-> cv,
     deg |-> (IF cts[i].deg > cts[j].deg THEN cts[i].deg ELSE cts[j].deg) + 1,
     msg |-> MessageProduct(cts[i].msg, cts[j].msg, context.t),
     depth |-> (IF cts[i].depth > cts[j].depth THEN cts[i].depth ELSE cts[j].depth) + 1,
     pure |-> relin /\ cts[i].pure /\ cts[j].pure]

BFVEvalMult(i, j) ==
    /\ CanMultiply(i, j) /\ i # j
    /\ \E drift \in -1 .. 1 :
         \E ct \in {MultResult(i, j, EvalMultNoRelin(context, cts[i], cts[j], drift), TRUE)} :
            Operation(i, [ct EXCEPT !.cv = RelinearizeCore(context, @, ct.deg, keys.mult, drift)])

(* Without the relinearization, which may come later. *)
BFVEvalMultNoRelin(i, j) ==
    /\ CanMultiply(i, j) /\ i # j
    /\ \E drift \in -1 .. 1 :
         Operation(i, MultResult(i, j, EvalMultNoRelin(context, cts[i], cts[j], drift), FALSE))

RelinearizeInPlace(c, cv, ek) ==
    LET Both(ab) == <<Add(cv[1], ab[1], ModuliQ), Add(cv[2], ab[2], ModuliQ)>>
    IN  Both(KeySwitchCore(c, cv[3], NumQ, ek) \o <<>>)

BFVRelinearize(i) ==
    /\ CanOperate(i) /\ Len(cts[i].cv) = 3
    /\ Operation(i, [cts[i] EXCEPT !.cv = RelinearizeInPlace(context, @, keys.mult)])

BFVEvalSquare(i) ==
    /\ CanMultiply(i, i)
    /\ \E drift \in -1 .. 1 :
         \E ct \in {MultResult(i, i, EvalSquareNoRelin(context, cts[i], drift), TRUE)} :
            Operation(i, [ct EXCEPT !.cv = RelinearizeCore(context, @, ct.deg, keys.mult, drift)])

(* Element by element; the longer operand gives the elements that the other *)
(* lacks, and the first gives the degree.                                  *)
Positions(cv1, cv2) == 1 .. (IF Len(cv1) > Len(cv2) THEN Len(cv1) ELSE Len(cv2))

ElementOrZero(cv, n) == IF n <= Len(cv) THEN cv[n] ELSE Zero(ModuliQ)

AddResult(i, j, cv, msg) ==
    [cv |-> cv, deg |-> cts[i].deg, msg |-> PlainVector(msg, context.t),
     depth |-> IF cts[i].depth > cts[j].depth THEN cts[i].depth ELSE cts[j].depth, pure |-> FALSE]

BFVEvalAdd(i, j) ==
    /\ CanOperate(i) /\ CanOperate(j) /\ i # j
    /\ Operation(i, AddResult(i, j,
            [n \in Positions(cts[i].cv, cts[j].cv) |->
                Add(ElementOrZero(cts[i].cv, n), ElementOrZero(cts[j].cv, n), ModuliQ)] \o <<>>,
            [k \in Coefficients |-> cts[i].msg[k] + cts[j].msg[k]]))

BFVEvalSub(i, j) ==
    /\ CanOperate(i) /\ CanOperate(j) /\ i # j
    /\ Operation(i, AddResult(i, j,
            [n \in Positions(cts[i].cv, cts[j].cv) |->
                Subtract(ElementOrZero(cts[i].cv, n), ElementOrZero(cts[j].cv, n), ModuliQ)] \o <<>>,
            [k \in Coefficients |-> cts[i].msg[k] - cts[j].msg[k]]))

(* A plaintext is scaled to Q / t before it is added, and not before it is   *)
(* multiplied.                                                             *)
ScaledPlain(m) ==
    Each(LAMBDA y : TimesQovert(y, ModuliQ, TInvMod[context.t], context.t, NegQModt[context.t]),
         Element(m, ModuliQ))

BFVEvalAddPlain(i) ==
    /\ CanOperate(i)
    /\ \E m \in UNION Range(Messages) :
         LET p == PlainVector(m, context.t)
         IN  Operation(i, [AddResult(i, i, [cts[i].cv EXCEPT ![1] = Add(@, ScaledPlain(p), ModuliQ)],
                                     [k \in Coefficients |-> cts[i].msg[k] + p[k]])
                           EXCEPT !.pure = cts[i].pure])

BFVEvalSubPlain(i) ==
    /\ CanOperate(i)
    /\ \E m \in UNION Range(Messages) :
         LET p == PlainVector(m, context.t)
         IN  Operation(i, [AddResult(i, i, [cts[i].cv EXCEPT ![1] = Subtract(@, ScaledPlain(p), ModuliQ)],
                                     [k \in Coefficients |-> cts[i].msg[k] - p[k]])
                           EXCEPT !.pure = cts[i].pure])

BFVEvalMultPlain(i) ==
    /\ CanOperate(i) /\ cts[i].depth < Depth[context] /\ cts[i].deg <= Depth[context]
    /\ \E m \in UNION Range(Messages) :
         LET p == PlainVector(m, context.t)
         IN  Operation(i, [cts[i] EXCEPT
                !.cv = [n \in DOMAIN @ |-> Mul(@[n], Element(p, ModuliQ), ModuliQ)] \o <<>>,
                !.deg = @ + 1, !.depth = @ + 1, !.pure = FALSE,
                !.msg = MessageProduct(@, p, context.t)])

Monomial(power) ==
    [k \in Coefficients |-> IF k - 1 = power % N THEN IF power % (2 * N) < N THEN 1 ELSE -1 ELSE 0]

BFVMultByMonomial(i, power) ==
    /\ CanOperate(i)
    /\ Operation(i, [cts[i] EXCEPT
            !.cv = [n \in DOMAIN @ |-> Mul(@[n], Element(Monomial(power), ModuliQ), ModuliQ)] \o <<>>,
            !.msg = MessageProduct(@, Monomial(power), context.t)])

BFVEvalAutomorphism(i) ==
    /\ CanOperate(i) /\ Len(cts[i].cv) = 2
    /\ \E drift \in -1 .. 1 :
         Operation(i, [cts[i] EXCEPT
            !.cv = EvalAutomorphism(context, @, cts[i].deg, AutoIndex, keys.auto, drift),
            !.msg = [k \in Coefficients |-> IF k = 1 THEN @[1] ELSE (-@[N + 2 - k]) % context.t] \o <<>>,
            !.pure = FALSE])

BFVNext ==
    \/ GenCryptoContext
    \/ BFVKeyGen
    \/ \E i \in Slots : BFVEncrypt(i)
    \/ \E i \in Slots : BFVEncryptSecret(i)
    \/ \E i, j \in Slots : BFVEvalMult(i, j)
    \/ \E i, j \in Slots : BFVEvalMultNoRelin(i, j)
    \/ \E i, j \in Slots : BFVEvalAdd(i, j)
    \/ \E i, j \in Slots : BFVEvalSub(i, j)
    \/ \E i \in UnarySlots : BFVRelinearize(i)
    \/ \E i \in UnarySlots : BFVEvalSquare(i)
    \/ \E i \in UnarySlots : BFVEvalAddPlain(i)
    \/ \E i \in UnarySlots : BFVEvalSubPlain(i)
    \/ \E i \in UnarySlots : BFVEvalMultPlain(i)
    \/ \E i \in UnarySlots, power \in Powers : BFVMultByMonomial(i, power)
    \/ \E i \in UnarySlots : BFVEvalAutomorphism(i)

BFVSpec == BFVInit /\ [][BFVNext]_bfvVars

-----------------------------------------------------------------------------
(***************************************************************************)
(* Properties.                                                             *)
(***************************************************************************)

(* HPSPOVERQLEVELED drops moduli before a relinearization by an estimate of  *)
(* its rounding alone.  The noise of BV key switching is not divided by an   *)
(* auxiliary modulus, so it is then multiplied by the moduli dropped, and no *)
(* estimate counts that.                                                   *)
UncountedNoise(ct) ==
    context.mult = "HPSPOVERQLEVELED" /\ context.ks = "BV" /\ ct.depth > 0 /\ Len(ct.cv) = 2

(* Every ciphertext decrypts to its message: encryption under either key,    *)
(* the four multiplication techniques, both key switchings, additions with    *)
(* operands of different lengths, plaintext operands and rotations all       *)
(* commute with decryption, however the floating-point sums round, in any   *)
(* order of operations within the depth that the parameters were made for;   *)
(* within depth one where the noise of relinearization is not counted.       *)
(* The decrypted coefficient is compared modulo t, as the decoders do: the   *)
(* rounding may leave t for zero.                                          *)
BFVDecrypts ==
    \A i \in Slots, drift \in -1 .. 1 : (Present(i) /\ ~(UncountedNoise(cts[i]) /\ cts[i].depth > 1)) =>
        \A k \in Coefficients :
            Decrypt(context, cts[i].cv, keys.s, drift)[k] % context.t = cts[i].msg[k]

(* t times the noise of a ciphertext: the distance of t times its phase      *)
(* from Q times the message, modulo t Q.                                   *)
ScaledNoise(ct, s, t) ==
    LET Q == Modulus(ModuliQ)
        b == DecryptCore(ct.cv, DropTo(s, NumQ))
        Centred(v) == IF 2 * v > t * Q THEN t * Q - v ELSE v
    IN  [k \in Coefficients |-> Centred((t * CRTInterpolate(b[k], ModuliQ) - Q * ct.msg[k]) % (t * Q))]

(* The noise stays within the estimate that chose the parameters and that    *)
(* chooses how many moduli HPSPOVERQLEVELED drops: for fresh ciphertexts, and *)
(* for any tree of multiplications with relinearization, one estimate bounds *)
(* all the ciphertexts of the same depth.  EXTENDED needs twice the estimate, *)
(* which is that of a rounding where ScaleAndRoundPOverQ takes a floor.      *)
NoiseWithinEstimate ==
    \A i \in Slots : (Present(i) /\ cts[i].pure /\ ~UncountedNoise(cts[i])) =>
        \A k \in Coefficients :
            2 * ScaledNoise(cts[i], keys.s, context.t)[k]
              <= context.t * Estimate[context][cts[i].depth] * (IF context.enc = "EXTENDED" THEN 2 ELSE 1)

(* The conversions between bases compute on the number that the residues     *)
(* stand for, although no step reconstructs it: expansion to R gives that    *)
(* number, centred, and a drop to Ql its rounded quotient.  An error of a     *)
(* quarter in the floating-point sums moves only the point where the number  *)
(* changes sign, or the quotient at a tie, by a quarter.                     *)
ConversionsExact ==
    \A i \in Slots, drift \in -1 .. 1 : Present(i) =>
        \A k \in Coefficients :
            LET x == cts[i].cv[1][k]
                Q == Modulus(ModuliQ)
                Near(v, r, l) == LET d == Modulus(SubSeq(ModuliQ, l + 1, NumQ))
                                     z == (v + d \div 2) \div d
                                 IN  \E e \in -1 .. 1 : /\ 4 * (d * (z + e) - v) <= 3 * d
                                                       /\ 4 * (v - d * (z + e)) <= 3 * d
                                                       /\ r = Towers(z + e, Ql(l))
                Right(v) ==
                    /\ \E z \in {v, v - Q} :
                         /\ -3 * Q <= 4 * z /\ 4 * z <= 3 * Q
                         /\ Towers(z, ModuliR) = SwitchCRTBasis(x, ModuliQ, ModuliR, QlHatInvModq[NumQ],
                                                    QlHatModr[NumQ], AlphaQlModr[NumQ], drift)
                    /\ \A l \in 1 .. (NumQ - 1) :
                         Near(v, ScaleAndRound(x, ModuliQ, Ql(l), QlQHatInvModqDivqModq[l],
                                               QlQHatInvModqDivqFrac[l], drift), l)
            IN  Right(CRTInterpolate(x, ModuliQ))

=============================================================================
