----------------------- MODULE TransformTables_proofs -----------------------
(***************************************************************************)
(* For every number of threads, contexts, rings and moduli: the tables are *)
(* coherent whenever the lock is free, serial calls and regions that find  *)
(* their tables compute with the right ones, such regions write nothing,   *)
(* and the FFT of Field2n is right in every region.                        *)
(*                                                                         *)
(* The argument is about what a table will hold when the section that is   *)
(* under way has ended (Settled): that does not change while the section   *)
(* writes, so the coherence of the tables is inductive in this form, and   *)
(* it is what a thread that finds the lock free reads.                     *)
(***************************************************************************)
EXTENDS TransformTables, TLAPS

-----------------------------------------------------------------------------
(* The values of the state.                                                *)

FTTNames == {FTTMaps[i] : i \in 1 .. Len(FTTMaps)}

Name == FTTNames \cup {"m_isInitialized", "m_M", "m_Nh", "m_rotGroup", "m_ksiPows",
                       "m_initRoot", "m_toCRTPerm", "cosTable"}

\* Keys; those of the NTT tables have no order.
Key == {k \in Name \X Nat \X Nat : k[1] \in FTTNames => k[3] = 0}

Kinds == {"initialize", "precompute", "special", "forward", "inverse", "pack", "field"}

Parts == [kind : Kinds, q : Nat, m : Nat \ {0}]

\* The parts of a context's generation, of the calls on its data, of Field2n.
GenParts   == {p \in Parts : p.kind \in {"initialize", "precompute"} /\ p.m % 4 = 0}
DataParts  == {p \in Parts : p.kind \in {"special", "forward", "inverse", "pack"}}
FieldParts == {p \in Parts : p.kind = "field"}

Todo(s) ==
    \/ s \in Seq(GenParts)
    \/ s \in Seq(DataParts)
    \/ s \in Seq(FieldParts) /\ Len(s) <= 1

Places == {"check", "reread", "find", "enter", "write", "using"}

CallRecord == [todo : Seq(Parts), at : Places, arg : Nat, writes : Seq(Key \X Nat),
               ok : BOOLEAN, fit : BOOLEAN]

-----------------------------------------------------------------------------
(* What a table holds, and what it will hold.                              *)

Cont(tbl, k) == IF k \in DOMAIN tbl THEN tbl[k] ELSE 0

\* The last write to k is of v; no write is to k.
Ends(ws, k, v) ==
    \E i \in 1 .. Len(ws) :
        ws[i] = <<k, v>> /\ \A j \in 1 .. Len(ws) : j > i => ws[j][1] # k

Spares(ws, k) == \A i \in 1 .. Len(ws) : ws[i][1] # k

\* After the writes ws the table will hold v at k.
Settled(ws, tbl, k, v) == Ends(ws, k, v) \/ (Spares(ws, k) /\ Cont(tbl, k) = v)

LEMMA PutCont ==
    ASSUME NEW tbl, NEW k, NEW v, NEW x
    PROVE  Cont(Put(tbl, k, v), x) = IF x = k THEN v ELSE Cont(tbl, x)
BY Zenon DEF Cont, Put

LEMMA SettledNone ==
    ASSUME NEW tbl, NEW k, NEW v
    PROVE  Settled(<<>>, tbl, k, v) <=> Cont(tbl, k) = v
BY DEF Settled, Ends, Spares

\* What is settled depends on the contents only.
LEMMA SettledSame ==
    ASSUME NEW ws, NEW tbl, NEW new, NEW k, NEW v,
           \A x : Cont(new, x) = Cont(tbl, x), Settled(ws, tbl, k, v)
    PROVE  Settled(ws, new, k, v)
BY Zenon DEF Settled

\* A write leaves settled what was settled.
LEMMA SettledWrite ==
    ASSUME NEW ws \in Seq(Key \X Nat), ws # <<>>, NEW tbl, NEW k, NEW v,
           Settled(ws, tbl, k, v)
    PROVE  Settled(Tail(ws), Put(tbl, ws[1][1], ws[1][2]), k, v)
<1> DEFINE new == Put(tbl, ws[1][1], ws[1][2])
           rest == Tail(ws)
<1>1. /\ Len(ws) \in Nat /\ 1 \in 1 .. Len(ws) /\ Len(rest) = Len(ws) - 1
      /\ \A j \in 1 .. Len(rest) : j + 1 \in 1 .. Len(ws) /\ j + 1 > 1 /\ rest[j] = ws[j + 1]
  OBVIOUS
<1>2. Cont(new, k) = IF k = ws[1][1] THEN ws[1][2] ELSE Cont(tbl, k)
  BY PutCont
<1> HIDE DEF new, rest
<1>3. CASE Ends(ws, k, v)
  <2>1. PICK i \in 1 .. Len(ws) :
            ws[i] = <<k, v>> /\ \A j \in 1 .. Len(ws) : j > i => ws[j][1] # k
    BY <1>3, Zenon DEF Ends
  <2>2. CASE i = 1
    <3>1. Spares(rest, k)
      BY <1>1, <2>1, <2>2, Zenon DEF Spares
    <3>2. Cont(new, k) = v
      BY <1>2, <2>1, <2>2
    <3> QED BY <3>1, <3>2, Zenon DEF Settled, new, rest
  <2>3. CASE i # 1
    <3>1. i - 1 \in 1 .. Len(rest) /\ (i - 1) + 1 = i
      BY <1>1, <2>3
    <3>2. rest[i - 1] = <<k, v>>
      BY <1>1, <2>1, <3>1, Zenon
    <3>3. ASSUME NEW j \in 1 .. Len(rest), j > i - 1 PROVE rest[j][1] # k
      <4>1. j + 1 \in 1 .. Len(ws) /\ j + 1 > i /\ rest[j] = ws[j + 1]
        BY <1>1, <3>3
      <4> QED BY <2>1, <4>1, Zenon
    <3>4. Ends(rest, k, v)
      BY <3>1, <3>2, <3>3, Zenon DEF Ends
    <3> QED BY <3>4, Zenon DEF Settled, new, rest
  <2> QED BY <2>2, <2>3, Zenon
<1>4. CASE Spares(ws, k) /\ Cont(tbl, k) = v
  <2>1. Spares(rest, k)
    BY <1>1, <1>4, Zenon DEF Spares
  <2>2. k # ws[1][1]
    BY <1>1, <1>4, Zenon DEF Spares
  <2> QED BY <1>2, <1>4, <2>1, <2>2, Zenon DEF Settled, new, rest
<1> QED BY <1>3, <1>4, Zenon DEF Settled

-----------------------------------------------------------------------------
(* Coherence of the tables.                                                *)

\* The NTT tables of a modulus, the DFT statics, and a root with the
\* permutation of its order, as they will be after the writes ws.
CoherentFTT(ws, tbl) ==
    \A q \in Nat : \E m : \A i \in 1 .. 6 : Settled(ws, tbl, FTT(FTTMaps[i], q), m)

CoherentDFT(ws, tbl) ==
    \E m : /\ Settled(ws, tbl, M, m) /\ Settled(ws, tbl, Nh, m \div 4)
           /\ Settled(ws, tbl, Rot, m) /\ Settled(ws, tbl, Ksi, m)

CoherentPack(ws, tbl) ==
    \A q, m \in Nat :
        \/ Settled(ws, tbl, InitRoot(q, m), 0)
        \/ Settled(ws, tbl, InitRoot(q, m), m) /\ Settled(ws, tbl, Perm(m), m)

Coherent(ws, tbl) == CoherentFTT(ws, tbl) /\ CoherentDFT(ws, tbl) /\ CoherentPack(ws, tbl)

LEMMA CoherentWrite ==
    ASSUME NEW ws \in Seq(Key \X Nat), ws # <<>>, NEW tbl, Coherent(ws, tbl)
    PROVE  Coherent(Tail(ws), Put(tbl, ws[1][1], ws[1][2]))
<1> DEFINE new == Put(tbl, ws[1][1], ws[1][2])
           rest == Tail(ws)
<1>1. \A k, v : Settled(ws, tbl, k, v) => Settled(rest, new, k, v)
  BY SettledWrite, Zenon
<1> HIDE DEF new, rest
<1>2. CoherentFTT(rest, new)
  BY <1>1, Zenon DEF Coherent, CoherentFTT
<1>3. CoherentDFT(rest, new)
  BY <1>1, Zenon DEF Coherent, CoherentDFT
<1>4. CoherentPack(rest, new)
  BY <1>1, Zenon DEF Coherent, CoherentPack
<1> QED BY <1>2, <1>3, <1>4, Zenon DEF Coherent, new, rest

\* ws writes, of the keys in K, the value v last, and no other key.
WritesOnly(ws, K, v) ==
    /\ \A k \in K : Ends(ws, k, v)
    /\ \A k : k \notin K => Spares(ws, k)

LEMMA SettledOpen ==
    ASSUME NEW ws, NEW tbl, NEW k, NEW v, Spares(ws, k), Settled(<<>>, tbl, k, v)
    PROVE  Settled(ws, tbl, k, v)
BY SettledNone, Zenon DEF Settled

-----------------------------------------------------------------------------
(* What the sections write.                                                *)

LEMMA MapNames ==
    /\ Len(FTTMaps) = 6
    /\ \A i, j \in 1 .. 6 : FTTMaps[i] = FTTMaps[j] => i = j
    /\ FTTNames = {FTTMaps[i] : i \in 1 .. 6}
    /\ FTTNames = {"reverse", "inverse", "cycloInv", "precon", "preconI", "preconCOI"}
<1>1. Len(FTTMaps) = 6
  BY Zenon DEF FTTMaps
<1>2. /\ FTTMaps[1] = "reverse" /\ FTTMaps[2] = "inverse" /\ FTTMaps[3] = "cycloInv"
      /\ FTTMaps[4] = "precon" /\ FTTMaps[5] = "preconI" /\ FTTMaps[6] = "preconCOI"
  BY Zenon DEF FTTMaps
<1>3. \A i \in 1 .. 6 : i = 1 \/ i = 2 \/ i = 3 \/ i = 4 \/ i = 5 \/ i = 6
  OBVIOUS
<1>4. 1 \in 1 .. 6 /\ 2 \in 1 .. 6 /\ 3 \in 1 .. 6 /\ 4 \in 1 .. 6 /\ 5 \in 1 .. 6 /\ 6 \in 1 .. 6
  OBVIOUS
<1>5. FTTNames = {FTTMaps[i] : i \in 1 .. 6}
  BY <1>1, Zenon DEF FTTNames
<1>6. \A i, j \in 1 .. 6 : FTTMaps[i] = FTTMaps[j] => i = j
  BY <1>2, <1>3, Zenon
<1>7. FTTNames = {"reverse", "inverse", "cycloInv", "precon", "preconI", "preconCOI"}
  BY <1>2, <1>3, <1>4, <1>5
<1> QED BY <1>1, <1>5, <1>6, <1>7, Zenon

FTTKeys(q) == {FTT(FTTMaps[i], q) : i \in 1 .. 6}

LEMMA PreComputeWrites ==
    ASSUME NEW q \in Nat, NEW m \in Nat
    PROVE  /\ PreCompute(q, m) \in Seq(Key \X Nat) /\ PreCompute(q, m) # <<>>
           /\ WritesOnly(PreCompute(q, m), FTTKeys(q), m)
           /\ \A i \in 1 .. Len(PreCompute(q, m)) : PreCompute(q, m)[i][1][1] \in FTTNames
<1> DEFINE ws == PreCompute(q, m)
<1>1. ws = [i \in 1 .. 6 |-> <<FTT(FTTMaps[i], q), m>>]
  BY MapNames, Zenon DEF PreCompute
<1>2. \A i \in 1 .. 6 : /\ FTTMaps[i] \in FTTNames /\ FTT(FTTMaps[i], q) \in Key
                        /\ FTT(FTTMaps[i], q)[1] = FTTMaps[i]
  <2>1. \A i \in 1 .. 6 : FTTMaps[i] \in FTTNames
    BY MapNames, Zenon
  <2> QED BY <2>1, Zenon DEF FTT, Key, Name
<1>3. \A i \in 1 .. 6 : <<FTT(FTTMaps[i], q), m>> \in Key \X Nat
  BY <1>2, Zenon
<1>4. ws \in Seq(Key \X Nat) /\ Len(ws) = 6 /\ ws # <<>>
  BY <1>1, <1>3
<1>5. \A i \in 1 .. 6 : ws[i] = <<FTT(FTTMaps[i], q), m>> /\ ws[i][1] = FTT(FTTMaps[i], q)
  BY <1>1
<1> HIDE DEF ws
<1>6. ASSUME NEW k \in FTTKeys(q) PROVE Ends(ws, k, m)
  <2>1. PICK i \in 1 .. 6 : k = FTT(FTTMaps[i], q)
    BY Zenon DEF FTTKeys
  <2>2. \A j \in 1 .. 6 : j > i => ws[j][1] # k
    <3> SUFFICES ASSUME NEW j \in 1 .. 6, j > i, ws[j][1] = k PROVE FALSE
      BY Zenon
    <3>1. FTT(FTTMaps[i], q)[1] = FTT(FTTMaps[j], q)[1]
      BY <1>5, <2>1, Zenon
    <3>2. i = j
      BY <1>2, <3>1, MapNames
    <3> QED BY <3>2
  <2> QED BY <1>4, <1>5, <2>1, <2>2, Zenon DEF Ends
<1>7. ASSUME NEW k, k \notin FTTKeys(q) PROVE Spares(ws, k)
  <2>1. \A i \in 1 .. 6 : FTT(FTTMaps[i], q) \in FTTKeys(q)
    BY Zenon DEF FTTKeys
  <2>2. \A i \in 1 .. 6 : ws[i][1] # k
    BY <1>5, <1>7, <2>1, Zenon
  <2> QED BY <1>4, <2>2, Zenon DEF Spares
<1>8. \A i \in 1 .. Len(ws) : ws[i][1][1] \in FTTNames
  <2>1. \A i \in 1 .. 6 : ws[i][1][1] = FTTMaps[i]
    BY <1>2, <1>5, Zenon
  <2> QED BY <1>2, <1>4, <2>1, Zenon
<1> QED BY <1>4, <1>6, <1>7, <1>8, Zenon DEF ws, WritesOnly

LEMMA StaticKeys ==
    /\ Statics \subseteq Key
    /\ \A k \in Statics : k[1] \notin FTTNames /\ k[1] \notin {"m_initRoot", "m_toCRTPerm", "cosTable"}
    /\ Flag # M /\ Flag # Nh /\ Flag # Rot /\ Flag # Ksi
    /\ M # Nh /\ M # Rot /\ M # Ksi /\ Nh # Rot /\ Nh # Ksi /\ Rot # Ksi
BY MapNames DEF Statics, Flag, M, Nh, Rot, Ksi, Key, Name

LEMMA InitializeWrites ==
    ASSUME NEW m \in Nat
    PROVE  /\ Initialize(m) \in Seq(Key \X Nat) /\ Initialize(m) # <<>>
           /\ Ends(Initialize(m), M, m) /\ Ends(Initialize(m), Nh, m \div 4)
           /\ Ends(Initialize(m), Rot, m) /\ Ends(Initialize(m), Ksi, m)
           /\ \A k : k \notin Statics => Spares(Initialize(m), k)
           /\ \A i \in 1 .. Len(Initialize(m)) :
                 /\ Initialize(m)[i][1] \in Statics
                 /\ Initialize(m)[i][1] = M => Initialize(m)[i][2] = m
<1> DEFINE ws == Initialize(m)
           n == m \div 4
<1>1. n \in Nat
  OBVIOUS
<1> HIDE DEF n
<1>2. ws = <<<<Flag, 0>>, <<M, m>>, <<Nh, n>>, <<Rot, m>>, <<Ksi, m>>, <<Flag, 1>>>>
  BY Zenon DEF Initialize, n
<1> HIDE DEF ws
<1>3. {Flag, M, Nh, Rot, Ksi} \subseteq Key
  BY StaticKeys, Zenon DEF Statics
<1>4. /\ <<Flag, 0>> \in Key \X Nat /\ <<M, m>> \in Key \X Nat /\ <<Nh, n>> \in Key \X Nat
      /\ <<Rot, m>> \in Key \X Nat /\ <<Ksi, m>> \in Key \X Nat /\ <<Flag, 1>> \in Key \X Nat
  BY <1>1, <1>3, Zenon
<1>5. ws \in Seq(Key \X Nat) /\ Len(ws) = 6 /\ ws # <<>>
  BY <1>2, <1>4
<1>6. /\ ws[1] = <<Flag, 0>> /\ ws[2] = <<M, m>> /\ ws[3] = <<Nh, n>>
      /\ ws[4] = <<Rot, m>> /\ ws[5] = <<Ksi, m>> /\ ws[6] = <<Flag, 1>>
  BY <1>2, Zenon
<1>7. /\ ws[1][1] = Flag /\ ws[2][1] = M /\ ws[3][1] = Nh
      /\ ws[4][1] = Rot /\ ws[5][1] = Ksi /\ ws[6][1] = Flag /\ ws[2][2] = m
  BY <1>6
<1>8. \A i \in 1 .. 6 : i = 1 \/ i = 2 \/ i = 3 \/ i = 4 \/ i = 5 \/ i = 6
  OBVIOUS
<1>9. 2 \in 1 .. 6 /\ 3 \in 1 .. 6 /\ 4 \in 1 .. 6 /\ 5 \in 1 .. 6
  OBVIOUS
<1>10. /\ \A j \in 1 .. 6 : j > 2 => ws[j][1] # M
       /\ \A j \in 1 .. 6 : j > 3 => ws[j][1] # Nh
       /\ \A j \in 1 .. 6 : j > 4 => ws[j][1] # Rot
       /\ \A j \in 1 .. 6 : j > 5 => ws[j][1] # Ksi
  BY <1>7, <1>8, StaticKeys
<1>11. Ends(ws, M, m) /\ Ends(ws, Nh, n) /\ Ends(ws, Rot, m) /\ Ends(ws, Ksi, m)
  BY <1>5, <1>6, <1>9, <1>10, Zenon DEF Ends
<1>12. \A i \in 1 .. 6 : ws[i][1] \in Statics /\ (ws[i][1] = M => ws[i][2] = m)
  BY <1>7, <1>8, StaticKeys, Zenon DEF Statics
<1>13. \A k : k \notin Statics => Spares(ws, k)
  BY <1>5, <1>12, Zenon DEF Spares
<1> QED BY <1>5, <1>11, <1>12, <1>13, Zenon DEF ws, n

LEMMA PackKeys ==
    ASSUME NEW q \in Nat, NEW m \in Nat
    PROVE  /\ InitRoot(q, m) \in Key /\ Perm(m) \in Key /\ InitRoot(q, m) # Perm(m)
           /\ InitRoot(q, m)[1] = "m_initRoot" /\ Perm(m)[1] = "m_toCRTPerm"
BY MapNames, Zenon DEF InitRoot, Perm, Key, Name

LEMMA SetParamsWrites ==
    ASSUME NEW q \in Nat, NEW m \in Nat
    PROVE  /\ SetParams_2n(q, m) \in Seq(Key \X Nat) /\ SetParams_2n(q, m) # <<>>
           /\ Ends(SetParams_2n(q, m), InitRoot(q, m), m) /\ Ends(SetParams_2n(q, m), Perm(m), m)
           /\ \A k : k # InitRoot(q, m) /\ k # Perm(m) => Spares(SetParams_2n(q, m), k)
           /\ \A i \in 1 .. Len(SetParams_2n(q, m)) :
                 SetParams_2n(q, m)[i][1][1] \in {"m_initRoot", "m_toCRTPerm"}
<1> DEFINE ws == SetParams_2n(q, m)
           a == InitRoot(q, m)
           b == Perm(m)
<1>1. a \in Key /\ b \in Key /\ a # b /\ a[1] = "m_initRoot" /\ b[1] = "m_toCRTPerm"
  BY PackKeys, Zenon
<1>2. ws = <<<<a, m>>, <<b, 0>>, <<b, m>>>>
  BY Zenon DEF SetParams_2n
<1> HIDE DEF ws, a, b
<1>3. <<a, m>> \in Key \X Nat /\ <<b, 0>> \in Key \X Nat /\ <<b, m>> \in Key \X Nat
  BY <1>1, Zenon
<1>4. ws \in Seq(Key \X Nat) /\ Len(ws) = 3 /\ ws # <<>>
  BY <1>2, <1>3
<1>5. /\ ws[1] = <<a, m>> /\ ws[2] = <<b, 0>> /\ ws[3] = <<b, m>>
      /\ ws[1][1] = a /\ ws[2][1] = b /\ ws[3][1] = b
  BY <1>2, Zenon
<1>6. \A i \in 1 .. 3 : i = 1 \/ i = 2 \/ i = 3
  OBVIOUS
<1>7. /\ 1 \in 1 .. 3 /\ \A j \in 1 .. 3 : j > 1 => ws[j][1] # a
      /\ 3 \in 1 .. 3 /\ \A j \in 1 .. 3 : j > 3 => ws[j][1] # b
  BY <1>1, <1>5, <1>6
<1>8. Ends(ws, a, m) /\ Ends(ws, b, m)
  BY <1>4, <1>5, <1>7, Zenon DEF Ends
<1>9. \A i \in 1 .. 3 : ws[i][1] = a \/ ws[i][1] = b
  BY <1>5, <1>6, Zenon
<1>10. \A k : k # a /\ k # b => Spares(ws, k)
  BY <1>4, <1>9, Zenon DEF Spares
<1>11. \A i \in 1 .. Len(ws) : ws[i][1][1] \in {"m_initRoot", "m_toCRTPerm"}
  BY <1>1, <1>4, <1>9, Zenon
<1> QED BY <1>4, <1>8, <1>10, <1>11, Zenon DEF ws, a, b

LEMMA FTTApart ==
    ASSUME NEW r \in Nat, NEW i \in 1 .. 6
    PROVE  /\ FTT(FTTMaps[i], r)[1] \in FTTNames
           /\ FTT(FTTMaps[i], r) \in Key
           /\ FTT(FTTMaps[i], r) \notin Statics
           /\ FTT(FTTMaps[i], r) \in FTTKeys(r)
           /\ \A q, m \in Nat : FTT(FTTMaps[i], r) # InitRoot(q, m) /\ FTT(FTTMaps[i], r) # Perm(m)
           /\ \A q \in Nat : q # r => FTT(FTTMaps[i], r) \notin FTTKeys(q)
<1>1. /\ FTT(FTTMaps[i], r)[1] = FTTMaps[i] /\ FTT(FTTMaps[i], r)[2] = r
      /\ FTT(FTTMaps[i], r)[3] = 0 /\ FTT(FTTMaps[i], r) = <<FTTMaps[i], r, 0>>
  BY Zenon DEF FTT
<1>2. FTTMaps[i] \in FTTNames
  BY MapNames, Zenon
<1>3. FTT(FTTMaps[i], r) \in Key
  BY <1>1, <1>2 DEF Key, Name
<1>4. FTT(FTTMaps[i], r) \notin Statics
  BY <1>1, <1>2, StaticKeys, Zenon
<1>5. \A q, m \in Nat : FTT(FTTMaps[i], r) # InitRoot(q, m) /\ FTT(FTTMaps[i], r) # Perm(m)
  <2>1. "m_initRoot" \notin FTTNames /\ "m_toCRTPerm" \notin FTTNames
    BY MapNames, Zenon
  <2>2. \A q, m \in Nat : InitRoot(q, m)[1] = "m_initRoot" /\ Perm(m)[1] = "m_toCRTPerm"
    BY PackKeys, Zenon
  <2>3. FTT(FTTMaps[i], r)[1] # "m_initRoot" /\ FTT(FTTMaps[i], r)[1] # "m_toCRTPerm"
    BY <1>1, <1>2, <2>1, Zenon
  <2> QED BY <2>2, <2>3, ZenonT(60)
<1>6. \A q \in Nat, j \in 1 .. 6 : FTT(FTTMaps[j], q)[2] = q
  BY Zenon DEF FTT
<1>7. \A q \in Nat : q # r => FTT(FTTMaps[i], r) \notin FTTKeys(q)
  BY <1>1, <1>6, ZenonT(60) DEF FTTKeys
<1>8. FTT(FTTMaps[i], r) \in FTTKeys(r)
  BY Zenon DEF FTTKeys
<1> QED BY <1>1, <1>2, <1>3, <1>4, <1>5, <1>7, <1>8, Zenon

LEMMA PackApart ==
    ASSUME NEW q \in Nat, NEW m \in Nat
    PROVE  /\ InitRoot(q, m) \notin Statics /\ Perm(m) \notin Statics
           /\ \A r, n \in Nat :
                 /\ InitRoot(q, m) # Perm(n)
                 /\ InitRoot(q, m) = InitRoot(r, n) => q = r /\ m = n
                 /\ Perm(m) = Perm(n) => m = n
           /\ \A r \in Nat : InitRoot(q, m) \notin FTTKeys(r) /\ Perm(m) \notin FTTKeys(r)
<1>1. InitRoot(q, m) \notin Statics /\ Perm(m) \notin Statics
  BY PackKeys, StaticKeys, Zenon
<1>2. \A r, n \in Nat : /\ InitRoot(q, m) # Perm(n)
                        /\ InitRoot(q, m) = InitRoot(r, n) => q = r /\ m = n
                        /\ Perm(m) = Perm(n) => m = n
  BY Zenon DEF InitRoot, Perm
<1>3. \A r \in Nat : InitRoot(q, m) \notin FTTKeys(r) /\ Perm(m) \notin FTTKeys(r)
  BY FTTApart, Zenon DEF FTTKeys
<1> QED BY <1>1, <1>2, <1>3, Zenon

LEMMA StaticApart ==
    ASSUME NEW k \in Statics
    PROVE  /\ \A q \in Nat : k \notin FTTKeys(q)
           /\ \A q, m \in Nat : k # InitRoot(q, m) /\ k # Perm(m)
<1>1. \A q \in Nat : k \notin FTTKeys(q)
  BY FTTApart, Zenon DEF FTTKeys
<1>2. ASSUME NEW q \in Nat, NEW m \in Nat PROVE k # InitRoot(q, m) /\ k # Perm(m)
  <2>1. InitRoot(q, m) \notin Statics /\ Perm(m) \notin Statics
    BY PackApart, Zenon
  <2> QED BY <2>1, Zenon
<1> QED BY <1>1, <1>2, Zenon

\* Opening a section keeps the tables coherent: it settles all the tables of a
\* ring, or a root and its permutation, and spares the others.
LEMMA OpenPreCompute ==
    ASSUME NEW q \in Nat, NEW m \in Nat, NEW tbl, Coherent(<<>>, tbl)
    PROVE  Coherent(PreCompute(q, m), tbl)
<1> DEFINE ws == PreCompute(q, m)
<1>1. /\ \A k \in FTTKeys(q) : Ends(ws, k, m)
      /\ \A k : k \notin FTTKeys(q) => Spares(ws, k)
  BY PreComputeWrites, Zenon DEF WritesOnly
<1> HIDE DEF ws
<1>2. /\ \A k \in FTTKeys(q) : Settled(ws, tbl, k, m)
      /\ \A k, v : k \notin FTTKeys(q) /\ Settled(<<>>, tbl, k, v) => Settled(ws, tbl, k, v)
  BY <1>1, SettledOpen, Zenon DEF Settled
<1>3. ASSUME NEW r \in Nat PROVE \E n : \A i \in 1 .. 6 : Settled(ws, tbl, FTT(FTTMaps[i], r), n)
  <2>1. CASE r = q
    BY <1>2, <2>1, FTTApart, Zenon
  <2>2. CASE r # q
    <3>1. PICK n : \A i \in 1 .. 6 : Settled(<<>>, tbl, FTT(FTTMaps[i], r), n)
      BY Zenon DEF Coherent, CoherentFTT
    <3> QED BY <1>2, <2>2, <3>1, FTTApart, Zenon
  <2> QED BY <2>1, <2>2, Zenon
<1>4. CoherentDFT(ws, tbl)
  <2>1. M \in Statics /\ Nh \in Statics /\ Rot \in Statics /\ Ksi \in Statics
    BY Zenon DEF Statics
  <2> QED BY <1>2, <2>1, StaticApart, Zenon DEF Coherent, CoherentDFT
<1>5. CoherentPack(ws, tbl)
  BY <1>2, PackApart, Zenon DEF Coherent, CoherentPack
<1> QED BY <1>3, <1>4, <1>5, Zenon DEF Coherent, CoherentFTT, ws

LEMMA OpenInitialize ==
    ASSUME NEW m \in Nat, NEW tbl, Coherent(<<>>, tbl)
    PROVE  Coherent(Initialize(m), tbl)
<1> DEFINE ws == Initialize(m)
<1>1. /\ Ends(ws, M, m) /\ Ends(ws, Nh, m \div 4) /\ Ends(ws, Rot, m) /\ Ends(ws, Ksi, m)
      /\ \A k : k \notin Statics => Spares(ws, k)
  BY InitializeWrites, Zenon
<1> HIDE DEF ws
<1>2. \A k, v : k \notin Statics /\ Settled(<<>>, tbl, k, v) => Settled(ws, tbl, k, v)
  BY <1>1, SettledOpen, Zenon
<1>3. CoherentDFT(ws, tbl)
  BY <1>1, Zenon DEF CoherentDFT, Settled
<1>4. CoherentFTT(ws, tbl)
  BY <1>2, FTTApart, Zenon DEF Coherent, CoherentFTT
<1>5. CoherentPack(ws, tbl)
  BY <1>2, PackApart, Zenon DEF Coherent, CoherentPack
<1> QED BY <1>3, <1>4, <1>5, Zenon DEF Coherent, ws

LEMMA OpenSetParams ==
    ASSUME NEW q \in Nat, NEW m \in Nat, NEW tbl, Coherent(<<>>, tbl)
    PROVE  Coherent(SetParams_2n(q, m), tbl)
<1> DEFINE ws == SetParams_2n(q, m)
<1>1. /\ Ends(ws, InitRoot(q, m), m) /\ Ends(ws, Perm(m), m)
      /\ \A k : k # InitRoot(q, m) /\ k # Perm(m) => Spares(ws, k)
  BY SetParamsWrites, Zenon
<1> HIDE DEF ws
<1>2. /\ Settled(ws, tbl, InitRoot(q, m), m) /\ Settled(ws, tbl, Perm(m), m)
      /\ \A k, v : k # InitRoot(q, m) /\ k # Perm(m) /\ Settled(<<>>, tbl, k, v) => Settled(ws, tbl, k, v)
  BY <1>1, SettledOpen, Zenon DEF Settled
<1>3. CoherentDFT(ws, tbl)
  <2>1. M \in Statics /\ Nh \in Statics /\ Rot \in Statics /\ Ksi \in Statics
    BY Zenon DEF Statics
  <2> QED BY <1>2, <2>1, StaticApart, Zenon DEF Coherent, CoherentDFT
<1>4. CoherentFTT(ws, tbl)
  BY <1>2, FTTApart, Zenon DEF Coherent, CoherentFTT
<1>5. ASSUME NEW r \in Nat, NEW n \in Nat
      PROVE  \/ Settled(ws, tbl, InitRoot(r, n), 0)
             \/ Settled(ws, tbl, InitRoot(r, n), n) /\ Settled(ws, tbl, Perm(n), n)
  <2>1. CASE r = q /\ n = m
    BY <1>2, <2>1, Zenon
  <2>2. CASE ~(r = q /\ n = m)
    <3>1. InitRoot(r, n) # InitRoot(q, m) /\ InitRoot(r, n) # Perm(m) /\ Perm(n) # InitRoot(q, m)
      BY <2>2, PackApart, Zenon
    <3>2. \A v : Settled(<<>>, tbl, InitRoot(r, n), v) => Settled(ws, tbl, InitRoot(r, n), v)
      BY <1>2, <3>1, Zenon
    <3>3. Settled(<<>>, tbl, Perm(n), n) => Settled(ws, tbl, Perm(n), n)
      <4>1. CASE n = m
        BY <1>2, <4>1, Zenon
      <4>2. CASE n # m
        BY <1>2, <3>1, <4>2, PackApart, Zenon
      <4> QED BY <4>1, <4>2, Zenon
    <3> QED BY <3>2, <3>3, Zenon DEF Coherent, CoherentPack
  <2> QED BY <2>1, <2>2, Zenon
<1> QED BY <1>3, <1>4, <1>5, Zenon DEF Coherent, CoherentPack, ws

LEMMA OpenCosSin ==
    ASSUME NEW m \in Nat, NEW tbl, Coherent(<<>>, tbl)
    PROVE  /\ Coherent(<<<<CosSin(m), m>>>>, tbl)
           /\ <<<<CosSin(m), m>>>> \in Seq(Key \X Nat) /\ Spares(<<<<CosSin(m), m>>>>, M)
<1> DEFINE ws == <<<<CosSin(m), m>>>>
<1>1. /\ ws \in Seq(Key \X Nat) /\ Len(ws) = 1 /\ ws[1][1] = CosSin(m) /\ CosSin(m)[1] = "cosTable"
  <2>1. CosSin(m) \in Key /\ CosSin(m)[1] = "cosTable"
    BY MapNames, Zenon DEF CosSin, Key, Name
  <2> QED BY <2>1
<1>2. \A i \in 1 .. 1 : i = 1
  OBVIOUS
<1> HIDE DEF ws
<1>3. \A k : k # CosSin(m) => Spares(ws, k)
  BY <1>1, <1>2, Zenon DEF Spares
<1>4. \A k, v : k # CosSin(m) /\ Settled(<<>>, tbl, k, v) => Settled(ws, tbl, k, v)
  BY <1>3, SettledOpen, Zenon
<1>5. /\ \A k \in Statics : k # CosSin(m)
      /\ \A q \in Nat, i \in 1 .. 6 : FTT(FTTMaps[i], q) # CosSin(m)
      /\ \A q, n \in Nat : InitRoot(q, n) # CosSin(m) /\ Perm(n) # CosSin(m)
  <2>1. \A k \in Statics : k # CosSin(m)
    BY <1>1, StaticKeys, Zenon
  <2>2. \A q \in Nat, i \in 1 .. 6 : FTT(FTTMaps[i], q) # CosSin(m)
    BY <1>1, FTTApart, MapNames, Zenon
  <2>3. \A q, n \in Nat : InitRoot(q, n) # CosSin(m) /\ Perm(n) # CosSin(m)
    BY <1>1, PackKeys, Zenon
  <2> QED BY <2>1, <2>2, <2>3, Zenon
<1>6. M \in Statics /\ Nh \in Statics /\ Rot \in Statics /\ Ksi \in Statics
  BY Zenon DEF Statics
<1>7. CoherentDFT(ws, tbl)
  BY <1>4, <1>5, <1>6, Zenon DEF Coherent, CoherentDFT
<1>8. CoherentFTT(ws, tbl)
  BY <1>4, <1>5, Zenon DEF Coherent, CoherentFTT
<1>9. CoherentPack(ws, tbl)
  BY <1>4, <1>5, Zenon DEF Coherent, CoherentPack
<1> QED BY <1>1, <1>3, <1>5, <1>6, <1>7, <1>8, <1>9, Zenon DEF Coherent, ws

-----------------------------------------------------------------------------
(* The inductive invariant.                                                *)

RightIn(tbl, p) ==
    IF p.kind = "special"
    THEN /\ Cont(tbl, M) >= p.m
         /\ Cont(tbl, Rot) = Cont(tbl, M) /\ Cont(tbl, Ksi) = Cont(tbl, M)
    ELSE \A k \in Reads(p) : Cont(tbl, k) = p.m

FoundIn(tbl, q, m) == FTT("reverse", q) \in DOMAIN tbl /\ tbl[FTT("reverse", q)] = m

WarmPart(tbl, p) ==
    CASE p.kind = "initialize" -> FALSE
      [] p.kind = "precompute" -> FoundIn(tbl, p.q, p.m)
      [] p.kind = "special"    -> Cont(tbl, Flag) = 1
      [] OTHER                 -> RightIn(tbl, p)

Typed(tbl) ==
    /\ DOMAIN tbl \subseteq Key
    /\ \A k \in Key : Cont(tbl, k) \in Nat
    /\ Cont(tbl, M) % 4 = 0

\* Where a thread may be, and what it knows there whatever the others do.
Thread(r, tbl) ==
    /\ r \in CallRecord /\ Todo(r.todo)
    /\ r.todo # <<>> =>
          /\ r.at = "reread" => r.todo[1].kind = "special"
          /\ r.at = "find" => r.todo[1].kind \in {"precompute", "forward", "inverse"}
          /\ r.at \in {"enter", "write"} /\ r.todo[1].kind \in {"initialize", "special"} =>
                r.arg % 4 = 0 /\ (r.todo[1].kind = "initialize" => r.arg = r.todo[1].m)
          /\ r.todo[1].kind = "field" =>
                r.ok /\ (r.at = "using" => Cont(tbl, CosSin(r.todo[1].m)) = r.todo[1].m)

\* The section of a part writes no other part's tables ...
Allowed(p, w) ==
    /\ w[1] = M => w[2] % 4 = 0
    /\ w[1][1] = "cosTable" => p.kind = "field"

\* ... and settles the tables the part needs.
Settles(p, arg, ws, tbl) ==
    /\ p.kind \in {"initialize", "special"} => Settled(ws, tbl, M, arg)
    /\ p.kind \in {"precompute", "forward", "inverse"} =>
          \A i \in 1 .. 6 : Settled(ws, tbl, FTT(FTTMaps[i], p.q), p.m)
    /\ p.kind = "pack" => Settled(ws, tbl, InitRoot(p.q, p.m), p.m) /\ Settled(ws, tbl, Perm(p.m), p.m)
    /\ p.kind = "field" => /\ ws = <<<<CosSin(p.m), p.m>>>>
                           /\ Cont(tbl, CosSin(p.m)) # p.m

Section(r, tbl) ==
    /\ r.writes # <<>>
    /\ \A i \in 1 .. Len(r.writes) : Allowed(r.todo[1], r.writes[i])
    /\ Settles(r.todo[1], r.arg, r.writes, tbl)

\* Who writes holds the lock.
Locks(lk, cl) ==
    /\ lk # NoThread => lk \in DOMAIN cl /\ cl[lk].todo # <<>> /\ cl[lk].at = "write"
    /\ \A t \in DOMAIN cl : cl[t].todo # <<>> /\ cl[t].at = "write" => lk = t

Pending(lk, cl) == IF lk = NoThread THEN <<>> ELSE cl[lk].writes

Inv(tbl, lk, cl) ==
    /\ Typed(tbl)
    /\ DOMAIN cl \subseteq Threads /\ cl = [t \in DOMAIN cl |-> cl[t]]
    /\ Locks(lk, cl)
    /\ \A t \in DOMAIN cl : Thread(cl[t], tbl)
    /\ lk # NoThread => Section(cl[lk], tbl)
    /\ Coherent(Pending(lk, cl), tbl)

\* In regions that are not cold: a plaintext of the last ring finds its tables,
Fitted(r, la) ==
    r.fit => /\ r.ok
             /\ \A i \in 1 .. Len(r.todo) : r.todo[i].kind = "special" => r.todo[i].m <= la

\* a single thread has the tables it is about to use,
Alone(r, tbl, la) ==
    r.todo # <<>> =>
        /\ r.at = "using" /\ r.todo[1].kind # "special" => RightIn(tbl, r.todo[1])
        /\ r.at \in {"enter", "write"} /\ r.todo[1].kind = "special" => r.arg = la

\* and the threads of a warm region only read.
Reader(r, tbl) ==
    /\ \A i \in 1 .. Len(r.todo) : WarmPart(tbl, r.todo[i])
    /\ r.at \in {"check", "find", "enter", "using"}
    /\ r.todo # <<>> =>
          /\ r.at = "find" => r.todo[1].kind = "precompute"
          /\ r.at = "enter" => r.todo[1].kind = "field"

LastKept(tbl, lk, cl, la) ==
    \/ Settled(Pending(lk, cl), tbl, M, la)
    \/ lk # NoThread /\ cl[lk].todo[1].kind = "initialize"

Calm(tbl, lk, cl, la) ==
    /\ la \in Nat
    /\ LastKept(tbl, lk, cl, la)
    /\ \A t \in DOMAIN cl : Fitted(cl[t], la)
    /\ \/ \E t \in DOMAIN cl : DOMAIN cl = {t} /\ Alone(cl[t], tbl, la)
       \/ lk = NoThread /\ \A t \in DOMAIN cl : Reader(cl[t], tbl)

IInv ==
    /\ Inv(table, lock, call)
    /\ mixed => cold
    /\ ~mixed => Calm(table, lock, call, last)

-----------------------------------------------------------------------------
(* Steps of one thread that write nothing.                                 *)

\* A thread that is not in a section moves on.
LEMMA LocalInv ==
    ASSUME NEW tbl, NEW lk, NEW cl, Inv(tbl, lk, cl), NEW t \in DOMAIN cl, lk # t,
           NEW me, Thread(me, tbl), me.todo = <<>> \/ me.at # "write"
    PROVE  /\ Inv(tbl, lk, [cl EXCEPT ![t] = me])
           /\ Pending(lk, [cl EXCEPT ![t] = me]) = Pending(lk, cl)
<1> DEFINE new == [cl EXCEPT ![t] = me]
<1>1. /\ DOMAIN new = DOMAIN cl /\ new[t] = me /\ \A u \in DOMAIN cl : u # t => new[u] = cl[u]
      /\ new = [u \in DOMAIN new |-> new[u]]
  BY Zenon
<1> HIDE DEF new
<1>2. lk # NoThread => lk \in DOMAIN cl /\ new[lk] = cl[lk]
  BY <1>1, Zenon DEF Inv, Locks
<1>3. Locks(lk, new)
  BY <1>1, <1>2, Zenon DEF Inv, Locks
<1>4. Pending(lk, new) = Pending(lk, cl)
  BY <1>2, Zenon DEF Pending
<1>5. \A u \in DOMAIN new : Thread(new[u], tbl)
  BY <1>1, Zenon DEF Inv
<1>6. lk # NoThread => Section(new[lk], tbl)
  BY <1>2, Zenon DEF Inv
<1>7. Inv(tbl, lk, new)
  BY <1>1, <1>3, <1>4, <1>5, <1>6, Zenon DEF Inv
<1> QED BY <1>4, <1>7, Zenon DEF new

LEMMA LocalCalm ==
    ASSUME NEW tbl, NEW lk, NEW cl, NEW la, Inv(tbl, lk, cl), Calm(tbl, lk, cl, la),
           NEW t \in DOMAIN cl, lk # t,
           NEW me, Thread(me, tbl), me.todo = <<>> \/ me.at # "write",
           Fitted(cl[t], la) => Fitted(me, la),
           lk = NoThread /\ Alone(cl[t], tbl, la) => Alone(me, tbl, la),
           lk = NoThread /\ Reader(cl[t], tbl) => Reader(me, tbl)
    PROVE  Calm(tbl, lk, [cl EXCEPT ![t] = me], la)
<1> DEFINE new == [cl EXCEPT ![t] = me]
<1>1. /\ DOMAIN new = DOMAIN cl /\ new[t] = me /\ \A u \in DOMAIN cl : u # t => new[u] = cl[u]
  BY Zenon
<1>2. Pending(lk, new) = Pending(lk, cl)
  BY LocalInv
<1> HIDE DEF new
<1>3. lk # NoThread => lk \in DOMAIN cl /\ new[lk] = cl[lk]
  BY <1>1, Zenon DEF Inv, Locks
<1>4. LastKept(tbl, lk, new, la)
  BY <1>2, <1>3, Zenon DEF Calm, LastKept
<1>5. \A u \in DOMAIN new : Fitted(new[u], la)
  BY <1>1, Zenon DEF Calm
<1>6. CASE \E u \in DOMAIN cl : DOMAIN cl = {u} /\ Alone(cl[u], tbl, la)
  <2>1. DOMAIN cl = {t} /\ Alone(cl[t], tbl, la)
    BY <1>6, Zenon
  <2>2. lk = NoThread
    BY <1>3, <2>1, Zenon
  <2>3. DOMAIN new = {t} /\ Alone(new[t], tbl, la)
    BY <1>1, <2>1, <2>2, Zenon
  <2> QED BY <1>1, <1>4, <1>5, <2>3, Zenon DEF Calm, new
<1>7. CASE lk = NoThread /\ \A u \in DOMAIN cl : Reader(cl[u], tbl)
  <2>1. \A u \in DOMAIN new : Reader(new[u], tbl)
    BY <1>1, <1>7, Zenon
  <2> QED BY <1>4, <1>5, <1>7, <2>1, Zenon DEF Calm, new
<1> QED BY <1>6, <1>7, Zenon DEF Calm, new

LEMMA Parted ==
    ASSUME NEW s, Todo(s), s # <<>>
    PROVE  /\ s \in Seq(Parts) /\ Head(s) = s[1] /\ s[1] \in Parts /\ 1 \in 1 .. Len(s)
           /\ Tail(s) \in Seq(Parts) /\ Todo(Tail(s))
           /\ \A i \in 1 .. Len(Tail(s)) : i + 1 \in 1 .. Len(s) /\ Tail(s)[i] = s[i + 1]
           /\ Tail(s) # <<>> => Tail(s)[1].kind # "field"
           /\ s[1].kind = "initialize" =>
                 s[1].m % 4 = 0 /\ \A i \in 1 .. Len(s) : s[i].kind # "special"
<1>1. ASSUME NEW A, A \subseteq Parts, s \in Seq(A)
      PROVE  /\ s \in Seq(Parts) /\ Head(s) = s[1] /\ s[1] \in A /\ 1 \in 1 .. Len(s)
             /\ Tail(s) \in Seq(A) /\ Tail(s) \in Seq(Parts) /\ Len(Tail(s)) = Len(s) - 1
             /\ \A i \in 1 .. Len(s) : s[i] \in A
             /\ \A i \in 1 .. Len(Tail(s)) : i + 1 \in 1 .. Len(s) /\ Tail(s)[i] = s[i + 1]
             /\ Tail(s) # <<>> => Tail(s)[1] \in A /\ Len(s) > 1
  <2>1. Len(s) \in Nat /\ Len(s) > 0 /\ \A i \in 1 .. Len(s) : s[i] \in A
    BY <1>1
  <2>2. s \in Seq(Parts)
    BY <1>1
  <2>3. /\ Head(s) = s[1] /\ 1 \in 1 .. Len(s) /\ Tail(s) \in Seq(A) /\ Len(Tail(s)) = Len(s) - 1
        /\ \A i \in 1 .. Len(Tail(s)) : i + 1 \in 1 .. Len(s) /\ Tail(s)[i] = s[i + 1]
    BY <1>1
  <2>4. Tail(s) \in Seq(Parts)
    BY <1>1, <2>3
  <2>5. Tail(s) # <<>> => Tail(s)[1] \in A /\ Len(s) > 1
    BY <2>1, <2>3
  <2> QED BY <2>1, <2>2, <2>3, <2>4, <2>5, Zenon
<1>2. CASE s \in Seq(GenParts)
  <2>1. GenParts \subseteq Parts /\ \A p \in GenParts : p.kind # "field" /\ p.kind # "special" /\ p.m % 4 = 0
    BY Zenon DEF GenParts
  <2> QED BY <1>1, <1>2, <2>1, Zenon DEF Todo
<1>3. CASE s \in Seq(DataParts)
  <2>1. DataParts \subseteq Parts /\ \A p \in DataParts : p.kind # "field" /\ p.kind # "initialize"
    BY Zenon DEF DataParts
  <2> QED BY <1>1, <1>3, <2>1, Zenon DEF Todo
<1>4. CASE s \in Seq(FieldParts) /\ Len(s) <= 1
  <2>1. FieldParts \subseteq Parts /\ \A p \in FieldParts : p.kind # "initialize"
    BY Zenon DEF FieldParts
  <2>2. ~(Len(s) > 1) /\ Len(s) - 1 <= 1
    BY <1>4
  <2> QED BY <1>1, <1>4, <2>1, <2>2, Zenon DEF Todo
<1> QED BY <1>2, <1>3, <1>4, Zenon DEF Todo

LEMMA Advanced ==
    ASSUME NEW r \in CallRecord, Todo(r.todo), r.todo # <<>>, NEW tbl, NEW t
    PROVE  /\ Thread(Advance(t, r), tbl) /\ Advance(t, r) \in CallRecord
           /\ Advance(t, r).at = "check" /\ Advance(t, r).todo = Tail(r.todo)
           /\ Advance(t, r).ok = r.ok /\ Advance(t, r).fit = r.fit
           /\ \A la : Alone(Advance(t, r), tbl, la)
           /\ \A la : Fitted(r, la) => Fitted(Advance(t, r), la)
           /\ (\A i \in 1 .. Len(r.todo) : WarmPart(tbl, r.todo[i])) => Reader(Advance(t, r), tbl)
<1> DEFINE me == Advance(t, r)
           s == r.todo
<1>1. /\ Tail(s) \in Seq(Parts) /\ Todo(Tail(s))
      /\ \A i \in 1 .. Len(Tail(s)) : i + 1 \in 1 .. Len(s) /\ Tail(s)[i] = s[i + 1]
      /\ Tail(s) # <<>> => Tail(s)[1].kind # "field"
  BY Parted, Zenon
<1>2. /\ me \in CallRecord /\ me.at = "check" /\ me.todo = Tail(s) /\ me.ok = r.ok /\ me.fit = r.fit
  BY <1>1, Zenon DEF Advance, CallRecord, Places
<1> HIDE DEF me
<1>3. Thread(me, tbl)
  BY <1>1, <1>2, Zenon DEF Thread
<1>4. \A la : Alone(me, tbl, la)
  BY <1>2, Zenon DEF Alone
<1>5. ASSUME NEW la, Fitted(r, la) PROVE Fitted(me, la)
  BY <1>1, <1>2, <1>5, ZenonT(60) DEF Fitted
<1>6. ASSUME \A i \in 1 .. Len(s) : WarmPart(tbl, s[i]) PROVE Reader(me, tbl)
  <2>1. \A i \in 1 .. Len(me.todo) : WarmPart(tbl, me.todo[i])
    BY <1>1, <1>2, <1>6, Zenon
  <2>2. me.at \in {"check", "find", "enter", "using"} /\ me.at # "find" /\ me.at # "enter"
    BY <1>2, Zenon
  <2> QED BY <2>1, <2>2, Zenon DEF Reader
<1> QED BY <1>2, <1>3, <1>4, <1>5, <1>6, Zenon DEF me

\* A thread goes to another place of the same part.
LEMMA Moved ==
    ASSUME NEW r \in CallRecord, NEW place \in Places, NEW n \in Nat
    PROVE  /\ [r EXCEPT !.at = place] \in CallRecord
           /\ [r EXCEPT !.at = place].at = place /\ [r EXCEPT !.at = place].todo = r.todo
           /\ [r EXCEPT !.at = place].arg = r.arg /\ [r EXCEPT !.at = place].ok = r.ok
           /\ [r EXCEPT !.at = place].fit = r.fit
           /\ [[r EXCEPT !.at = place] EXCEPT !.arg = n] \in CallRecord
           /\ [[r EXCEPT !.at = place] EXCEPT !.arg = n].at = place
           /\ [[r EXCEPT !.at = place] EXCEPT !.arg = n].todo = r.todo
           /\ [[r EXCEPT !.at = place] EXCEPT !.arg = n].arg = n
           /\ [[r EXCEPT !.at = place] EXCEPT !.arg = n].ok = r.ok
           /\ [[r EXCEPT !.at = place] EXCEPT !.arg = n].fit = r.fit
BY Zenon DEF CallRecord

LEMMA LocalStep ==
    ASSUME IInv, NEW t \in Threads, Running(t), call[t].at # "write",
           NEW me, Stay(t, me), UNCHANGED <<lock, last, cold, mixed>>,
           Thread(me, table), me.todo = <<>> \/ me.at # "write",
           ~mixed /\ Fitted(call[t], last) => Fitted(me, last),
           ~mixed /\ lock = NoThread /\ Alone(call[t], table, last) => Alone(me, table, last),
           lock = NoThread /\ Reader(call[t], table) => Reader(me, table)
    PROVE  IInv'
<1>1. t \in DOMAIN call /\ lock # t
  BY TablesAssumption, Zenon DEF IInv, Inv, Locks, Running
<1>2. /\ call' = [call EXCEPT ![t] = me] /\ table' = table /\ lock' = lock
      /\ last' = last /\ cold' = cold /\ mixed' = mixed
  BY Zenon DEF Stay
<1>3. Inv(table, lock, [call EXCEPT ![t] = me])
  BY <1>1, LocalInv, Zenon DEF IInv
<1>4. ~mixed => Calm(table, lock, [call EXCEPT ![t] = me], last)
  BY <1>1, LocalCalm, Zenon DEF IInv
<1>5. Inv(table', lock', call')
  BY <1>2, <1>3, Zenon
<1>6. ~mixed' => Calm(table', lock', call', last')
  BY <1>2, <1>4
<1>7. mixed' => cold'
  BY <1>2 DEF IInv
<1> QED BY <1>5, <1>6, <1>7, Zenon DEF IInv

LEMMA RunningThread ==
    ASSUME IInv, NEW t \in Threads, Running(t)
    PROVE  /\ t \in DOMAIN call /\ call[t] \in CallRecord /\ Thread(call[t], table)
           /\ call[t].todo # <<>> /\ Todo(call[t].todo)
           /\ Now(t) = call[t].todo[1] /\ Now(t) \in Parts /\ t # NoThread
           /\ call[t].at # "write" => lock # t
           /\ Reader(call[t], table) => WarmPart(table, Now(t))
<1>1. t \in DOMAIN call /\ call[t].todo # <<>> /\ Thread(call[t], table) /\ t # NoThread
  BY TablesAssumption, Zenon DEF Running, IInv, Inv
<1>2. call[t] \in CallRecord /\ Todo(call[t].todo)
  BY <1>1, Zenon DEF Thread
<1>3. /\ Now(t) = call[t].todo[1] /\ call[t].todo[1] \in Parts /\ 1 \in 1 .. Len(call[t].todo)
  BY <1>1, <1>2, Parted, Zenon DEF Now
<1>4. call[t].at # "write" => lock # t
  BY <1>1, Zenon DEF IInv, Inv, Locks
<1>5. Reader(call[t], table) => WarmPart(table, Now(t))
  BY <1>3, Zenon DEF Reader
<1> QED BY <1>1, <1>2, <1>3, <1>4, <1>5, Zenon

LEMMA Contents ==
    /\ \A k : Content(k) = Cont(table, k)
    /\ \A q, m : Found(q, m) <=> FoundIn(table, q, m)
    /\ \A p : Right(p) <=> RightIn(table, p)
<1>1. \A k : Content(k) = Cont(table, k)
  BY Zenon DEF Content, Cont
<1>2. \A q, m : Found(q, m) <=> FoundIn(table, q, m)
  BY Zenon DEF Found, FoundIn
<1>3. \A p : Right(p) <=> RightIn(table, p)
  BY <1>1, Zenon DEF Right, RightIn
<1> QED BY <1>1, <1>2, <1>3, Zenon

LEMMA ReadsOf ==
    ASSUME NEW p \in Parts
    PROVE  /\ p.kind \in {"initialize", "precompute"} => Reads(p) = {}
           /\ p.kind = "forward" => Reads(p) = {FTT("reverse", p.q), FTT("precon", p.q)}
           /\ p.kind = "inverse" =>
                 Reads(p) = {FTT(n, p.q) : n \in {"inverse", "cycloInv", "preconI", "preconCOI"}}
           /\ p.kind = "pack" => Reads(p) = {InitRoot(p.q, p.m), Perm(p.m)}
           /\ p.kind = "field" => Reads(p) = {CosSin(p.m)}
           /\ p.kind = "special" => Reads(p) = {M, Rot, Ksi}
<1> DEFINE inv == {FTT(n, p.q) : n \in {"inverse", "cycloInv", "preconI", "preconCOI"}}
<1>1. p.kind = "inverse" => Reads(p) = inv
  <2> HIDE DEF inv
  <2> QED BY Zenon DEF Reads, inv
<1>2. /\ p.kind \in {"initialize", "precompute"} => Reads(p) = {}
      /\ p.kind = "forward" => Reads(p) = {FTT("reverse", p.q), FTT("precon", p.q)}
      /\ p.kind = "pack" => Reads(p) = {InitRoot(p.q, p.m), Perm(p.m)}
      /\ p.kind = "field" => Reads(p) = {CosSin(p.m)}
      /\ p.kind = "special" => Reads(p) = {M, Rot, Ksi}
  BY Zenon DEF Reads
<1> QED BY <1>1, <1>2, Zenon

\* With the lock free the tables are what they will be.
LEMMA FreeTables ==
    ASSUME IInv, lock = NoThread
    PROVE  /\ \A q \in Nat : \E m : \A i \in 1 .. 6 : Cont(table, FTT(FTTMaps[i], q)) = m
           /\ Cont(table, Rot) = Cont(table, M) /\ Cont(table, Ksi) = Cont(table, M)
           /\ Cont(table, Nh) = Cont(table, M) \div 4
           /\ \A q, m \in Nat : \/ Cont(table, InitRoot(q, m)) = 0
                                \/ Cont(table, InitRoot(q, m)) = m /\ Cont(table, Perm(m)) = m
           /\ ~mixed => Cont(table, M) = last
<1>1. Coherent(<<>>, table)
  BY Zenon DEF IInv, Inv, Pending
<1>2. \A k, v : Settled(<<>>, table, k, v) <=> Cont(table, k) = v
  BY SettledNone, Zenon
<1>3. \A q \in Nat : \E m : \A i \in 1 .. 6 : Cont(table, FTT(FTTMaps[i], q)) = m
  BY <1>1, <1>2, Zenon DEF Coherent, CoherentFTT
<1>4. /\ Cont(table, Rot) = Cont(table, M) /\ Cont(table, Ksi) = Cont(table, M)
      /\ Cont(table, Nh) = Cont(table, M) \div 4
  <2>1. PICK m : /\ Cont(table, M) = m /\ Cont(table, Nh) = m \div 4
                 /\ Cont(table, Rot) = m /\ Cont(table, Ksi) = m
    BY <1>1, <1>2, Zenon DEF Coherent, CoherentDFT
  <2> QED BY <2>1, Zenon
<1>5. \A q, m \in Nat : \/ Cont(table, InitRoot(q, m)) = 0
                        \/ Cont(table, InitRoot(q, m)) = m /\ Cont(table, Perm(m)) = m
  BY <1>1, <1>2, Zenon DEF Coherent, CoherentPack
<1>6. ~mixed => Cont(table, M) = last
  BY <1>2, Zenon DEF IInv, Calm, LastKept, Pending
<1> QED BY <1>3, <1>4, <1>5, <1>6, Zenon

\* The test of the NTT tables is the right one, in both directions.
LEMMA FoundIsRight ==
    ASSUME IInv, lock = NoThread, NEW p \in Parts, p.kind \in {"forward", "inverse"}
    PROVE  FoundIn(table, p.q, p.m) <=> RightIn(table, p)
<1>1. p.q \in Nat /\ p.m \in Nat /\ p.m # 0 /\ p.kind # "special"
  BY Zenon DEF Parts
<1>2. PICK m : \A i \in 1 .. 6 : Cont(table, FTT(FTTMaps[i], p.q)) = m
  BY <1>1, FreeTables, Zenon
<1>3. \A n \in FTTNames : Cont(table, FTT(n, p.q)) = m
  BY <1>2, MapNames, Zenon
<1>4. /\ "reverse" \in FTTNames /\ "precon" \in FTTNames
      /\ {"inverse", "cycloInv", "preconI", "preconCOI"} \subseteq FTTNames
  BY MapNames, Zenon
<1>5. FoundIn(table, p.q, p.m) <=> m = p.m
  <2>1. Cont(table, FTT("reverse", p.q)) = m
    BY <1>3, <1>4, Zenon
  <2> QED BY <1>1, <2>1, Zenon DEF FoundIn, Cont
<1>6. RightIn(table, p) <=> \A k \in Reads(p) : Cont(table, k) = p.m
  BY <1>1, Zenon DEF RightIn
<1>7. CASE p.kind = "forward"
  <2>1. Reads(p) = {FTT("reverse", p.q), FTT("precon", p.q)}
    BY <1>7, ReadsOf, Zenon
  <2>2. (\A k \in Reads(p) : Cont(table, k) = p.m) <=> m = p.m
    BY <1>3, <1>4, <2>1, Zenon
  <2> QED BY <1>5, <1>6, <2>2, Zenon
<1>8. CASE p.kind = "inverse"
  <2>1. Reads(p) = {FTT(n, p.q) : n \in {"inverse", "cycloInv", "preconI", "preconCOI"}}
    BY <1>8, ReadsOf, Zenon
  <2>2. \A k \in Reads(p) : Cont(table, k) = m
    BY <1>3, <1>4, <2>1, Zenon
  <2>3. FTT("inverse", p.q) \in Reads(p)
    BY <2>1, Zenon
  <2>4. (\A k \in Reads(p) : Cont(table, k) = p.m) <=> m = p.m
    BY <2>2, <2>3, Zenon
  <2> QED BY <1>5, <1>6, <2>4, Zenon
<1> QED BY <1>7, <1>8, Zenon

LEMMA PackIsRight ==
    ASSUME IInv, lock = NoThread, NEW p \in Parts, p.kind = "pack"
    PROVE  Cont(table, InitRoot(p.q, p.m)) # 0 <=> RightIn(table, p)
<1>1. p.q \in Nat /\ p.m \in Nat /\ p.m # 0 /\ p.kind # "special"
  BY Zenon DEF Parts
<1>2. \/ Cont(table, InitRoot(p.q, p.m)) = 0
      \/ Cont(table, InitRoot(p.q, p.m)) = p.m /\ Cont(table, Perm(p.m)) = p.m
  BY <1>1, FreeTables, Zenon
<1>3. RightIn(table, p) <=>
         Cont(table, InitRoot(p.q, p.m)) = p.m /\ Cont(table, Perm(p.m)) = p.m
  BY <1>1, ReadsOf, Zenon DEF RightIn
<1> QED BY <1>1, <1>2, <1>3, Zenon

\* A thread goes to another place of its part: what it has to know there.
LEMMA GotoStep ==
    ASSUME IInv, NEW t \in Threads, Running(t), call[t].at # "write",
           NEW me \in CallRecord, me.todo = call[t].todo, me.ok = call[t].ok, me.fit = call[t].fit,
           Stay(t, me), UNCHANGED <<lock, last, cold, mixed>>,
           NEW p, p = Now(t), me.at # "write",
           me.at = "reread" => p.kind = "special",
           me.at = "find" => p.kind \in {"precompute", "forward", "inverse"},
           me.at = "enter" /\ p.kind \in {"initialize", "special"} =>
               me.arg % 4 = 0 /\ (p.kind = "initialize" => me.arg = p.m),
           me.at = "using" /\ p.kind = "field" => Cont(table, CosSin(p.m)) = p.m,
           me.at = "using" /\ p.kind # "special" /\ lock = NoThread => RightIn(table, p),
           me.at = "enter" /\ p.kind = "special" /\ lock = NoThread /\ ~mixed => me.arg = last,
           lock = NoThread /\ Reader(call[t], table) =>
               \/ me.at = "find" /\ p.kind = "precompute"
               \/ me.at = "enter" /\ p.kind = "field"
               \/ me.at = "using"
    PROVE  IInv'
<1>1. /\ Thread(call[t], table) /\ Todo(call[t].todo) /\ call[t].todo # <<>>
      /\ p = call[t].todo[1]
  BY RunningThread, Zenon
<1>2. Thread(me, table)
  BY <1>1, Zenon DEF Thread
<1>3. Fitted(call[t], last) => Fitted(me, last)
  BY Zenon DEF Fitted
<1>4. ~mixed /\ lock = NoThread => Alone(me, table, last)
  BY <1>1, Zenon DEF Alone
<1>5. ASSUME lock = NoThread, Reader(call[t], table) PROVE Reader(me, table)
  <2>1. \A i \in 1 .. Len(me.todo) : WarmPart(table, me.todo[i])
    BY <1>5, Zenon DEF Reader
  <2>2. \/ me.at = "find" /\ p.kind = "precompute"
        \/ me.at = "enter" /\ p.kind = "field"
        \/ me.at = "using"
    BY <1>5, Zenon
  <2> QED BY <1>1, <2>1, <2>2, Zenon DEF Reader
<1> QED BY <1>2, <1>3, <1>4, <1>5, LocalStep, Zenon

LEMMA RereadStep ==
    ASSUME IInv, NEW t \in Threads, Reread(t)
    PROVE  IInv'
<1> DEFINE me == [Goto(t, "enter") EXCEPT !.arg = Content(M)]
           p == Now(t)
<1>1. /\ Running(t) /\ call[t].at = "reread" /\ Stay(t, me) /\ UNCHANGED <<lock, last, cold, mixed>>
  BY Zenon DEF Reread
<1>2. call[t] \in CallRecord /\ Thread(call[t], table) /\ call[t].todo # <<>> /\ p = call[t].todo[1] /\ p \in Parts
  BY <1>1, RunningThread, Zenon
<1>3. Content(M) = Cont(table, M) /\ Cont(table, M) \in Nat /\ Cont(table, M) % 4 = 0
  BY Contents, StaticKeys, Zenon DEF IInv, Inv, Typed, Statics
<1>4. /\ me \in CallRecord /\ me.at = "enter" /\ me.todo = call[t].todo /\ me.ok = call[t].ok
      /\ me.fit = call[t].fit /\ me.arg = Cont(table, M)
  <2>1. "enter" \in Places
    BY Zenon DEF Places
  <2>2. me = [[call[t] EXCEPT !.at = "enter"] EXCEPT !.arg = Cont(table, M)]
    BY <1>3, Zenon DEF Goto
  <2> HIDE DEF me
  <2> QED BY <1>2, <1>3, <2>1, <2>2, Zenon DEF CallRecord
<1>5. p.kind = "special"
  BY <1>1, <1>2, Zenon DEF Thread
<1>6. lock = NoThread /\ ~mixed => me.arg = last
  BY <1>4, FreeTables, Zenon
<1>7. ~Reader(call[t], table)
  BY <1>1, <1>2, Zenon DEF Reader
<1> HIDE DEF me, p
<1>8. p = Now(t)
  BY Zenon DEF p
<1> QED BY <1>1, <1>3, <1>4, <1>5, <1>6, <1>7, <1>8, GotoStep, Zenon

LEMMA GotoPlace ==
    ASSUME IInv, NEW t \in Threads, Running(t), NEW place \in Places
    PROVE  /\ Goto(t, place) \in CallRecord /\ Goto(t, place).at = place
           /\ Goto(t, place).todo = call[t].todo /\ Goto(t, place).ok = call[t].ok
           /\ Goto(t, place).fit = call[t].fit /\ Goto(t, place).arg = call[t].arg
<1>1. call[t] \in CallRecord /\ 0 \in Nat
  BY RunningThread, Zenon
<1> QED BY <1>1, Moved, ZenonT(60) DEF Goto

\* The end of a part whose section has been left, or that found its tables.
LEMMA AdvanceStep ==
    ASSUME IInv, NEW t \in Threads, Running(t), call[t].at # "write",
           NEW r \in CallRecord, r.todo = call[t].todo, r.fit = call[t].fit,
           Stay(t, Advance(t, r)), UNCHANGED <<lock, last, cold, mixed>>,
           ~mixed /\ Fitted(call[t], last) => Fitted(r, last)
    PROVE  IInv'
<1> DEFINE me == Advance(t, r)
<1>1. call[t].todo # <<>> /\ Todo(call[t].todo)
  BY RunningThread, Zenon
<1>2. /\ Thread(me, table) /\ me.at = "check" /\ \A la : Alone(me, table, la)
      /\ Fitted(r, last) => Fitted(me, last)
      /\ (\A i \in 1 .. Len(r.todo) : WarmPart(table, r.todo[i])) => Reader(me, table)
  BY <1>1, Advanced, Zenon
<1>3. Reader(call[t], table) => Reader(me, table)
  BY <1>2, Zenon DEF Reader
<1>4. me.at # "write"
  BY <1>2, Zenon
<1> HIDE DEF me
<1>5. Stay(t, me)
  BY Zenon DEF me
<1> QED BY <1>2, <1>3, <1>4, <1>5, LocalStep, Zenon

LEMMA FindStep ==
    ASSUME IInv, NEW t \in Threads, Find(t)
    PROVE  IInv'
<1> DEFINE p == Now(t)
<1>1. Running(t) /\ call[t].at = "find" /\ UNCHANGED <<lock, last, cold, mixed>>
  BY Zenon DEF Find
<1>2. /\ call[t] \in CallRecord /\ Thread(call[t], table) /\ call[t].todo # <<>>
      /\ p = call[t].todo[1] /\ p \in Parts
      /\ Reader(call[t], table) => WarmPart(table, p)
  BY <1>1, RunningThread, Zenon
<1>3. p.kind \in {"precompute", "forward", "inverse"}
  BY <1>1, <1>2, Zenon DEF Thread
<1>4. Found(p.q, p.m) <=> FoundIn(table, p.q, p.m)
  BY Contents, Zenon
<1>5. Reader(call[t], table) => FoundIn(table, p.q, p.m) /\ p.kind = "precompute"
  <2>1. Reader(call[t], table) => p.kind = "precompute"
    BY <1>1, <1>2, Zenon DEF Reader
  <2>2. p.kind = "precompute" => (WarmPart(table, p) <=> FoundIn(table, p.q, p.m))
    BY Zenon DEF WarmPart
  <2> QED BY <1>2, <2>1, <2>2, Zenon
<1>6. call[t].at # "write"
  BY <1>1, Zenon
<1>7. CASE ~Found(p.q, p.m)
  <2> DEFINE me == Goto(t, "enter")
  <2>1. Stay(t, me)
    BY <1>7, Zenon DEF Find
  <2>2. "enter" \in Places
    BY Zenon DEF Places
  <2>3. /\ me \in CallRecord /\ me.at = "enter" /\ me.todo = call[t].todo /\ me.ok = call[t].ok
        /\ me.fit = call[t].fit
    BY <1>1, <2>2, GotoPlace, Zenon
  <2>4. ~Reader(call[t], table)
    BY <1>4, <1>5, <1>7, Zenon
  <2> HIDE DEF me
  <2> QED BY <1>1, <1>3, <1>6, <2>1, <2>3, <2>4, GotoStep, Zenon
<1>8. CASE Found(p.q, p.m) /\ p.kind = "precompute"
  <2>1. Stay(t, Advance(t, call[t]))
    BY <1>8, Zenon DEF Find
  <2> QED BY <1>1, <1>2, <1>6, <2>1, AdvanceStep, Zenon
<1>9. CASE Found(p.q, p.m) /\ p.kind # "precompute"
  <2> DEFINE me == Goto(t, "using")
  <2>1. Stay(t, me)
    BY <1>9, Zenon DEF Find
  <2>2. "using" \in Places
    BY Zenon DEF Places
  <2>3. /\ me \in CallRecord /\ me.at = "using" /\ me.todo = call[t].todo /\ me.ok = call[t].ok
        /\ me.fit = call[t].fit
    BY <1>1, <2>2, GotoPlace, Zenon
  <2>4. ~Reader(call[t], table)
    BY <1>5, <1>9, Zenon
  <2>5. lock = NoThread => RightIn(table, p)
    BY <1>2, <1>3, <1>4, <1>9, FoundIsRight, Zenon
  <2> HIDE DEF me
  <2> QED BY <1>1, <1>3, <1>6, <2>1, <2>3, <2>4, <2>5, GotoStep, Zenon
<1> QED BY <1>7, <1>8, <1>9, Zenon

\* In a region that is not cold, a transform of a plaintext of the last ring, or
\* of any other data, is about to compute with the right tables.
LEMMA CalmRight ==
    ASSUME IInv, ~mixed, NEW t \in Threads, Running(t), call[t].at = "using", call[t].fit
    PROVE  Right(Now(t)) /\ call[t].ok
<1> DEFINE p == Now(t)
           s == call[t].todo
<1>1. /\ t \in DOMAIN call /\ s # <<>> /\ p = s[1] /\ p \in Parts /\ Todo(s) /\ t # NoThread
      /\ call[t].at # "write" => lock # t
      /\ Reader(call[t], table) => WarmPart(table, p)
  BY RunningThread, Zenon
<1>2. 1 \in 1 .. Len(s)
  BY <1>1, Parted, Zenon
<1>3. Calm(table, lock, call, last)
  BY Zenon DEF IInv
<1>4. Fitted(call[t], last)
  BY <1>1, <1>3, Zenon DEF Calm
<1>5. call[t].ok /\ (p.kind = "special" => p.m <= last)
  BY <1>1, <1>2, <1>4, Zenon DEF Fitted
<1>6. lock = NoThread
  <2>1. lock # t
    BY <1>1, Zenon
  <2>2. lock # NoThread => lock \in DOMAIN call
    BY Zenon DEF IInv, Inv, Locks
  <2> QED BY <1>1, <1>3, <2>1, <2>2, Zenon DEF Calm
<1>7. Right(p) <=> RightIn(table, p)
  BY Contents, Zenon
<1>8. CASE p.kind = "special"
  <2>1. Cont(table, M) = last /\ Cont(table, Rot) = Cont(table, M) /\ Cont(table, Ksi) = Cont(table, M)
    BY <1>6, FreeTables, Zenon
  <2>2. last \in Nat /\ p.m \in Nat
    BY <1>1, <1>3, Zenon DEF Calm, Parts
  <2>3. Cont(table, M) >= p.m
    BY <1>5, <1>8, <2>1, <2>2, Zenon
  <2>4. RightIn(table, p)
    BY <1>8, <2>1, <2>3, Zenon DEF RightIn
  <2> QED BY <1>5, <1>7, <2>4, Zenon
<1>9. CASE p.kind # "special"
  <2>1. CASE Alone(call[t], table, last)
    BY <1>1, <1>5, <1>7, <1>9, <2>1, Zenon DEF Alone
  <2>2. CASE Reader(call[t], table)
    <3>1. WarmPart(table, p)
      BY <1>1, <2>2, Zenon
    <3>2. CASE p.kind \in {"initialize", "precompute"}
      <4>1. RightIn(table, p)
        BY <1>1, <1>9, <3>2, ReadsOf, Zenon DEF RightIn
      <4> QED BY <1>5, <1>7, <4>1, Zenon
    <3>3. CASE p.kind \notin {"initialize", "precompute"}
      <4>1. RightIn(table, p)
        BY <1>9, <3>1, <3>3, Zenon DEF WarmPart
      <4> QED BY <1>5, <1>7, <4>1, Zenon
    <3> QED BY <3>2, <3>3, Zenon
  <2> QED BY <1>1, <1>3, <2>1, <2>2, Zenon DEF Calm
<1> QED BY <1>8, <1>9, Zenon

LEMMA TransformStep ==
    ASSUME IInv, NEW t \in Threads, Transform(t)
    PROVE  IInv'
<1> DEFINE p == Now(t)
           r == [call[t] EXCEPT !.ok = @ /\ Right(p)]
<1>1. /\ Running(t) /\ call[t].at = "using" /\ UNCHANGED <<lock, last, cold, mixed>>
      /\ Stay(t, Advance(t, r))
  BY Zenon DEF Transform
<1>2. call[t] \in CallRecord /\ call[t].at # "write"
  BY <1>1, RunningThread, Zenon
<1>3. /\ r \in CallRecord /\ r.todo = call[t].todo /\ r.fit = call[t].fit
      /\ call[t].ok /\ Right(p) => r.ok
  <2>1. (call[t].ok /\ Right(p)) \in BOOLEAN
    BY Zenon
  <2> DEFINE b == call[t].ok /\ Right(p)
  <2>2. r = [call[t] EXCEPT !.ok = b]
    BY <1>2, Zenon DEF CallRecord
  <2> HIDE DEF b, r
  <2>3. b \in BOOLEAN /\ (call[t].ok /\ Right(p) => b = TRUE)
    BY <2>1, Zenon DEF b
  <2>4. r \in CallRecord /\ r.todo = call[t].todo /\ r.fit = call[t].fit /\ r.ok = b
    BY <1>2, <2>2, <2>3, Zenon DEF CallRecord
  <2> QED BY <2>3, <2>4, Zenon
<1> HIDE DEF r
<1>4. ASSUME ~mixed, Fitted(call[t], last) PROVE Fitted(r, last)
  <2>1. CASE call[t].fit
    BY <1>1, <1>3, <1>4, <2>1, CalmRight, Zenon DEF Fitted
  <2>2. CASE ~call[t].fit
    BY <1>3, <2>2, Zenon DEF Fitted
  <2> QED BY <2>1, <2>2, Zenon
<1> QED BY <1>1, <1>2, <1>3, <1>4, AdvanceStep, Zenon

LEMMA GotoCheck ==
    ASSUME IInv, NEW t \in Threads, Running(t), call[t].at # "write",
           NEW place \in Places, place # "write",
           Stay(t, Goto(t, place)), UNCHANGED <<lock, last, cold, mixed>>,
           NEW p, p = Now(t), p.kind # "initialize",
           place = "reread" => p.kind = "special",
           place = "find" => p.kind \in {"precompute", "forward", "inverse"},
           place = "enter" => p.kind # "special",
           place = "using" => p.kind # "field",
           place = "using" /\ p.kind # "special" /\ lock = NoThread => RightIn(table, p),
           lock = NoThread /\ WarmPart(table, p) =>
               \/ place = "find" /\ p.kind = "precompute"
               \/ place = "enter" /\ p.kind = "field"
               \/ place = "using"
    PROVE  IInv'
<1> DEFINE me == Goto(t, place)
<1>1. /\ me \in CallRecord /\ me.at = place /\ me.todo = call[t].todo /\ me.ok = call[t].ok
      /\ me.fit = call[t].fit
  BY GotoPlace, Zenon
<1>2. Reader(call[t], table) => WarmPart(table, p)
  BY RunningThread, Zenon
<1>3. Stay(t, me)
  BY Zenon
<1> HIDE DEF me
<1>4. me.at = "enter" => p.kind \notin {"initialize", "special"}
  BY <1>1, Zenon
<1>5. me.at = "using" => p.kind # "field"
  BY <1>1, Zenon
<1>6. lock = NoThread /\ Reader(call[t], table) =>
               \/ me.at = "find" /\ p.kind = "precompute"
               \/ me.at = "enter" /\ p.kind = "field"
               \/ me.at = "using"
  BY <1>1, <1>2, Zenon
<1> QED BY <1>1, <1>3, <1>4, <1>5, <1>6, GotoStep, Zenon

\* The tests, except the one of the packed encoding that makes an entry.
LEMMA CheckGoes ==
    ASSUME IInv, NEW t \in Threads, Check(t),
           ~(Now(t).kind = "pack" /\ InitRoot(Now(t).q, Now(t).m) \notin DOMAIN table)
    PROVE  IInv'
<1> DEFINE p == Now(t)
<1>1. Running(t) /\ call[t].at = "check" /\ call[t].at # "write" /\ UNCHANGED <<lock, last, cold, mixed>>
  BY Zenon DEF Check
<1>2. p \in Parts /\ p = call[t].todo[1] /\ Todo(call[t].todo) /\ call[t].todo # <<>> /\ call[t] \in CallRecord
  BY <1>1, RunningThread, Zenon
<1>3. "using" \in Places /\ "reread" \in Places /\ "find" \in Places /\ "enter" \in Places
  BY Zenon DEF Places
<1>4. p.kind \in Kinds
  BY <1>2, Zenon DEF Parts
<1>5. p = Now(t)
  BY Zenon
<1>c. CASE p.kind = "special"
  <2>1. Stay(t, Goto(t, IF Content(Flag) = 1 THEN "using" ELSE "reread"))
    BY <1>c, Zenon DEF Check
  <2>2. WarmPart(table, p) => Content(Flag) = 1
    BY <1>c, Contents, Zenon DEF WarmPart
  <2> HIDE DEF p
  <2>3. CASE Content(Flag) = 1
    <3>1. Stay(t, Goto(t, "using"))
      BY <2>1, <2>3, Zenon
    <3> QED BY <1>1, <1>3, <1>5, <1>c, <3>1, GotoCheck, Zenon
  <2>4. CASE Content(Flag) # 1
    <3>1. Stay(t, Goto(t, "reread"))
      BY <2>1, <2>4, Zenon
    <3> QED BY <1>1, <1>3, <1>5, <1>c, <2>2, <2>4, <3>1, GotoCheck, Zenon
  <2> QED BY <2>3, <2>4, Zenon
<1>d. CASE p.kind \in {"forward", "inverse"}
  <2>1. Stay(t, Goto(t, IF Found(p.q, p.m) THEN "using" ELSE "find"))
    BY <1>d, Zenon DEF Check
  <2>2. WarmPart(table, p) => RightIn(table, p)
    BY <1>d, Zenon DEF WarmPart
  <2>3. lock = NoThread => (Found(p.q, p.m) <=> RightIn(table, p))
    BY <1>2, <1>d, Contents, FoundIsRight, Zenon
  <2> HIDE DEF p
  <2>4. CASE Found(p.q, p.m)
    <3>1. Stay(t, Goto(t, "using"))
      BY <2>1, <2>4, Zenon
    <3> QED BY <1>1, <1>3, <1>5, <1>d, <2>3, <2>4, <3>1, GotoCheck, SMTT(60)
  <2>5. CASE ~Found(p.q, p.m)
    <3>1. Stay(t, Goto(t, "find"))
      BY <2>1, <2>5, Zenon
    <3> QED BY <1>1, <1>3, <1>5, <1>d, <2>2, <2>3, <2>5, <3>1, GotoCheck, ZenonT(60)
  <2> QED BY <2>4, <2>5, Zenon
<1>e. CASE p.kind = "precompute"
  <2>1. Stay(t, Goto(t, "find"))
    BY <1>e, Zenon DEF Check
  <2> HIDE DEF p
  <2> QED BY <1>1, <1>3, <1>5, <1>e, <2>1, GotoCheck
<1>f. CASE p.kind = "pack"
  <2>1. Stay(t, Goto(t, IF Content(InitRoot(p.q, p.m)) # 0 THEN "using" ELSE "enter"))
    BY <1>f, Zenon DEF Check
  <2>2. WarmPart(table, p) => RightIn(table, p)
    BY <1>f, Zenon DEF WarmPart
  <2>3. lock = NoThread => (Content(InitRoot(p.q, p.m)) # 0 <=> RightIn(table, p))
    BY <1>2, <1>f, Contents, PackIsRight, Zenon
  <2> HIDE DEF p
  <2>4. CASE Content(InitRoot(p.q, p.m)) # 0
    <3>1. Stay(t, Goto(t, "using"))
      BY <2>1, <2>4, Zenon
    <3> QED BY <1>1, <1>3, <1>5, <1>f, <2>3, <2>4, <3>1, GotoCheck, ZenonT(60)
  <2>5. CASE ~(Content(InitRoot(p.q, p.m)) # 0)
    <3>1. Stay(t, Goto(t, "enter"))
      BY <2>1, <2>5, Zenon
    <3> QED BY <1>1, <1>3, <1>5, <1>f, <2>2, <2>3, <2>5, <3>1, GotoCheck, ZenonT(60)
  <2> QED BY <2>4, <2>5, Zenon
<1>g. CASE p.kind = "initialize"
  <2> DEFINE me == [Goto(t, "enter") EXCEPT !.arg = p.m]
  <2>1. Stay(t, me)
    BY <1>g, Zenon DEF Check
  <2>2. p.m \in Nat /\ p.m % 4 = 0
    <3>1. p.m % 4 = 0
      BY <1>2, <1>g, Parted, Zenon
    <3> QED BY <1>2, <3>1, Zenon DEF Parts
  <2>3. /\ me \in CallRecord /\ me.at = "enter" /\ me.todo = call[t].todo /\ me.ok = call[t].ok
        /\ me.fit = call[t].fit /\ me.arg = p.m
    <3>1. me = [[call[t] EXCEPT !.at = "enter"] EXCEPT !.arg = p.m]
      BY Zenon DEF Goto
    <3> HIDE DEF me, p
    <3> QED BY <1>2, <1>3, <2>2, <3>1, Zenon DEF CallRecord
  <2>4. ~Reader(call[t], table)
    <3>1. ~WarmPart(table, p)
      BY <1>g, Zenon DEF WarmPart
    <3> QED BY <1>1, <3>1, RunningThread, Zenon
  <2> HIDE DEF me, p
  <2> QED BY <1>1, <1>5, <1>g, <2>1, <2>2, <2>3, <2>4, GotoStep, Zenon
<1>h. CASE p.kind = "field"
  <2>1. Stay(t, Goto(t, "enter"))
    BY <1>h, Zenon DEF Check
  <2> HIDE DEF p
  <2> QED BY <1>1, <1>3, <1>5, <1>h, <2>1, GotoCheck
<1> QED BY <1>4, <1>c, <1>d, <1>e, <1>f, <1>g, <1>h, Zenon DEF Kinds

-----------------------------------------------------------------------------
(* Steps that write a table.                                               *)

\* A table of Field2n is only ever written once, with what it is for.
FreshCosSin(tbl, k, v) ==
    k[1] = "cosTable" => \E m \in Nat : k = CosSin(m) /\ v = m /\ Cont(tbl, k) # m

\* What a write means for the other threads: the result of a transform may be
\* lost, except that of a Field2n transform.
LEMMA Others ==
    ASSUME IInv, NEW t \in DOMAIN call, NEW k \in Key, NEW v \in Nat, NEW mine,
           Store(t, k, v, mine), FreshCosSin(table, k, v), NEW u \in DOMAIN call, u # t
    PROVE  /\ Thread(call'[u], table') /\ call'[u].todo = call[u].todo /\ call'[u].at = call[u].at
           /\ call'[u].arg = call[u].arg /\ call'[u].writes = call[u].writes
<1> DEFINE b == call[u].ok /\ ~Spoils(k, u)
           r == call'[u]
           s == call[u].todo
<1>1. Thread(call[u], table) /\ call[u] \in CallRecord /\ Todo(s) /\ u \in Threads
  BY Zenon DEF IInv, Inv, Thread
<1>2. r = [call[u] EXCEPT !.ok = b]
  BY <1>1, Zenon DEF Store, CallRecord
<1>3. b \in BOOLEAN
  BY Zenon
<1> HIDE DEF b
<1>4. /\ r \in CallRecord /\ r.todo = s /\ r.at = call[u].at /\ r.arg = call[u].arg
      /\ r.writes = call[u].writes /\ r.ok = b
  BY <1>1, <1>2, <1>3, Zenon DEF CallRecord
<1> HIDE DEF r
<1>5. \A x : Cont(table', x) = IF x = k THEN v ELSE Cont(table, x)
  <2>1. table' = Put(table, k, v)
    BY Zenon DEF Store
  <2> QED BY <2>1, PutCont
<1>6. ASSUME s # <<>>, s[1].kind = "field"
      PROVE  r.ok /\ (r.at = "using" => Cont(table', CosSin(s[1].m)) = s[1].m)
  <2> DEFINE n == s[1].m
  <2>1. /\ call[u].ok /\ (call[u].at = "using" => Cont(table, CosSin(n)) = n)
    BY <1>1, <1>6, Zenon DEF Thread
  <2>2. s[1] \in Parts /\ Head(s) = s[1]
    BY <1>1, <1>6, Parted, Zenon
  <2>3. n \in Nat
    BY <2>2, Zenon DEF Parts
  <2>4. CosSin(n)[1] = "cosTable"
    BY Zenon DEF CosSin
  <2>5. Reads(Now(u)) = {CosSin(n)}
    BY <1>6, <2>2, ReadsOf, Zenon DEF Now
  <2> HIDE DEF n
  <2>6. ASSUME call[u].at = "using", k = CosSin(n) PROVE FALSE
    <3>1. PICK m \in Nat : k = CosSin(m) /\ v = m /\ Cont(table, k) # m
      BY <2>4, <2>6, Zenon DEF FreshCosSin
    <3>2. m = n
      BY <2>6, <3>1 DEF CosSin
    <3> QED BY <2>1, <2>6, <3>1, <3>2, Zenon
  <2>7. ~Spoils(k, u)
    BY <2>4, <2>5, <2>6, Zenon DEF Spoils
  <2>8. b
    BY <2>1, <2>7, Zenon DEF b
  <2>9. r.at = "using" => Cont(table', CosSin(n)) = n
    BY <1>4, <1>5, <2>1, <2>6, Zenon
  <2> QED BY <1>4, <2>8, <2>9, Zenon DEF n
<1>7. Thread(r, table')
  BY <1>1, <1>4, <1>6, Zenon DEF Thread
<1> QED BY <1>4, <1>7, Zenon DEF r

LEMMA StoreTyped ==
    ASSUME NEW tbl, Typed(tbl), NEW k \in Key, NEW v \in Nat, k = M => v % 4 = 0
    PROVE  Typed(Put(tbl, k, v))
<1> DEFINE new == Put(tbl, k, v)
<1>1. DOMAIN new = DOMAIN tbl \cup {k}
  BY Zenon DEF Put
<1>2. \A x : Cont(new, x) = IF x = k THEN v ELSE Cont(tbl, x)
  BY PutCont
<1> HIDE DEF new
<1>3. DOMAIN new \subseteq Key
  BY <1>1, Zenon DEF Typed
<1>4. \A x \in Key : Cont(new, x) \in Nat
  BY <1>2, Zenon DEF Typed
<1>5. Cont(new, M) % 4 = 0
  <2>1. CASE M = k
    BY <1>2, <2>1, Zenon
  <2>2. CASE M # k
    BY <1>2, <2>2, Zenon DEF Typed
  <2> QED BY <2>1, <2>2, Zenon
<1> QED BY <1>3, <1>4, <1>5, Zenon DEF Typed, new

\* The test of the packed encoding makes the entry it does not find.
LEMMA CheckMakes ==
    ASSUME IInv, NEW t \in Threads, Check(t),
           Now(t).kind = "pack", InitRoot(Now(t).q, Now(t).m) \notin DOMAIN table
    PROVE  IInv'
<1> DEFINE p == Now(t)
           k == InitRoot(p.q, p.m)
           me == Goto(t, "enter")
<1>1. Running(t) /\ call[t].at = "check" /\ call[t].at # "write"
  BY Zenon DEF Check
<1>0. lock' = lock /\ last' = last /\ cold' = cold /\ mixed' = mixed
  BY Zenon DEF Check
<1>2. /\ p \in Parts /\ p = call[t].todo[1] /\ Todo(call[t].todo) /\ call[t].todo # <<>>
      /\ t \in DOMAIN call /\ lock # t /\ Thread(call[t], table) /\ call[t] \in CallRecord
      /\ Reader(call[t], table) => WarmPart(table, p)
  BY <1>1, RunningThread, Zenon
<1>3. p.q \in Nat /\ p.m \in Nat /\ p.m # 0 /\ p.kind = "pack"
  BY <1>2, Zenon DEF Parts
<1>4. k \in Key /\ k[1] = "m_initRoot" /\ k # M /\ k[1] # "cosTable"
  <2>1. M[1] = "m_M"
    BY Zenon DEF M
  <2>2. k \in Key /\ k[1] = "m_initRoot"
    BY <1>3, PackKeys, Zenon
  <2> QED BY <2>1, <2>2, Zenon
<1>5. Cont(table, k) = 0
  BY Zenon DEF Cont
<1>6. Store(t, k, 0, me)
  <2>1. Content(k) = 0
    BY <1>5, Contents, Zenon
  <2>2. Store(t, k, 0, Goto(t, IF Content(k) # 0 THEN "using" ELSE "enter"))
    BY Zenon DEF Check
  <2> QED BY <2>1, <2>2, Zenon
<1>7. /\ me \in CallRecord /\ me.at = "enter" /\ me.todo = call[t].todo /\ me.ok = call[t].ok
      /\ me.fit = call[t].fit
  <2>1. "enter" \in Places
    BY Zenon DEF Places
  <2> QED BY <1>1, <2>1, GotoPlace, Zenon
<1> HIDE DEF p, k, me
<1>8. /\ DOMAIN call' = DOMAIN call /\ call'[t] = me /\ call' = [u \in DOMAIN call' |-> call'[u]]
      /\ table' = Put(table, k, 0)
  BY <1>2, <1>6, Zenon DEF Store
<1>9. \A x : Cont(table', x) = Cont(table, x)
  BY <1>5, <1>8, PutCont
<1>10. Typed(table')
  <2>1. 0 \in Nat
    BY Zenon
  <2> QED BY <1>4, <1>8, <2>1, StoreTyped, Zenon DEF IInv, Inv
<1>11. ASSUME NEW u \in DOMAIN call, u # t
       PROVE  /\ Thread(call'[u], table') /\ call'[u].todo = call[u].todo /\ call'[u].at = call[u].at
              /\ call'[u].arg = call[u].arg /\ call'[u].writes = call[u].writes
  <2>1. 0 \in Nat /\ FreshCosSin(table, k, 0)
    BY <1>4, Zenon DEF FreshCosSin
  <2> QED BY <1>2, <1>4, <1>6, <1>11, <2>1, Others, Zenon
<1>12. Thread(me, table')
  BY <1>2, <1>3, <1>7, Zenon DEF Thread
<1>13. Locks(lock', call')
  <2>1. lock # NoThread => lock \in DOMAIN call /\ lock # t /\ call[lock].todo # <<>> /\ call[lock].at = "write"
    BY <1>2, Zenon DEF IInv, Inv, Locks
  <2>2. \A u \in DOMAIN call : u # t /\ call[u].todo # <<>> /\ call[u].at = "write" => lock = u
    BY Zenon DEF IInv, Inv, Locks
  <2>3. me.at # "write"
    BY <1>7, Zenon
  <2> QED BY <1>0, <1>8, <1>11, <2>1, <2>2, <2>3, Zenon DEF Locks
<1>14. lock # NoThread => lock \in DOMAIN call /\ lock # t
  BY <1>2, Zenon DEF IInv, Inv, Locks
<1>15. Pending(lock', call') = Pending(lock, call)
  BY <1>0, <1>11, <1>14, Zenon DEF Pending
<1>16. \A ws, x, v : Settled(ws, table, x, v) => Settled(ws, table', x, v)
  BY <1>9, SettledSame, Zenon
<1>17. Coherent(Pending(lock', call'), table')
  BY <1>15, <1>16, Zenon DEF IInv, Inv, Coherent, CoherentFTT, CoherentDFT, CoherentPack
<1>18. ASSUME lock' # NoThread PROVE Section(call'[lock'], table')
  <2>1. Section(call[lock], table)
    BY <1>0, <1>18, Zenon DEF IInv, Inv
  <2>2. /\ call'[lock].todo = call[lock].todo /\ call'[lock].arg = call[lock].arg
        /\ call'[lock].writes = call[lock].writes
    BY <1>0, <1>11, <1>14, <1>18, Zenon
  <2>3. Settles(call[lock].todo[1], call[lock].arg, call[lock].writes, table')
    BY <1>9, <1>16, <2>1, Zenon DEF Section, Settles
  <2> QED BY <1>0, <2>1, <2>2, <2>3, Zenon DEF Section
<1>19. Inv(table', lock', call')
  BY <1>8, <1>10, <1>11, <1>12, <1>13, <1>17, <1>18, Zenon DEF IInv, Inv
<1>20. ASSUME ~mixed' PROVE Calm(table', lock', call', last')
  <2>1. Calm(table, lock, call, last)
    BY <1>0, <1>20, Zenon DEF IInv
  <2>2. ~WarmPart(table, p) \/ lock # NoThread
    <3>1. lock = NoThread => ~RightIn(table, p)
      BY <1>2, <1>3, <1>5, PackIsRight, Zenon DEF k
    <3> QED BY <1>3, <3>1, Zenon DEF WarmPart
  <2>3. DOMAIN call = {t}
    BY <1>2, <2>1, <2>2, Zenon DEF Calm
  <2>4. Alone(me, table', last)
    BY <1>2, <1>3, <1>7, Zenon DEF Alone
  <2>5. Fitted(me, last)
    BY <1>2, <1>7, <2>1, Zenon DEF Calm, Fitted
  <2>6. lock = NoThread
    BY <1>14, <2>3, Zenon
  <2>7. LastKept(table', lock', call', last')
    BY <1>0, <1>15, <1>16, <2>1, <2>6, Zenon DEF Calm, LastKept
  <2>8. DOMAIN call' = {t} /\ t \in DOMAIN call' /\ last' \in Nat
    BY <1>0, <1>8, <2>1, <2>3, Zenon DEF Calm
  <2> QED BY <1>0, <1>8, <2>4, <2>5, <2>7, <2>8, Zenon DEF Calm
<1>21. mixed' => cold'
  BY <1>0, Zenon DEF IInv
<1> QED BY <1>19, <1>20, <1>21, Zenon DEF IInv

\* The sections: what they write, settle and leave coherent.
LEMMA SectionOpens ==
    ASSUME IInv, lock = NoThread, NEW p \in Parts, NEW arg \in Nat,
           p.kind \in {"initialize", "special"} => arg % 4 = 0,
           NEW ws, ws = Writes(p, arg)
    PROVE  /\ ws = <<>> => p.kind = "field" /\ Cont(table, CosSin(p.m)) = p.m
           /\ ws # <<>> =>
                 /\ ws \in Seq(Key \X Nat)
                 /\ \A i \in 1 .. Len(ws) : Allowed(p, ws[i])
                 /\ Settles(p, arg, ws, table)
                 /\ Coherent(ws, table)
                 /\ p.kind \notin {"initialize", "special"} => Spares(ws, M)
                 /\ p.kind = "field" => Cont(table, CosSin(p.m)) # p.m
<1>1. Coherent(<<>>, table)
  BY Zenon DEF IInv, Inv, Pending
<1>2. p.q \in Nat /\ p.m \in Nat /\ p.kind \in Kinds
  BY Zenon DEF Parts
<1>3. M \in Statics /\ M[1] = "m_M"
  BY Zenon DEF Statics, M
<1>4. CASE p.kind \in {"initialize", "special"}
  <2>1. ws = Initialize(arg)
    BY <1>4, Zenon DEF Writes
  <2>2. /\ ws \in Seq(Key \X Nat) /\ ws # <<>> /\ Ends(ws, M, arg)
        /\ \A i \in 1 .. Len(ws) : ws[i][1] \in Statics /\ (ws[i][1] = M => ws[i][2] = arg)
    BY <2>1, InitializeWrites, Zenon
  <2>3. Coherent(ws, table)
    BY <1>1, <2>1, OpenInitialize, Zenon
  <2>4. \A i \in 1 .. Len(ws) : Allowed(p, ws[i])
    <3>1. \A k \in Statics : k[1] # "cosTable"
      BY StaticKeys, Zenon
    <3> QED BY <1>4, <2>2, <3>1, Zenon DEF Allowed
  <2>5. Settles(p, arg, ws, table)
    <3>1. Settled(ws, table, M, arg)
      BY <2>2, Zenon DEF Settled
    <3> QED BY <1>4, <3>1, Zenon DEF Settles
  <2>6. p.kind # "field"
    BY <1>4, Zenon
  <2> QED BY <1>4, <2>2, <2>3, <2>4, <2>5, <2>6, Zenon
<1>5. CASE p.kind \in {"precompute", "forward", "inverse"}
  <2>1. ws = PreCompute(p.q, p.m)
    BY <1>5, Zenon DEF Writes
  <2>2. /\ ws \in Seq(Key \X Nat) /\ ws # <<>> /\ \A k \in FTTKeys(p.q) : Ends(ws, k, p.m)
        /\ \A k : k \notin FTTKeys(p.q) => Spares(ws, k)
        /\ \A i \in 1 .. Len(ws) : ws[i][1][1] \in FTTNames
    BY <1>2, <2>1, PreComputeWrites, Zenon DEF WritesOnly
  <2>3. Coherent(ws, table)
    BY <1>1, <1>2, <2>1, OpenPreCompute, Zenon
  <2>4. "m_M" \notin FTTNames /\ "cosTable" \notin FTTNames
    BY MapNames, Zenon
  <2>5. \A i \in 1 .. Len(ws) : Allowed(p, ws[i])
    BY <1>3, <2>2, <2>4, Zenon DEF Allowed
  <2>6. \A i \in 1 .. 6 : Settled(ws, table, FTT(FTTMaps[i], p.q), p.m)
    BY <2>2, Zenon DEF FTTKeys, Settled
  <2>7. Settles(p, arg, ws, table)
    BY <1>5, <2>6, Zenon DEF Settles
  <2>8. Spares(ws, M)
    BY <1>3, <2>2, <2>4, Zenon DEF Spares
  <2>9. p.kind # "field"
    BY <1>5, Zenon
  <2> QED BY <2>2, <2>3, <2>5, <2>7, <2>8, <2>9, Zenon
<1>6. CASE p.kind = "pack"
  <2>1. ws = SetParams_2n(p.q, p.m)
    BY <1>6, Zenon DEF Writes
  <2>2. /\ ws \in Seq(Key \X Nat) /\ ws # <<>>
        /\ Ends(ws, InitRoot(p.q, p.m), p.m) /\ Ends(ws, Perm(p.m), p.m)
        /\ \A i \in 1 .. Len(ws) : ws[i][1][1] \in {"m_initRoot", "m_toCRTPerm"}
    BY <1>2, <2>1, SetParamsWrites, ZenonT(60)
  <2>3. Coherent(ws, table)
    BY <1>1, <1>2, <2>1, OpenSetParams, Zenon
  <2>4. "m_M" \notin {"m_initRoot", "m_toCRTPerm"} /\ "cosTable" \notin {"m_initRoot", "m_toCRTPerm"}
    BY Zenon
  <2>5. \A i \in 1 .. Len(ws) : Allowed(p, ws[i])
    BY <1>3, <2>2, <2>4, Zenon DEF Allowed
  <2>6. Settled(ws, table, InitRoot(p.q, p.m), p.m) /\ Settled(ws, table, Perm(p.m), p.m)
    BY <2>2, Zenon DEF Settled
  <2>7. Settles(p, arg, ws, table)
    BY <1>6, <2>6, Zenon DEF Settles
  <2>8. Spares(ws, M)
    BY <1>3, <2>2, <2>4, Zenon DEF Spares
  <2>9. p.kind # "field"
    BY <1>6, Zenon
  <2> QED BY <2>2, <2>3, <2>5, <2>7, <2>8, <2>9, Zenon
<1>7. CASE p.kind = "field"
  <2> DEFINE fill == <<<<CosSin(p.m), p.m>>>>
  <2>1. ws = FillCosSin(p.m)
    BY <1>7, Zenon DEF Writes
  <2>2. fill \in Seq(Key \X Nat) /\ Coherent(fill, table) /\ Spares(fill, M)
    BY <1>1, <1>2, OpenCosSin, Zenon
  <2>3. fill # <<>> /\ Len(fill) = 1 /\ fill[1][1] = CosSin(p.m) /\ CosSin(p.m)[1] = "cosTable"
    BY Zenon DEF CosSin
  <2>4. \A i \in 1 .. Len(fill) : Allowed(p, fill[i])
    <3>1. \A i \in 1 .. 1 : i = 1
      OBVIOUS
    <3>2. CosSin(p.m) # M
      BY <1>3, <2>3, Zenon
    <3> QED BY <1>7, <2>3, <3>1, <3>2, Zenon DEF Allowed
  <2>5. CASE Cont(table, CosSin(p.m)) = p.m
    <3>1. ws = <<>>
      BY <2>1, <2>5, Contents, Zenon DEF FillCosSin
    <3> QED BY <1>7, <2>5, <3>1, Zenon
  <2>6. CASE Cont(table, CosSin(p.m)) # p.m
    <3>1. ws = fill
      BY <2>1, <2>6, Contents, Zenon DEF FillCosSin
    <3>2. Settles(p, arg, fill, table)
      BY <1>7, <2>6, Zenon DEF Settles
    <3> HIDE DEF fill
    <3> QED BY <2>2, <2>3, <2>4, <2>6, <3>1, <3>2, Zenon
  <2> QED BY <2>5, <2>6, Zenon
<1> QED BY <1>2, <1>4, <1>5, <1>6, <1>7, Zenon DEF Kinds

\* A section begins.
LEMMA SectionBegins ==
    ASSUME IInv, NEW t \in Threads, Running(t), call[t].at = "enter", lock = NoThread,
           NEW ws, ws = Writes(Now(t), call[t].arg), ws # <<>>,
           Stay(t, [Goto(t, "write") EXCEPT !.writes = ws]), lock' = t,
           UNCHANGED <<last, cold, mixed>>
    PROVE  IInv'
<1> DEFINE p == Now(t)
           me == [Goto(t, "write") EXCEPT !.writes = ws]
<1>1. /\ p \in Parts /\ p = call[t].todo[1] /\ Todo(call[t].todo) /\ call[t].todo # <<>>
      /\ t \in DOMAIN call /\ t # NoThread /\ Thread(call[t], table) /\ call[t] \in CallRecord
      /\ Reader(call[t], table) => WarmPart(table, p)
  BY RunningThread, Zenon
<1>2. call[t].arg \in Nat
  BY <1>1, Zenon DEF CallRecord
<1>3. p.kind \in {"initialize", "special"} => call[t].arg % 4 = 0
  BY <1>1, Zenon DEF Thread
<1>4. /\ ws \in Seq(Key \X Nat)
      /\ \A i \in 1 .. Len(ws) : Allowed(p, ws[i])
      /\ Settles(p, call[t].arg, ws, table)
      /\ Coherent(ws, table)
      /\ p.kind \notin {"initialize", "special"} => Spares(ws, M)
      /\ p.kind = "field" => Cont(table, CosSin(p.m)) # p.m
  BY <1>1, <1>2, <1>3, SectionOpens, Zenon
<1>5. /\ me \in CallRecord /\ me.at = "write" /\ me.todo = call[t].todo /\ me.ok = call[t].ok
      /\ me.fit = call[t].fit /\ me.arg = call[t].arg /\ me.writes = ws
  <2>1. me = [[call[t] EXCEPT !.at = "write"] EXCEPT !.writes = ws]
    BY Zenon DEF Goto
  <2>2. "write" \in Places
    BY Zenon DEF Places
  <2> HIDE DEF me, p
  <2> QED BY <1>1, <1>4, <2>1, <2>2, Zenon DEF CallRecord
<1>6. /\ call' = [call EXCEPT ![t] = me] /\ table' = table /\ last' = last /\ cold' = cold /\ mixed' = mixed
  BY Zenon DEF Stay
<1> HIDE DEF me, p
<1>7. /\ DOMAIN call' = DOMAIN call /\ call'[t] = me /\ \A u \in DOMAIN call : u # t => call'[u] = call[u]
      /\ call' = [u \in DOMAIN call' |-> call'[u]]
  BY <1>1, <1>6, Zenon
<1>8. Thread(me, table)
  BY <1>1, <1>5, Zenon DEF Thread
<1>9. Locks(lock', call')
  <2>1. \A u \in DOMAIN call : ~(call[u].todo # <<>> /\ call[u].at = "write")
    BY <1>1, TablesAssumption, Zenon DEF IInv, Inv, Locks
  <2>2. lock' \in DOMAIN call' /\ call'[lock'].todo # <<>> /\ call'[lock'].at = "write"
    BY <1>1, <1>5, <1>7, Zenon
  <2>3. \A u \in DOMAIN call' : call'[u].todo # <<>> /\ call'[u].at = "write" => u = t
    BY <1>7, <2>1, Zenon
  <2> QED BY <2>2, <2>3, Zenon DEF Locks
<1>10. Pending(lock', call') = ws
  BY <1>1, <1>5, <1>7, Zenon DEF Pending
<1>11. Section(me, table)
  BY <1>1, <1>4, <1>5, Zenon DEF Section
<1>12. Inv(table', lock', call')
  BY <1>4, <1>6, <1>7, <1>8, <1>9, <1>10, <1>11, Zenon DEF IInv, Inv
<1>13. ASSUME ~mixed' PROVE Calm(table', lock', call', last')
  <2>1. Calm(table, lock, call, last) /\ ~mixed
    BY <1>6, <1>13 DEF IInv
  <2>2. ~Reader(call[t], table)
    <3> SUFFICES ASSUME Reader(call[t], table) PROVE FALSE
      BY Zenon
    <3>1. p.kind = "field" /\ WarmPart(table, p)
      BY <1>1, Zenon DEF Reader
    <3>2. RightIn(table, p) /\ Reads(p) = {CosSin(p.m)}
      BY <1>1, <3>1, ReadsOf, Zenon DEF WarmPart
    <3>3. p.kind # "special"
      BY <3>1, Zenon
    <3> QED BY <1>4, <3>1, <3>2, <3>3, Zenon DEF RightIn
  <2>3. DOMAIN call = {t} /\ Alone(call[t], table, last)
    BY <1>1, <2>1, <2>2, Zenon DEF Calm
  <2>4. Alone(me, table, last)
    BY <1>1, <1>5, <2>3, Zenon DEF Alone
  <2>5. Fitted(me, last)
    BY <1>1, <1>5, <2>1, Zenon DEF Calm, Fitted
  <2>6. LastKept(table', lock', call', last')
    <3>1. CASE p.kind = "initialize"
      BY <1>1, <1>5, <1>7, <3>1, Zenon DEF LastKept
    <3>2. CASE p.kind = "special"
      <4>1. call[t].arg = last
        BY <1>1, <2>3, <3>2, Zenon DEF Alone
      <4>2. Settled(ws, table, M, last)
        BY <1>4, <3>2, <4>1, Zenon DEF Settles
      <4> QED BY <1>6, <1>10, <4>2, Zenon DEF LastKept
    <3>3. CASE p.kind \notin {"initialize", "special"}
      <4>1. Cont(table, M) = last
        BY <2>1, FreeTables, Zenon
      <4>2. Settled(ws, table, M, last)
        BY <1>4, <3>3, <4>1, Zenon DEF Settled
      <4> QED BY <1>6, <1>10, <4>2, Zenon DEF LastKept
    <3> QED BY <3>1, <3>2, <3>3, Zenon
  <2>7. DOMAIN call' = {t} /\ t \in DOMAIN call' /\ last' \in Nat
    BY <1>6, <1>7, <2>1, <2>3, Zenon DEF Calm
  <2> QED BY <1>6, <1>7, <2>4, <2>5, <2>6, <2>7, Zenon DEF Calm
<1>14. mixed' => cold'
  BY <1>6 DEF IInv
<1> QED BY <1>12, <1>13, <1>14, Zenon DEF IInv

LEMMA EnterStep ==
    ASSUME IInv, NEW t \in Threads, Enter(t)
    PROVE  IInv'
<1> DEFINE p == Now(t)
           ws == Writes(p, call[t].arg)
<1>1. Running(t) /\ call[t].at = "enter" /\ call[t].at # "write" /\ lock = NoThread /\ UNCHANGED <<last, cold, mixed>>
  BY Zenon DEF Enter
<1>2. /\ p \in Parts /\ p = call[t].todo[1] /\ t \in DOMAIN call
      /\ Thread(call[t], table) /\ call[t] \in CallRecord /\ call[t].todo # <<>>
      /\ p = Now(t)
  BY <1>1, RunningThread, Zenon
<1>3. \/ /\ Stay(t, [call[t] EXCEPT !.todo = <<>>, !.fit = FALSE]) /\ UNCHANGED lock
      \/ /\ ws = <<>> /\ Stay(t, AfterSection(t, call[t])) /\ lock' = NoThread
      \/ /\ ws # <<>> /\ Stay(t, [Goto(t, "write") EXCEPT !.writes = ws]) /\ lock' = t
  BY Zenon DEF Enter
<1>4. CASE Stay(t, [call[t] EXCEPT !.todo = <<>>, !.fit = FALSE]) /\ UNCHANGED lock
  <2> DEFINE me == [call[t] EXCEPT !.todo = <<>>, !.fit = FALSE]
  <2>0. <<>> \in Seq(Parts) /\ FALSE \in BOOLEAN
    OBVIOUS
  <2>1. me \in CallRecord /\ me.todo = <<>> /\ ~me.fit /\ me.at = "enter"
    BY <1>1, <1>2, <2>0, Zenon DEF CallRecord
  <2> HIDE DEF me
  <2>2. Todo(<<>>)
    BY DEF Todo
  <2>3. Thread(me, table)
    BY <2>1, <2>2, Zenon DEF Thread
  <2>4. 1 .. Len(<<>>) = {}
    OBVIOUS
  <2>5. Fitted(me, last) /\ Alone(me, table, last) /\ Reader(me, table)
    BY <2>1, <2>4, Zenon DEF Fitted, Alone, Reader
  <2>6. Stay(t, me) /\ UNCHANGED <<lock, last, cold, mixed>>
    BY <1>1, <1>4, Zenon DEF me
  <2> QED BY <1>1, <2>1, <2>3, <2>5, <2>6, LocalStep, Zenon
<1>5. CASE ws = <<>> /\ Stay(t, AfterSection(t, call[t])) /\ lock' = NoThread
  <2>1. call[t].arg \in Nat
    BY <1>2, Zenon DEF CallRecord
  <2>2. p.kind \in {"initialize", "special"} => call[t].arg % 4 = 0
    BY <1>1, <1>2, Zenon DEF Thread
  <2>3. p.kind = "field" /\ Cont(table, CosSin(p.m)) = p.m
    BY <1>1, <1>2, <1>5, <2>1, <2>2, SectionOpens, Zenon
  <2> DEFINE me == Goto(t, "using")
  <2>4. Stay(t, me)
    BY <1>5, <2>3, Zenon DEF AfterSection, Goto
  <2>5. /\ me \in CallRecord /\ me.at = "using" /\ me.todo = call[t].todo /\ me.ok = call[t].ok
        /\ me.fit = call[t].fit
    <3>1. "using" \in Places
      BY Zenon DEF Places
    <3> QED BY <1>1, <3>1, GotoPlace, Zenon
  <2>6. RightIn(table, p)
    <3>1. p.kind # "special" /\ Reads(p) = {CosSin(p.m)}
      BY <1>2, <2>3, ReadsOf, Zenon
    <3> QED BY <2>3, <3>1, Zenon DEF RightIn
  <2>7. UNCHANGED <<lock, last, cold, mixed>>
    BY <1>1, <1>5, Zenon
  <2> HIDE DEF me, p
  <2> QED BY <1>1, <1>2, <2>3, <2>4, <2>5, <2>6, <2>7, GotoStep, Zenon
<1>6. CASE ws # <<>> /\ Stay(t, [Goto(t, "write") EXCEPT !.writes = ws]) /\ lock' = t
  <2>1. ws = Writes(Now(t), call[t].arg)
    BY Zenon
  <2> HIDE DEF ws, p
  <2> QED BY <1>1, <1>6, <2>1, SectionBegins, Zenon
<1> QED BY <1>3, <1>4, <1>5, <1>6, Zenon

LEMMA SettledRight ==
    ASSUME NEW p \in Parts, NEW arg, NEW tbl, Settles(p, arg, <<>>, tbl), p.kind \notin {"special", "field"}
    PROVE  RightIn(tbl, p)
<1>1. \A k, v : Settled(<<>>, tbl, k, v) <=> Cont(tbl, k) = v
  BY SettledNone, Zenon
<1>2. p.kind \in Kinds /\ p.kind # "special"
  BY Zenon DEF Parts
<1>3. SUFFICES \A k \in Reads(p) : Cont(tbl, k) = p.m
  BY <1>2, Zenon DEF RightIn
<1>4. CASE p.kind \in {"initialize", "precompute"}
  BY <1>4, ReadsOf, Zenon
<1>5. CASE p.kind \in {"forward", "inverse"}
  <2>1. \A i \in 1 .. 6 : Cont(tbl, FTT(FTTMaps[i], p.q)) = p.m
    BY <1>1, <1>5, Zenon DEF Settles
  <2>2. \A n \in FTTNames : Cont(tbl, FTT(n, p.q)) = p.m
    BY <2>1, MapNames, Zenon
  <2>3. /\ "reverse" \in FTTNames /\ "precon" \in FTTNames
        /\ {"inverse", "cycloInv", "preconI", "preconCOI"} \subseteq FTTNames
    BY MapNames, Zenon
  <2>4. CASE p.kind = "forward"
    BY <2>2, <2>3, <2>4, ReadsOf, Zenon
  <2>5. CASE p.kind = "inverse"
    BY <2>2, <2>3, <2>5, ReadsOf, ZenonT(60)
  <2> QED BY <1>5, <2>4, <2>5, Zenon
<1>6. CASE p.kind = "pack"
  <2>1. Cont(tbl, InitRoot(p.q, p.m)) = p.m /\ Cont(tbl, Perm(p.m)) = p.m
    BY <1>1, <1>6, Zenon DEF Settles
  <2> QED BY <1>6, <2>1, ReadsOf, Zenon
<1> QED BY <1>2, <1>4, <1>5, <1>6, Zenon DEF Kinds

\* The thread in the section and what it is about to write.
LEMMA Writer ==
    ASSUME IInv, NEW t \in Threads, Running(t), call[t].at = "write"
    PROVE  /\ lock = t /\ Section(call[t], table) /\ Coherent(call[t].writes, table)
           /\ call[t].writes \in Seq(Key \X Nat) /\ call[t].writes # <<>>
           /\ Head(call[t].writes) = call[t].writes[1]
           /\ call[t].writes[1][1] \in Key /\ call[t].writes[1][2] \in Nat
           /\ Len(call[t].writes) \in Nat /\ 1 \in 1 .. Len(call[t].writes)
           /\ Allowed(Now(t), call[t].writes[1])
           /\ FreshCosSin(table, call[t].writes[1][1], call[t].writes[1][2])
           /\ Typed(Put(table, call[t].writes[1][1], call[t].writes[1][2]))
<1> DEFINE ws == call[t].writes
           p == Now(t)
<1>1. /\ t \in DOMAIN call /\ call[t] \in CallRecord /\ call[t].todo # <<>> /\ p = call[t].todo[1]
      /\ p \in Parts /\ t # NoThread
  BY RunningThread, Zenon
<1>2. lock = t
  BY <1>1, Zenon DEF IInv, Inv, Locks
<1>3. Section(call[t], table) /\ Coherent(ws, table) /\ Typed(table)
  BY <1>1, <1>2, Zenon DEF IInv, Inv, Pending
<1>4. ws \in Seq(Key \X Nat) /\ ws # <<>>
  BY <1>1, <1>3, Zenon DEF CallRecord, Section
<1> HIDE DEF ws, p
<1>5. Head(ws) = ws[1] /\ ws[1] \in Key \X Nat /\ Len(ws) \in Nat /\ 1 \in 1 .. Len(ws)
  BY <1>4
<1>6. ws[1][1] \in Key /\ ws[1][2] \in Nat
  BY <1>5, Zenon
<1>7. Allowed(p, ws[1])
  BY <1>1, <1>3, <1>5, Zenon DEF Section, ws
<1>8. FreshCosSin(table, ws[1][1], ws[1][2])
  <2> SUFFICES ASSUME ws[1][1][1] = "cosTable"
               PROVE  \E m \in Nat : ws[1][1] = CosSin(m) /\ ws[1][2] = m /\ Cont(table, ws[1][1]) # m
    BY Zenon DEF FreshCosSin
  <2>1. p.kind = "field" /\ Settles(p, call[t].arg, ws, table)
    BY <1>1, <1>3, <1>7, Zenon DEF Allowed, Section, ws
  <2>2. ws = <<<<CosSin(p.m), p.m>>>> /\ Cont(table, CosSin(p.m)) # p.m
    BY <2>1, Zenon DEF Settles
  <2>3. ws[1][1] = CosSin(p.m) /\ ws[1][2] = p.m
    BY <2>2, Zenon
  <2>4. p.m \in Nat
    BY <1>1, Zenon DEF Parts
  <2> QED BY <2>2, <2>3, <2>4, Zenon
<1>9. Typed(Put(table, ws[1][1], ws[1][2]))
  BY <1>3, <1>6, <1>7, StoreTyped, Zenon DEF Allowed
<1> QED BY <1>2, <1>3, <1>4, <1>5, <1>6, <1>7, <1>8, <1>9, Zenon DEF ws, p

LEMMA RestOfWrites ==
    ASSUME NEW ws \in Seq(Key \X Nat), ws # <<>>
    PROVE  /\ Tail(ws) \in Seq(Key \X Nat) /\ (Len(ws) = 1 <=> Tail(ws) = <<>>)
           /\ \A i \in 1 .. Len(Tail(ws)) : i + 1 \in 1 .. Len(ws) /\ Tail(ws)[i] = ws[i + 1]
<1> DEFINE W == Key \X Nat
<1>1. ws \in Seq(W)
  BY Zenon
<1> HIDE DEF W
<1>2. /\ Tail(ws) \in Seq(W) /\ Len(ws) \in Nat /\ Len(ws) > 0 /\ Len(Tail(ws)) = Len(ws) - 1
      /\ \A i \in 1 .. Len(Tail(ws)) : i + 1 \in 1 .. Len(ws) /\ Tail(ws)[i] = ws[i + 1]
  BY <1>1
<1>3. Len(ws) = 1 <=> Len(Tail(ws)) = 0
  BY <1>2
<1>4. Tail(ws) = <<>> <=> Len(Tail(ws)) = 0
  <2>1. \A seq \in Seq(W) : seq = <<>> <=> Len(seq) = 0
    OBVIOUS
  <2> QED BY <1>2, <2>1, Zenon
<1> QED BY <1>2, <1>3, <1>4, Zenon DEF W

\* An assignment that does not end the section.
LEMMA WriteOn ==
    ASSUME IInv, NEW t \in Threads, Write(t), Len(call[t].writes) # 1
    PROVE  IInv'
<1> DEFINE ws == call[t].writes
           me == [call[t] EXCEPT !.writes = Tail(@)]
           k == ws[1][1]
           v == ws[1][2]
           p == Now(t)
<1>1. Running(t) /\ call[t].at = "write"
  BY Zenon DEF Write
<1>2. /\ lock = t /\ Section(call[t], table) /\ Coherent(ws, table)
      /\ ws \in Seq(Key \X Nat) /\ ws # <<>> /\ Head(ws) = ws[1] /\ k \in Key /\ v \in Nat
      /\ FreshCosSin(table, k, v) /\ Typed(Put(table, k, v))
  BY <1>1, Writer, Zenon
<1>3. /\ t \in DOMAIN call /\ call[t] \in CallRecord /\ call[t].todo # <<>> /\ p = call[t].todo[1]
      /\ p \in Parts /\ t # NoThread /\ Thread(call[t], table) /\ Todo(call[t].todo)
  BY <1>1, RunningThread, Zenon
<1>4. Store(t, k, v, me) /\ lock' = lock /\ last' = last
  BY <1>2, Zenon DEF Write
<1>5. cold' = cold /\ mixed' = mixed
  BY Zenon DEF Write
<1> HIDE DEF ws, k, v, p
<1>6. /\ Tail(ws) \in Seq(Key \X Nat) /\ Tail(ws) # <<>>
      /\ \A i \in 1 .. Len(Tail(ws)) : i + 1 \in 1 .. Len(ws) /\ Tail(ws)[i] = ws[i + 1]
  <2>1. Len(ws) # 1
    BY Zenon DEF ws
  <2> QED BY <1>2, <2>1, RestOfWrites, Zenon
<1>7. /\ me \in CallRecord /\ me.at = "write" /\ me.todo = call[t].todo /\ me.ok = call[t].ok
      /\ me.fit = call[t].fit /\ me.arg = call[t].arg /\ me.writes = Tail(ws)
  <2>1. me = [call[t] EXCEPT !.writes = Tail(ws)]
    BY <1>3, Zenon DEF ws, CallRecord
  <2> HIDE DEF me
  <2> QED BY <1>1, <1>3, <1>6, <2>1, Zenon DEF CallRecord
<1> HIDE DEF me
<1>8. /\ DOMAIN call' = DOMAIN call /\ call'[t] = me /\ call' = [u \in DOMAIN call' |-> call'[u]]
      /\ table' = Put(table, k, v)
  BY <1>3, <1>4, Zenon DEF Store
<1>9. \A x, n : Settled(ws, table, x, n) => Settled(Tail(ws), table', x, n)
  BY <1>2, <1>8, SettledWrite, Zenon DEF k, v
<1>10. Coherent(Tail(ws), table')
  BY <1>2, <1>8, CoherentWrite, Zenon DEF k, v
<1>11. ASSUME NEW u \in DOMAIN call, u # t
       PROVE  Thread(call'[u], table') /\ call'[u].todo = call[u].todo /\ call'[u].at = call[u].at
  BY <1>2, <1>3, <1>4, <1>11, Others, Zenon
<1>12. Thread(me, table')
  BY <1>3, <1>1, <1>7, Zenon DEF Thread
<1>13. Locks(lock', call')
  <2>1. \A u \in DOMAIN call : u # t => ~(call[u].todo # <<>> /\ call[u].at = "write")
    BY <1>2, Zenon DEF IInv, Inv, Locks
  <2>2. lock' = t /\ t \in DOMAIN call' /\ call'[t].todo # <<>> /\ call'[t].at = "write"
    BY <1>2, <1>3, <1>4, <1>7, <1>8, Zenon
  <2>3. \A u \in DOMAIN call' : call'[u].todo # <<>> /\ call'[u].at = "write" => u = t
    BY <1>8, <1>11, <2>1, Zenon
  <2> QED BY <2>2, <2>3, Zenon DEF Locks
<1>14. Pending(lock', call') = Tail(ws)
  BY <1>2, <1>3, <1>4, <1>7, <1>8, Zenon DEF Pending
<1>15. Section(me, table')
  <2>1. Settles(p, call[t].arg, ws, table) /\ \A i \in 1 .. Len(ws) : Allowed(p, ws[i])
    BY <1>2, <1>3, Zenon DEF Section, ws
  <2>2. p.kind # "field"
    <3> SUFFICES ASSUME p.kind = "field" PROVE FALSE
      BY Zenon
    <3>1. ws = <<<<CosSin(p.m), p.m>>>>
      BY <2>1, Zenon DEF Settles
    <3>2. Len(ws) = 1
      BY <3>1, Zenon
    <3> QED BY <3>2, Zenon DEF ws
  <2>3. Settles(p, call[t].arg, Tail(ws), table')
    BY <1>9, <2>1, <2>2, Zenon DEF Settles
  <2>4. \A i \in 1 .. Len(Tail(ws)) : Allowed(p, Tail(ws)[i])
    BY <1>6, <2>1, Zenon
  <2> QED BY <1>3, <1>6, <1>7, <2>3, <2>4, Zenon DEF Section
<1>16. Inv(table', lock', call')
  <2>1. \A u \in DOMAIN call' : Thread(call'[u], table')
    BY <1>8, <1>11, <1>12, Zenon
  <2>2. lock' = t
    BY <1>2, <1>4, Zenon
  <2> QED BY <1>2, <1>8, <1>10, <1>13, <1>14, <1>15, <2>1, <2>2, Zenon DEF IInv, Inv
<1>17. ASSUME ~mixed' PROVE Calm(table', lock', call', last')
  <2>1. Calm(table, lock, call, last)
    BY <1>5, <1>17, Zenon DEF IInv
  <2>3. DOMAIN call = {t} /\ Alone(call[t], table, last)
    BY <1>2, <1>3, <2>1, Zenon DEF Calm
  <2>4. Alone(me, table', last)
    BY <1>1, <1>3, <1>7, <2>3, Zenon DEF Alone
  <2>5. Fitted(me, last)
    BY <1>3, <1>7, <2>1, Zenon DEF Calm, Fitted
  <2>6. LastKept(table', lock', call', last')
    <3>1. Pending(lock, call) = ws
      BY <1>2, <1>3, Zenon DEF Pending, ws
    <3>2. CASE Settled(ws, table, M, last)
      BY <1>4, <1>9, <1>14, <3>2, Zenon DEF LastKept
    <3>3. CASE call[t].todo[1].kind = "initialize"
      <4>1. lock' = t /\ call'[t].todo = call[t].todo
        BY <1>2, <1>4, <1>7, <1>8, Zenon
      <4> QED BY <1>3, <3>3, <4>1, Zenon DEF LastKept
    <3> QED BY <1>2, <2>1, <3>1, <3>2, <3>3, Zenon DEF Calm, LastKept
  <2>7. DOMAIN call' = {t} /\ t \in DOMAIN call' /\ last' \in Nat
    BY <1>4, <1>8, <2>1, <2>3, Zenon DEF Calm
  <2> QED BY <1>4, <1>8, <2>4, <2>5, <2>6, <2>7, Zenon DEF Calm
<1>18. mixed' => cold'
  BY <1>5, Zenon DEF IInv
<1> QED BY <1>16, <1>17, <1>18, Zenon DEF IInv

\* The last assignment of a section.
LEMMA WriteEnds ==
    ASSUME IInv, NEW t \in Threads, Write(t), Len(call[t].writes) = 1
    PROVE  IInv'
<1> DEFINE ws == call[t].writes
           rest == [call[t] EXCEPT !.writes = Tail(@)]
           me == AfterSection(t, rest)
           k == ws[1][1]
           v == ws[1][2]
           p == Now(t)
           s == call[t].todo
           la == IF p.kind = "initialize" THEN p.m ELSE last
<1>1. Running(t) /\ call[t].at = "write"
  BY Zenon DEF Write
<1>2. /\ lock = t /\ Section(call[t], table) /\ Coherent(ws, table)
      /\ ws \in Seq(Key \X Nat) /\ ws # <<>> /\ Head(ws) = ws[1] /\ k \in Key /\ v \in Nat
      /\ FreshCosSin(table, k, v) /\ Typed(Put(table, k, v))
  BY <1>1, Writer, Zenon
<1>3. /\ t \in DOMAIN call /\ call[t] \in CallRecord /\ s # <<>> /\ p = s[1]
      /\ p \in Parts /\ t # NoThread /\ Thread(call[t], table) /\ Todo(s)
  BY <1>1, RunningThread, Zenon
<1>4. Store(t, k, v, me) /\ lock' = NoThread /\ last' = la
  BY <1>2, Zenon DEF Write, Release
<1>5. cold' = cold /\ mixed' = mixed
  BY Zenon DEF Write
<1>p. p = Now(t)
  BY Zenon
<1> HIDE DEF ws, k, v, p, la
<1>6. Tail(ws) = <<>>
  <2>1. Len(ws) = 1
    BY Zenon DEF ws
  <2> QED BY <1>2, <2>1, RestOfWrites, Zenon
<1>7. /\ rest \in CallRecord /\ rest.at = "write" /\ rest.todo = s /\ rest.ok = call[t].ok
      /\ rest.fit = call[t].fit
  <2>1. rest = [call[t] EXCEPT !.writes = <<>>]
    BY <1>3, <1>6, Zenon DEF ws, CallRecord
  <2>2. <<>> \in Seq(Key \X Nat)
    OBVIOUS
  <2> HIDE DEF rest
  <2> QED BY <1>1, <1>3, <2>1, <2>2, Zenon DEF CallRecord
<1> HIDE DEF rest
<1>8. \/ p.kind \in {"initialize", "precompute"} /\ me = Advance(t, rest)
      \/ p.kind \notin {"initialize", "precompute"} /\ me = [rest EXCEPT !.at = "using"]
  BY <1>p, Zenon DEF AfterSection
<1> HIDE DEF me
<1>9. /\ DOMAIN call' = DOMAIN call /\ call'[t] = me /\ call' = [u \in DOMAIN call' |-> call'[u]]
      /\ table' = Put(table, k, v)
  BY <1>3, <1>4, Zenon DEF Store
<1>10. \A x, n : Settled(ws, table, x, n) => Settled(<<>>, table', x, n) /\ Cont(table', x) = n
  BY <1>2, <1>6, <1>9, SettledWrite, SettledNone, ZenonT(60) DEF k, v
<1>11. Coherent(<<>>, table')
  BY <1>2, <1>6, <1>9, CoherentWrite, Zenon DEF k, v
<1>12. ASSUME NEW u \in DOMAIN call, u # t
       PROVE  Thread(call'[u], table') /\ call'[u].todo = call[u].todo /\ call'[u].at = call[u].at
  BY <1>2, <1>3, <1>4, <1>12, Others, Zenon
<1>13. Settles(p, call[t].arg, ws, table)
  BY <1>2, <1>3, Zenon DEF Section, ws
\* The tables of the part are there.
<1>14. ASSUME p.kind \notin {"special", "field"} PROVE RightIn(table', p)
  <2>1. p.kind # "field"
    BY <1>14, Zenon
  <2>2. Settles(p, call[t].arg, <<>>, table')
    BY <1>10, <1>13, <2>1, Zenon DEF Settles
  <2> QED BY <1>3, <1>14, <2>2, SettledRight, Zenon
<1>15. ASSUME p.kind = "field" PROVE Cont(table', CosSin(p.m)) = p.m /\ RightIn(table', p)
  <2>1. ws = <<<<CosSin(p.m), p.m>>>>
    BY <1>13, <1>15, Zenon DEF Settles
  <2>2. k = CosSin(p.m) /\ v = p.m
    BY <2>1, Zenon DEF k, v
  <2>3. Cont(table', CosSin(p.m)) = p.m
    BY <1>9, <2>2, PutCont
  <2>4. Reads(p) = {CosSin(p.m)} /\ p.kind # "special"
    BY <1>3, <1>15, ReadsOf, Zenon
  <2> QED BY <2>3, <2>4, Zenon DEF RightIn
<1>16. /\ Thread(me, table') /\ me.at # "write" /\ Alone(me, table', la) /\ me.fit = call[t].fit
       /\ me.ok = call[t].ok
       /\ \A n : Fitted(rest, n) => Fitted(me, n)
  <2>1. CASE p.kind \in {"initialize", "precompute"} /\ me = Advance(t, rest)
    <3>1. me.at = "check" => me.at # "write"
      BY Zenon
    <3> QED BY <1>3, <1>7, <2>1, <3>1, Advanced, Zenon
  <2>2. CASE p.kind \notin {"initialize", "precompute"} /\ me = [rest EXCEPT !.at = "using"]
    <3>1. /\ me \in CallRecord /\ me.at = "using" /\ me.todo = s /\ me.ok = call[t].ok
          /\ me.fit = call[t].fit
      <4>1. "using" \in Places
        BY Zenon DEF Places
      <4> QED BY <1>7, <2>2, <4>1, Zenon DEF CallRecord
    <3>2. p.kind = "field" => me.ok /\ Cont(table', CosSin(p.m)) = p.m
      BY <1>3, <1>15, <3>1, Zenon DEF Thread
    <3>3. Thread(me, table')
      BY <1>3, <3>1, <3>2, Zenon DEF Thread
    <3>4. p.kind # "special" => RightIn(table', p)
      BY <1>14, <1>15, Zenon
    <3>5. Alone(me, table', la)
      BY <1>3, <3>1, <3>4, Zenon DEF Alone
    <3>6. \A n : Fitted(rest, n) => Fitted(me, n)
      BY <1>7, <3>1, Zenon DEF Fitted
    <3>7. me.at # "write"
      BY <3>1, Zenon
    <3> QED BY <3>1, <3>3, <3>5, <3>6, <3>7, Zenon
  <2> QED BY <1>8, <2>1, <2>2, Zenon
<1>17. Locks(lock', call')
  <2>1. \A u \in DOMAIN call : u # t => ~(call[u].todo # <<>> /\ call[u].at = "write")
    BY <1>2, Zenon DEF IInv, Inv, Locks
  <2>2. \A u \in DOMAIN call' : ~(call'[u].todo # <<>> /\ call'[u].at = "write")
    BY <1>9, <1>12, <1>16, <2>1, Zenon
  <2> QED BY <1>4, <2>2, Zenon DEF Locks
<1>18. Pending(lock', call') = <<>>
  BY <1>4, Zenon DEF Pending
<1>19. Inv(table', lock', call')
  <2>1. \A u \in DOMAIN call' : Thread(call'[u], table')
    BY <1>9, <1>12, <1>16, Zenon
  <2> QED BY <1>2, <1>4, <1>9, <1>11, <1>17, <1>18, <2>1, Zenon DEF IInv, Inv
<1>20. ASSUME ~mixed' PROVE Calm(table', lock', call', last')
  <2>1. Calm(table, lock, call, last)
    BY <1>5, <1>20, Zenon DEF IInv
  <2>2. DOMAIN call = {t} /\ Fitted(call[t], last) /\ last \in Nat
    BY <1>2, <1>3, <2>1, Zenon DEF Calm
  <2>3. la \in Nat
    <3>1. p.m \in Nat
      BY <1>3, Zenon DEF Parts
    <3> QED BY <2>2, <3>1, Zenon DEF la
  <2>4. Fitted(rest, la)
    <3>1. CASE p.kind = "initialize"
      <4>1. \A i \in 1 .. Len(s) : s[i].kind # "special"
        BY <1>3, <3>1, Parted, Zenon
      <4> QED BY <1>7, <2>2, <4>1, Zenon DEF Fitted
    <3>2. CASE p.kind # "initialize"
      BY <1>7, <2>2, <3>2, Zenon DEF Fitted, la
    <3> QED BY <3>1, <3>2, Zenon
  <2>5. Cont(table', M) = la
    <3>1. CASE p.kind = "initialize"
      <4>1. call[t].arg = p.m
        BY <1>1, <1>3, <3>1, Zenon DEF Thread
      <4>2. Settled(ws, table, M, p.m)
        BY <1>13, <3>1, <4>1, Zenon DEF Settles
      <4> QED BY <1>10, <3>1, <4>2, Zenon DEF la
    <3>2. CASE p.kind # "initialize"
      <4>1. Pending(lock, call) = ws
        BY <1>2, <1>3, Zenon DEF Pending, ws
      <4>2. Settled(ws, table, M, last)
        BY <1>2, <1>3, <2>1, <3>2, <4>1, Zenon DEF Calm, LastKept
      <4> QED BY <1>10, <3>2, <4>2, Zenon DEF la
    <3> QED BY <3>1, <3>2, Zenon
  <2>6. LastKept(table', lock', call', last')
    BY <1>4, <1>18, <2>5, SettledNone, Zenon DEF LastKept
  <2>7. DOMAIN call' = {t} /\ t \in DOMAIN call' /\ Fitted(me, la)
    BY <1>9, <1>16, <2>2, <2>4, Zenon
  <2> QED BY <1>4, <1>9, <1>16, <2>3, <2>6, <2>7, Zenon DEF Calm
<1>21. mixed' => cold'
  BY <1>5, Zenon DEF IInv
<1> QED BY <1>19, <1>20, <1>21, Zenon DEF IInv

LEMMA WriteStep ==
    ASSUME IInv, NEW t \in Threads, Write(t)
    PROVE  IInv'
BY WriteOn, WriteEnds, Zenon

-----------------------------------------------------------------------------
(* A region begins.                                                        *)

LEMMA TowersTyped ==
    ASSUME NEW c \in Contexts
    PROVE  /\ Towers("precompute", c) \in Seq(GenParts)
           /\ \A kind \in {"forward", "inverse"} : Towers(kind, c) \in Seq(DataParts)
<1>1. Order[c] \in Nat \ {0} /\ Order[c] % 4 = 0 /\ Moduli[c] \in Seq(Nat)
  BY TablesAssumption, Zenon
<1>2. \A i \in 1 .. Len(Moduli[c]) : Moduli[c][i] \in Nat
  BY <1>1, SMTT(60)
<1>3. \A i \in 1 .. Len(Moduli[c]) : Part("precompute", Moduli[c][i], Order[c]) \in GenParts
  BY <1>1, <1>2, Zenon DEF Part, GenParts, Parts, Kinds
<1>4. \A kind \in {"forward", "inverse"} :
          \A i \in 1 .. Len(Moduli[c]) : Part(kind, Moduli[c][i], Order[c]) \in DataParts
  BY <1>1, <1>2, Zenon DEF Part, DataParts, Parts, Kinds
<1>5. Len(Moduli[c]) \in Nat
  BY <1>1
<1>6. ASSUME NEW S, NEW n \in Nat, NEW g, g = [i \in 1 .. n |-> g[i]], \A i \in 1 .. n : g[i] \in S
      PROVE  g \in Seq(S)
  BY <1>6
<1>7. Towers("precompute", c) \in Seq(GenParts)
  <2> DEFINE g == Towers("precompute", c)
  <2>1. /\ g = [i \in 1 .. Len(Moduli[c]) |-> g[i]]
        /\ \A i \in 1 .. Len(Moduli[c]) : g[i] \in GenParts
    BY <1>3, Zenon DEF Towers
  <2> HIDE DEF g
  <2>2. g \in Seq(GenParts)
    BY <1>5, <1>6, <2>1, Zenon
  <2> QED BY <2>2, Zenon DEF g
<1>8. ASSUME NEW kind \in {"forward", "inverse"} PROVE Towers(kind, c) \in Seq(DataParts)
  <2> DEFINE g == Towers(kind, c)
  <2>1. /\ g = [i \in 1 .. Len(Moduli[c]) |-> g[i]]
        /\ \A i \in 1 .. Len(Moduli[c]) : g[i] \in DataParts
    BY <1>4, Zenon DEF Towers
  <2> HIDE DEF g
  <2>2. g \in Seq(DataParts)
    BY <1>5, <1>6, <2>1, Zenon
  <2> QED BY <2>2, Zenon DEF g
<1> QED BY <1>7, <1>8, Zenon

LEMMA Joined ==
    ASSUME NEW S, NEW a \in Seq(S), NEW b \in Seq(S)
    PROVE  a \o b \in Seq(S)
OBVIOUS

LEMMA CallsTyped ==
    ASSUME NEW f \in Calls
    PROVE  Todo(f) /\ f \in Seq(Parts)
<1>1. ASSUME NEW S, NEW a \in S PROVE <<a>> \in Seq(S)
  OBVIOUS
<1>2. ASSUME NEW c \in Contexts, f = Generate(c) PROVE f \in Seq(GenParts)
  <2>1. Order[c] \in Nat \ {0} /\ Order[c] % 4 = 0
    BY TablesAssumption, Zenon
  <2>2. Part("initialize", 0, Order[c]) \in GenParts
    BY <2>1, Zenon DEF Part, GenParts, Parts, Kinds
  <2> QED BY <1>1, <1>2, <2>2, TowersTyped, Joined, Zenon DEF Generate
<1>3. ASSUME NEW c \in Contexts, NEW p \in PlainModuli[c], f = PackSlots(c, p) \/ f = UnpackSlots(c, p)
      PROVE  f \in Seq(DataParts)
  <2>1. Order[c] \in Nat \ {0} /\ p \in Nat
    BY TablesAssumption, Zenon
  <2>2. /\ Part("pack", p, Order[c]) \in DataParts /\ Part("inverse", p, Order[c]) \in DataParts
        /\ Part("forward", p, Order[c]) \in DataParts
    BY <2>1, Zenon DEF Part, DataParts, Parts, Kinds
  <2>3. ASSUME NEW S, NEW a \in S, NEW b \in S PROVE <<a, b>> \in Seq(S)
    OBVIOUS
  <2> QED BY <1>3, <2>2, <2>3, Zenon DEF PackSlots, UnpackSlots
<1>4. ASSUME NEW c \in Contexts, NEW n \in Slots[c], f = EncodeCKKS(c, n) \/ f = DecodeCKKS(c, n)
      PROVE  f \in Seq(DataParts)
  <2>1. n \in Nat \ {0}
    BY TablesAssumption, Zenon
  <2>2. Part("special", 0, 4 * n) \in DataParts
    BY <2>1 DEF Part, DataParts, Parts, Kinds
  <2>3. Towers("forward", c) \in Seq(DataParts) /\ Towers("inverse", c) \in Seq(DataParts)
    BY TowersTyped, Zenon
  <2>4. <<Part("special", 0, 4 * n)>> \in Seq(DataParts)
    BY <1>1, <2>2, Zenon
  <2>5. EncodeCKKS(c, n) \in Seq(DataParts)
    BY <2>3, <2>4, Joined, Zenon DEF EncodeCKKS
  <2>6. DecodeCKKS(c, n) \in Seq(DataParts)
    BY <2>3, <2>4, Joined, Zenon DEF DecodeCKKS
  <2> QED BY <1>4, <2>5, <2>6, Zenon
<1>5. ASSUME NEW m \in FieldOrders, f = SwitchFormatField2n(m) PROVE f \in Seq(FieldParts) /\ Len(f) <= 1
  <2>1. m \in Nat \ {0}
    BY TablesAssumption, Zenon
  <2>2. Part("field", 0, m) \in FieldParts
    BY <2>1, Zenon DEF Part, FieldParts, Parts, Kinds
  <2>3. f = <<Part("field", 0, m)>>
    BY <1>5, Zenon DEF SwitchFormatField2n
  <2>4. f \in Seq(FieldParts)
    BY <1>1, <2>2, <2>3, Zenon
  <2>5. Len(f) = 1
    BY <2>3, Zenon
  <2> QED BY <2>4, <2>5
<1>6. \/ \E c \in Contexts : f = Generate(c)
      \/ \E c \in Contexts : \E p \in PlainModuli[c] : f = PackSlots(c, p) \/ f = UnpackSlots(c, p)
      \/ \E c \in Contexts : \E n \in Slots[c] : f = EncodeCKKS(c, n) \/ f = DecodeCKKS(c, n)
      \/ \E m \in FieldOrders : f = SwitchFormatField2n(m)
  <2>1. (\E c \in Contexts : f \in CallsOf(c)) \/ (\E m \in FieldOrders : f = SwitchFormatField2n(m))
    <3>1. f \in UNION {CallsOf(c) : c \in Contexts} \/ f \in {SwitchFormatField2n(m) : m \in FieldOrders}
      BY Zenon DEF Calls
    <3>2. f \in UNION {CallsOf(c) : c \in Contexts} => \E c \in Contexts : f \in CallsOf(c)
      BY Zenon
    <3> QED BY <3>1, <3>2, Zenon
  <2>2. ASSUME NEW c \in Contexts, f \in CallsOf(c)
        PROVE  \/ f = Generate(c)
               \/ \E p \in PlainModuli[c] : f = PackSlots(c, p) \/ f = UnpackSlots(c, p)
               \/ \E n \in Slots[c] : f = EncodeCKKS(c, n) \/ f = DecodeCKKS(c, n)
    BY <2>2, Zenon DEF CallsOf
  <2> QED BY <2>1, <2>2, Zenon
<1>7. Todo(f)
  BY <1>2, <1>3, <1>4, <1>5, <1>6, Zenon DEF Todo
<1>8. f \in Seq(Parts)
  <2>1. f = <<>> => f \in Seq(Parts)
    OBVIOUS
  <2> QED BY <1>7, <2>1, Parted, Zenon
<1> QED BY <1>7, <1>8, Zenon

LEMMA ForkStep ==
    ASSUME IInv, Idle, ~mixed,
           NEW W \in (SUBSET Threads) \ {{}}, NEW f \in [W -> Calls], Fork(W, f)
    PROVE  IInv'
<1>1. Idle /\ ~mixed /\ call' = [t \in W |-> Begun(f[t], Fits(f[t]))]
  BY Zenon DEF Fork
<1>2. table' = table /\ lock' = lock /\ last' = last
  BY Zenon DEF Fork
<1>3. lock = NoThread
  BY <1>1, Zenon DEF IInv, Inv, Locks, Idle
<1>4. mixed' = (mixed \/ cold') /\ cold' = (Several(W) /\ \E t \in W : ~Warm(f[t]))
  BY Zenon DEF Fork
<1>5. DOMAIN call' = W /\ call' = [t \in DOMAIN call' |-> call'[t]]
  BY <1>1, Zenon
<1>6. ASSUME NEW t \in W
      PROVE  /\ call'[t] \in CallRecord /\ call'[t].todo = f[t] /\ call'[t].at = "check"
             /\ Todo(f[t]) /\ (call'[t].ok <=> TRUE) /\ (call'[t].fit <=> Fits(f[t]))
  <2> DEFINE b == Fits(f[t])
  <2>1. call'[t] = Begun(f[t], b)
    BY <1>1, Zenon
  <2>2. f[t] \in Calls
    BY Zenon
  <2>3. Todo(f[t]) /\ f[t] \in Seq(Parts)
    BY <2>2, CallsTyped, Zenon
  <2>4. b \in BOOLEAN
    BY Zenon DEF Fits
  <2>5. "check" \in Places /\ 0 \in Nat /\ <<>> \in Seq(Key \X Nat) /\ TRUE \in BOOLEAN
    BY DEF Places
  <2> DEFINE s == f[t]
             r == call'[t]
  <2> HIDE DEF b, s, r
  <2>6. r = [todo |-> s, at |-> "check", arg |-> 0, writes |-> <<>>, ok |-> TRUE, fit |-> b]
    BY <2>1, Zenon DEF Begun, s, r
  <2>7. r \in CallRecord /\ r.todo = s /\ r.at = "check"
    BY <2>3, <2>4, <2>5, <2>6, Zenon DEF CallRecord, s
  <2>8. (r.ok <=> TRUE) /\ (r.fit <=> b)
    BY <2>6, Zenon
  <2> QED BY <2>3, <2>7, <2>8, Zenon DEF b, s, r
<1>7. \A t \in W : Thread(call'[t], table) /\ call'[t].at # "write"
  <2> TAKE t \in W
  <2> DEFINE r == call'[t]
  <2>1. r \in CallRecord /\ Todo(r.todo) /\ r.at = "check" /\ r.ok
    BY <1>6, Zenon
  <2> HIDE DEF r
  <2>2. Thread(r, table) /\ r.at # "write"
    BY <2>1, Zenon DEF Thread
  <2> QED BY <2>2, Zenon DEF r
<1>8. Locks(lock', call')
  BY <1>2, <1>3, <1>5, <1>7, Zenon DEF Locks
<1>9. Pending(lock', call') = Pending(lock, call)
  BY <1>2, <1>3, Zenon DEF Pending
<1>10. Inv(table', lock', call')
  <2>1. W \subseteq Threads /\ lock' = NoThread
    BY <1>2, <1>3, Zenon
  <2> QED BY <1>2, <1>5, <1>7, <1>8, <1>9, <2>1, Zenon DEF IInv, Inv
<1>11. ASSUME ~mixed' PROVE Calm(table', lock', call', last')
  <2>1. ~Several(W) \/ \A t \in W : Warm(f[t])
    BY <1>4, <1>11, Zenon
  <2>2. last \in Nat
    BY <1>1, Zenon DEF IInv, Calm
  <2>3. LastKept(table', lock', call', last')
    <3>1. Cont(table, M) = last
      BY <1>1, <1>3, FreeTables, Zenon
    <3> QED BY <1>2, <1>3, <3>1, SettledNone, Zenon DEF LastKept, Pending
  <2>4. \A t \in W : Fitted(call'[t], last)
    BY <1>6, ZenonT(60) DEF Fitted, Fits
  <2>5. ASSUME ~Several(W) PROVE \E t \in W : W = {t} /\ Alone(call'[t], table, last)
    <3>4. PICK t \in W : W = {t}
      BY <2>5 DEF Several
    <3>5. call'[t].at = "check" /\ t \in W
      BY <1>6, <3>4, Zenon
    <3>6. Alone(call'[t], table, last)
      BY <3>5, Zenon DEF Alone
    <3> QED BY <3>4, <3>5, <3>6, Zenon
  <2>6. ASSUME \A t \in W : Warm(f[t]) PROVE \A t \in W : Reader(call'[t], table)
    <3> TAKE t \in W
    <3> DEFINE r == call'[t]
               s == f[t]
    <3>1. r.todo = s /\ r.at = "check" /\ Warm(s)
      BY <1>6, <2>6, Zenon
    <3> HIDE DEF r, s
    <3>2. ASSUME NEW i \in 1 .. Len(s) PROVE WarmPart(table, s[i])
      BY <3>1, <3>2, Contents, Zenon DEF Warm, WarmPart
    <3>3. r.at # "find" /\ r.at # "enter" /\ r.at \in {"check", "find", "enter", "using"}
      BY <3>1, Zenon
    <3> QED BY <3>1, <3>2, <3>3, Zenon DEF Reader, r
  <2> QED BY <1>2, <1>3, <1>5, <2>1, <2>2, <2>3, <2>4, <2>5, <2>6, ZenonT(60) DEF Calm
<1>12. mixed' => cold'
  BY <1>1, <1>4, Zenon
<1> QED BY <1>10, <1>11, <1>12, Zenon DEF IInv

-----------------------------------------------------------------------------
(* The invariant and what follows from it.                                 *)

LEMMA InitInv == Init => IInv
<1> SUFFICES ASSUME Init PROVE IInv
  BY Zenon
<1>1. /\ table = [k \in Statics |-> 0] /\ lock = NoThread /\ call = <<>> /\ last = 0
      /\ ~cold /\ ~mixed
  BY Zenon DEF Init
<1>2. DOMAIN call = {} /\ call = [t \in DOMAIN call |-> call[t]]
  BY <1>1
<1>3. \A k : Cont(table, k) = 0
  BY <1>1, Zenon DEF Cont
<1>4. Pending(lock, call) = <<>>
  BY <1>1, Zenon DEF Pending
<1>5. \A k : Settled(<<>>, table, k, 0)
  BY <1>3, SettledNone, Zenon
<1>6. Coherent(<<>>, table)
  <2>1. CoherentFTT(<<>>, table)
    BY <1>5, Zenon DEF CoherentFTT
  <2>2. CoherentDFT(<<>>, table)
    <3>1. 0 \div 4 = 0
      OBVIOUS
    <3> QED BY <1>5, <3>1, Zenon DEF CoherentDFT
  <2>3. CoherentPack(<<>>, table)
    BY <1>5, Zenon DEF CoherentPack
  <2> QED BY <2>1, <2>2, <2>3, Zenon DEF Coherent
<1>7. Typed(table)
  <2>1. DOMAIN table \subseteq Key
    BY <1>1, StaticKeys, Zenon
  <2>2. 0 \in Nat /\ 0 % 4 = 0
    OBVIOUS
  <2> QED BY <1>3, <2>1, <2>2, Zenon DEF Typed
<1>8. Inv(table, lock, call)
  BY <1>1, <1>2, <1>4, <1>6, <1>7, Zenon DEF Inv, Locks
<1>9. Calm(table, lock, call, last)
  <2>1. 0 \in Nat
    BY Zenon
  <2> QED BY <1>1, <1>2, <1>4, <1>5, <2>1, Zenon DEF Calm, LastKept
<1> QED BY <1>1, <1>8, <1>9, Zenon DEF IInv

LEMMA StepInv == IInv /\ [Next]_vars => IInv'
<1> SUFFICES ASSUME IInv, [Next]_vars PROVE IInv'
  BY Zenon
<1>1. ASSUME Idle, ~mixed, NEW W \in (SUBSET Threads) \ {{}}, NEW f \in [W -> Calls], Fork(W, f)
      PROVE  IInv'
  BY <1>1, ForkStep, Zenon
<1>2. ASSUME NEW t \in Threads, Check(t) PROVE IInv'
  BY <1>2, CheckGoes, CheckMakes, Zenon
<1>3. ASSUME NEW t \in Threads, Reread(t) PROVE IInv'
  BY <1>3, RereadStep, Zenon
<1>4. ASSUME NEW t \in Threads, Find(t) PROVE IInv'
  BY <1>4, FindStep, ZenonT(60)
<1>5. ASSUME NEW t \in Threads, Enter(t) PROVE IInv'
  BY <1>5, EnterStep, Zenon
<1>6. ASSUME NEW t \in Threads, Write(t) PROVE IInv'
  BY <1>6, WriteStep, Zenon
<1>7. ASSUME NEW t \in Threads, Transform(t) PROVE IInv'
  BY <1>7, TransformStep, Zenon
<1>8. CASE UNCHANGED vars
  <2>1. table' = table /\ lock' = lock /\ call' = call /\ last' = last /\ cold' = cold /\ mixed' = mixed
    BY <1>8, Zenon DEF vars
  <2>2. Inv(table', lock', call')
    BY <2>1, Zenon DEF IInv
  <2>3. (mixed' => cold') /\ (~mixed' => Calm(table', lock', call', last'))
    BY <2>1, Zenon DEF IInv
  <2> QED BY <2>2, <2>3, Zenon DEF IInv
<1>9. CASE Next
  <2>1. CASE \E t \in Threads : Step(t)
    BY <1>2, <1>3, <1>4, <1>5, <1>6, <1>7, <2>1, Zenon DEF Step
  <2>2. CASE /\ Idle /\ ~mixed
             /\ \E W \in (SUBSET Threads) \ {{}} : \E f \in [W -> Calls] : Fork(W, f)
    BY <1>1, <2>2, Zenon
  <2> QED BY <1>9, <2>1, <2>2, Zenon DEF Next
<1> QED BY <1>8, <1>9, Zenon

\* The inductive invariant holds in every state of the program.
THEOREM TablesInvariant == Spec => []IInv
BY InitInv, StepInv, PTL DEF Spec

\* Whatever the threads do, with the lock free the six NTT tables of a modulus
\* are of one ring and so are the four DFT statics: PreCompute and Initialize
\* fill their tables under the one lock and by the same order.
THEOREM CoherentTables == Spec => []TablesCoherent
<1>1. ASSUME IInv PROVE TablesCoherent
  <2> SUFFICES ASSUME lock = NoThread
               PROVE  /\ \A k \in DOMAIN table :
                            k[1] \in {FTTMaps[i] : i \in 1 .. Len(FTTMaps)} =>
                               \A i \in 1 .. Len(FTTMaps) : Content(FTT(FTTMaps[i], k[2])) = table[k]
                      /\ Content(Rot) = Content(M) /\ Content(Ksi) = Content(M)
                      /\ 4 * Content(Nh) = Content(M)
    BY Zenon DEF TablesCoherent
  <2>1. /\ Content(Rot) = Content(M) /\ Content(Ksi) = Content(M)
        /\ Content(Nh) = Content(M) \div 4
    BY <1>1, FreeTables, Contents, Zenon
  <2>2. Content(M) \in Nat /\ Content(M) % 4 = 0
    BY <1>1, Contents, StaticKeys, Zenon DEF IInv, Inv, Typed, Statics
  <2>3. 4 * Content(Nh) = Content(M)
    BY <2>1, <2>2
  <2>4. ASSUME NEW k \in DOMAIN table, k[1] \in FTTNames, NEW i \in 1 .. 6
        PROVE  Content(FTT(FTTMaps[i], k[2])) = table[k]
    <3>1. k \in Key
      BY <1>1, Zenon DEF IInv, Inv, Typed
    <3>2. k = <<k[1], k[2], 0>> /\ k[2] \in Nat
      BY <2>4, <3>1 DEF Key
    <3>3. PICK j \in 1 .. 6 : k[1] = FTTMaps[j]
      BY <2>4, MapNames, Zenon
    <3>4. k = FTT(FTTMaps[j], k[2])
      BY <3>2, <3>3, Zenon DEF FTT
    <3>5. Cont(table, FTT(FTTMaps[i], k[2])) = Cont(table, FTT(FTTMaps[j], k[2]))
      BY <1>1, <3>2, FreeTables, Zenon
    <3>6. Cont(table, k) = table[k]
      BY Zenon DEF Cont
    <3> QED BY <3>4, <3>5, <3>6, Contents, Zenon
  <2> QED BY <2>1, <2>3, <2>4, MapNames, Zenon DEF FTTNames
<1> QED BY <1>1, TablesInvariant, PTL

\* Serial programs, and parallel regions that find all their tables, compute
\* with the tables of their own ring; a CKKS plaintext must fit the ring of the
\* context generated last, whose DFT tables Initialize left behind.
THEOREM SerialAndWarmRight == Spec => []SerialAndWarmCallsRight
<1>1. ASSUME IInv PROVE SerialAndWarmCallsRight
  BY <1>1, Zenon DEF IInv, Calm, Fitted, SerialAndWarmCallsRight
<1> QED BY <1>1, TablesInvariant, PTL

\* In every region, cold ones included, the FFT of Field2n computes with the
\* tables of its size and nobody changes them under it.
THEOREM FieldRight == Spec => []FieldTransformsRight
<1>1. ASSUME IInv PROVE FieldTransformsRight
  <2> SUFFICES ASSUME NEW t \in DOMAIN call, Running(t), Now(t).kind = "field", call[t].at = "using"
               PROVE  call[t].ok /\ Right(Now(t))
    BY Zenon DEF FieldTransformsRight
  <2> DEFINE p == Now(t)
  <2>1. t \in Threads
    BY <1>1, Zenon DEF IInv, Inv
  <2>2. /\ p \in Parts /\ p = call[t].todo[1] /\ call[t].todo # <<>> /\ Thread(call[t], table)
    BY <1>1, <2>1, RunningThread, Zenon
  <2>3. call[t].ok /\ Cont(table, CosSin(p.m)) = p.m
    BY <2>2, Zenon DEF Thread
  <2>4. Reads(p) = {CosSin(p.m)} /\ p.kind # "special"
    BY <2>2, ReadsOf, Zenon
  <2>5. RightIn(table, p)
    BY <2>3, <2>4, Zenon DEF RightIn
  <2> QED BY <2>3, <2>5, Contents, Zenon
<1> QED BY <1>1, TablesInvariant, PTL

\* A parallel region that finds all its tables writes none of them: the tests
\* at the head of the transforms and of Pack send its threads into no section
\* that writes, and make no entry.
THEOREM WarmReadOnly == Spec => WarmRegionsReadOnly
<1>1. ASSUME IInv, [Next]_vars, Several(DOMAIN call), ~cold
      PROVE  table' = table /\ \A t \in DOMAIN call : call[t].at # "write"
  <2>1. Calm(table, lock, call, last) /\ DOMAIN call \subseteq Threads
    BY <1>1, Zenon DEF IInv, Inv
  <2>2. \A t : DOMAIN call # {t}
    BY <1>1, Zenon DEF Several
  <2>3. lock = NoThread /\ \A t \in DOMAIN call : Reader(call[t], table)
    BY <2>1, <2>2, Zenon DEF Calm
  <2>4. \A t \in DOMAIN call : call[t].at # "write"
    <3>1. "write" \notin {"check", "find", "enter", "using"}
      BY Zenon
    <3> QED BY <2>3, <3>1, Zenon DEF Reader
  <2>5. ASSUME NEW t \in Threads, Step(t) PROVE table' = table
    <3>1. Write(t) => FALSE
      BY <2>4, Zenon DEF Write, Running
    <3>2. ASSUME Check(t) PROVE table' = table
      <4> DEFINE p == Now(t)
      <4>1. Running(t) /\ t \in DOMAIN call
        BY <3>2, Zenon DEF Check, Running
      <4>2. WarmPart(table, p) /\ p \in Parts
        BY <1>1, <2>3, <4>1, RunningThread, Zenon
      <4>3. ASSUME p.kind = "pack" PROVE InitRoot(p.q, p.m) \in DOMAIN table
        <5>1. RightIn(table, p)
          BY <4>2, <4>3, Zenon DEF WarmPart
        <5>2. Cont(table, InitRoot(p.q, p.m)) # 0
          BY <1>1, <2>3, <4>2, <4>3, <5>1, PackIsRight, Zenon
        <5> QED BY <5>2, Zenon DEF Cont
      <4>4. p.kind \in Kinds
        BY <4>2, Zenon DEF Parts
      <4> QED BY <3>2, <4>3, <4>4, Zenon DEF Check, Stay, Kinds
    <3>3. Reread(t) \/ Find(t) \/ Enter(t) \/ Transform(t) => table' = table
      BY Zenon DEF Reread, Find, Enter, Transform, Stay
    <3> QED BY <2>5, <3>1, <3>2, <3>3, Zenon DEF Step
  <2>6. ASSUME NEW W, NEW f, Fork(W, f) PROVE table' = table
    BY <2>6, Zenon DEF Fork
  <2>7. ASSUME UNCHANGED vars PROVE table' = table
    BY <2>7, Zenon DEF vars
  <2>8. table' = table
    BY <1>1, <2>5, <2>6, <2>7, Zenon DEF Next
  <2> QED BY <2>4, <2>8, Zenon
<1>2. IInv /\ [Next]_vars =>
         [Several(DOMAIN call) /\ ~cold =>
             /\ UNCHANGED table
             /\ \A t \in DOMAIN call : call[t].at # "write"]_vars
  BY <1>1, Zenon
<1> QED BY <1>2, TablesInvariant, PTL DEF Spec, WarmRegionsReadOnly

=============================================================================
