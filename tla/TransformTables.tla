-------------------------- MODULE TransformTables --------------------------
(***************************************************************************)
(* The static tables of the transforms, shared by every context and thread *)
(* of the process: the DFT tables of the CKKS encoding (one set, for one   *)
(* ring), the NTT tables by modulus (six maps filled one after the other), *)
(* the roots and slot permutations of the packed encoding, and the tables  *)
(* of the FFT of Field2n.                                                  *)
(*                                                                         *)
(* Tables are filled on demand.  The unnamed omp critical sections are one *)
(* lock; most of the tests that decide whether to fill, and all the reads  *)
(* of the tables, are outside it.  A parallel region is one call per       *)
(* thread; a region of one thread is the serial part of a program.         *)
(*                                                                         *)
(* The content of a table is the order it was computed for.  A table that  *)
(* is written while another thread reads it gives that thread anything     *)
(* (the vector may be reallocated, the map rebalanced).                    *)
(***************************************************************************)
EXTENDS Integers, Sequences

CONSTANTS
    Threads,
    Contexts,       \* contexts the program may generate
    Order,          \* cyclotomic order of a context
    Moduli,         \* its chain of moduli, a sequence
    PlainModuli,    \* plaintext moduli it is used with (none with CKKS)
    Slots,          \* numbers of slots of its CKKS plaintexts, up to Order / 4
    FieldOrders,    \* sizes of Field2n transforms
    PlainPrimes,    \* the plaintext moduli that are prime
    NoThread

\* Rings of a power of two of at least four; a CKKS plaintext has a slot.
ASSUME TablesAssumption ==
    /\ NoThread \notin Threads
    /\ \A c \in Contexts :
          /\ Order[c] \in Nat \ {0} /\ Order[c] % 4 = 0
          /\ Moduli[c] \in Seq(Nat) /\ PlainModuli[c] \subseteq Nat
          /\ Slots[c] \subseteq Nat \ {0}
    /\ FieldOrders \subseteq Nat \ {0}

VARIABLES
    table,          \* key |-> order the content is for; a key not there is absent
    lock,           \* the thread in a critical section
    call,           \* the call of each thread of the region
    last,           \* history: order of the ring of the last context generated
    cold,           \* history: this region has several threads and may fill tables
    mixed           \* history: there has been such a region

vars == <<table, lock, call, last, cold, mixed>>

-----------------------------------------------------------------------------
(* Tables.                                                                 *)

Flag == <<"m_isInitialized", 0, 0>>
M    == <<"m_M", 0, 0>>
Nh   == <<"m_Nh", 0, 0>>
Rot  == <<"m_rotGroup", 0, 0>>
Ksi  == <<"m_ksiPows", 0, 0>>

Statics == {Flag, M, Nh, Rot, Ksi}

\* The maps of ChineseRemainderTransformFTTNat in the order PreCompute fills them.
FTTMaps == <<"reverse", "inverse", "cycloInv", "precon", "preconI", "preconCOI">>

FTT(name, q)  == <<name, q, 0>>
InitRoot(p, m) == <<"m_initRoot", p, m>>
Perm(m)       == <<"m_toCRTPerm", 0, m>>
CosSin(m)     == <<"cosTable", 0, m>>

Content(k) == IF k \in DOMAIN table THEN table[k] ELSE 0

Put(f, k, v) == [x \in DOMAIN f \cup {k} |-> IF x = k THEN v ELSE f[x]]

-----------------------------------------------------------------------------
(* The parts of a call, in order.                                          *)

Part(kind, q, m) == [kind |-> kind, q |-> q, m |-> m]

Towers(kind, c) == [i \in 1 .. Len(Moduli[c]) |-> Part(kind, Moduli[c][i], Order[c])]

\* The parameters of a context: DFT tables, NTT tables of its chain.
Generate(c) == <<Part("initialize", 0, Order[c])>> \o Towers("precompute", c)

\* A CKKS plaintext: the special FFT of its slots, then one NTT per tower.
EncodeCKKS(c, slots) == <<Part("special", 0, 4 * slots)>> \o Towers("forward", c)

DecodeCKKS(c, slots) == Towers("inverse", c) \o <<Part("special", 0, 4 * slots)>>

PackSlots(c, p) == <<Part("pack", p, Order[c]), Part("inverse", p, Order[c])>>

UnpackSlots(c, p) == <<Part("pack", p, Order[c]), Part("forward", p, Order[c])>>

SwitchFormatField2n(m) == <<Part("field", 0, m)>>

CallsOf(c) ==
    {Generate(c)}
        \cup {PackSlots(c, p) : p \in PlainModuli[c]} \cup {UnpackSlots(c, p) : p \in PlainModuli[c]}
        \cup {EncodeCKKS(c, s) : s \in Slots[c]} \cup {DecodeCKKS(c, s) : s \in Slots[c]}

Calls == (UNION {CallsOf(c) : c \in Contexts}) \cup {SwitchFormatField2n(m) : m \in FieldOrders}

\* The tables a part computes with.
Reads(p) ==
    CASE p.kind = "special" -> {M, Rot, Ksi}
      [] p.kind = "forward" -> {FTT("reverse", p.q), FTT("precon", p.q)}
      [] p.kind = "inverse" -> {FTT(n, p.q) : n \in {"inverse", "cycloInv", "preconI", "preconCOI"}}
      [] p.kind = "pack"    -> {InitRoot(p.q, p.m), Perm(p.m)}
      [] p.kind = "field"   -> {CosSin(p.m)}
      [] OTHER              -> {}

\* The tables give the right result: the special FFT takes every gap-th power
\* and works with the tables of any ring that is large enough.
Right(p) ==
    IF p.kind = "special"
    THEN Content(M) >= p.m /\ Content(Rot) = Content(M) /\ Content(Ksi) = Content(M)
    ELSE \A k \in Reads(p) : Content(k) = p.m

-----------------------------------------------------------------------------
(* What is written in the critical sections, in order.                     *)

Initialize(m) ==
    <<<<Flag, 0>>, <<M, m>>, <<Nh, m \div 4>>, <<Rot, m>>, <<Ksi, m>>, <<Flag, 1>>>>

\* Mutant: the preconditioned tables are written nowhere.
PreComputeNoPrecon(q, m) == [i \in 1 .. 3 |-> <<FTT(FTTMaps[i], q), m>>]

PreCompute(q, m) == [i \in 1 .. Len(FTTMaps) |-> <<FTT(FTTMaps[i], q), m>>]

\* The permutation is sized first (all zeros), then filled.
SetParams_2n(p, m) == <<<<InitRoot(p, m), m>>, <<Perm(m), 0>>, <<Perm(m), m>>>>

\* Mutant: the tables are made anew by every call.
FillCosSinAgain(m) == <<<<CosSin(m), m>>>>

\* The tables are made in the critical section that has tested for them.
FillCosSin(m) == IF Content(CosSin(m)) = m THEN <<>> ELSE <<<<CosSin(m), m>>>>

Writes(p, m) ==
    CASE p.kind \in {"initialize", "special"}            -> Initialize(m)
      [] p.kind \in {"precompute", "forward", "inverse"} -> PreCompute(p.q, p.m)
      [] p.kind = "pack"                                 -> SetParams_2n(p.q, p.m)
      [] p.kind = "field"                                -> FillCosSin(p.m)

-----------------------------------------------------------------------------
(* The steps of a thread.                                                  *)

\* `arg' is the order Initialize was called with, `ok' says that all reads so
\* far gave what the call needed, `fit' that the plaintext is one of the ring
\* of the last context.
Begun(parts, fit) ==
    [todo |-> parts, at |-> "check", arg |-> 0, writes |-> <<>>, ok |-> TRUE, fit |-> fit]

Init ==
    /\ table = [k \in Statics |-> 0]
    /\ lock = NoThread
    /\ call = <<>>
    /\ last = 0
    /\ cold = FALSE
    /\ mixed = FALSE

Now(t) == Head(call[t].todo)

Running(t) == t \in DOMAIN call /\ call[t].todo # <<>>

\* A write is seen by every other thread that is reading the table, and a new
\* key of a map by every other reader of the map (cosTable is a vector by log2 m).
Spoils(k, u) ==
    /\ Running(u) /\ call[u].at = "using"
    /\ \E r \in Reads(Now(u)) :
          r = k \/ (k \notin DOMAIN table /\ r[1] = k[1] /\ r[1] # "cosTable")

Store(t, k, v, mine) ==
    /\ table' = Put(table, k, v)
    /\ call' = [u \in DOMAIN call |->
                   IF u = t THEN mine
                   ELSE [call[u] EXCEPT !.ok = @ /\ ~Spoils(k, u)]]

Goto(t, place) == [call[t] EXCEPT !.at = place]

\* The next part, or the end of the call.
Advance(t, me) == [me EXCEPT !.todo = Tail(@), !.at = "check"]

Stay(t, me) == call' = [call EXCEPT ![t] = me] /\ UNCHANGED table

\* Mutant: the length of the table is not compared.
FoundAnyLength(q, m) == FTT("reverse", q) \in DOMAIN table

\* Mutant: the length is compared with half the length.
FoundHalfLength(q, m) == FTT("reverse", q) \in DOMAIN table /\ 2 * table[FTT("reverse", q)] = m

\* The test before PreCompute and again in it, outside the critical section.
Found(q, m) == FTT("reverse", q) \in DOMAIN table /\ table[FTT("reverse", q)] = m

\* The part's own test.
Check(t) ==
    /\ Running(t) /\ call[t].at = "check"
    /\ LET p == Now(t)
       IN  CASE p.kind = "special" ->
                    Stay(t, Goto(t, IF Content(Flag) = 1 THEN "using" ELSE "reread"))
             [] p.kind \in {"forward", "inverse"} ->
                    Stay(t, Goto(t, IF Found(p.q, p.m) THEN "using" ELSE "find"))
             [] p.kind = "precompute" -> Stay(t, Goto(t, "find"))
             [] p.kind = "pack" ->
                    LET next == Goto(t, IF Content(InitRoot(p.q, p.m)) # 0 THEN "using" ELSE "enter")
                    IN  IF InitRoot(p.q, p.m) \in DOMAIN table THEN Stay(t, next)
                        ELSE Store(t, InitRoot(p.q, p.m), 0, next)
             [] p.kind = "initialize" ->
                    Stay(t, [Goto(t, "enter") EXCEPT !.arg = p.m])
             [] p.kind = "field" -> Stay(t, Goto(t, "enter"))
    /\ UNCHANGED <<lock, last, cold, mixed>>

\* FFTSpecial found the flag down: Initialize(m_M, m_M / 4), whatever m_M is by now.
Reread(t) ==
    /\ Running(t) /\ call[t].at = "reread"
    /\ Stay(t, [Goto(t, "enter") EXCEPT !.arg = Content(M)])
    /\ UNCHANGED <<lock, last, cold, mixed>>

\* PreCompute's own find.
Find(t) ==
    /\ Running(t) /\ call[t].at = "find"
    /\ Stay(t, IF ~Found(Now(t).q, Now(t).m) THEN Goto(t, "enter")
               ELSE IF Now(t).kind = "precompute" THEN Advance(t, call[t])
               ELSE Goto(t, "using"))
    /\ UNCHANGED <<lock, last, cold, mixed>>

\* What follows the section, and who holds the lock then.
AfterSection(t, me) ==
    IF Now(t).kind \in {"initialize", "precompute"} THEN Advance(t, me) ELSE [me EXCEPT !.at = "using"]

\* Mutant: the NTT tables of the plaintext modulus are filled by SetParams, in
\* its critical section.
NestedSection(t) == IF Now(t).kind = "pack" THEN t ELSE NoThread

Release(t) == NoThread

\* A plaintext modulus that is not prime is found out inside the section, and
\* the exception ends the call; the tables of Field2n may be there already.  The
\* exception leaves an OpenMP critical section, which OpenMP does not define: a
\* build with OpenMP may end the process here instead, and leave no tables.
Enter(t) ==
    /\ Running(t) /\ call[t].at = "enter"
    /\ lock = NoThread
    /\ LET writes == Writes(Now(t), call[t].arg)
       IN  \/ /\ Now(t).kind = "pack" /\ Now(t).q \notin PlainPrimes
              /\ Stay(t, [call[t] EXCEPT !.todo = <<>>, !.fit = FALSE])
              /\ UNCHANGED lock
           \/ /\ ~(Now(t).kind = "pack" /\ Now(t).q \notin PlainPrimes)
              /\ Stay(t, IF writes = <<>> THEN AfterSection(t, call[t])
                         ELSE [Goto(t, "write") EXCEPT !.writes = writes])
              /\ lock' = IF writes = <<>> THEN NoThread ELSE t
    /\ UNCHANGED <<last, cold, mixed>>

\* One assignment; the last one ends the section.
Write(t) ==
    /\ Running(t) /\ call[t].at = "write"
    /\ LET w    == Head(call[t].writes)
           rest == [call[t] EXCEPT !.writes = Tail(@)]
           end  == Len(call[t].writes) = 1
       IN  /\ Store(t, w[1], w[2], IF end THEN AfterSection(t, rest) ELSE rest)
           /\ lock' = IF end THEN Release(t) ELSE lock
           /\ last' = IF end /\ Now(t).kind = "initialize" THEN Now(t).m ELSE last
    /\ UNCHANGED <<cold, mixed>>

\* The transform, from the test or the section that precedes it to its last
\* read of the tables.
Transform(t) ==
    /\ Running(t) /\ call[t].at = "using"
    /\ Stay(t, Advance(t, [call[t] EXCEPT !.ok = @ /\ Right(Now(t))]))
    /\ UNCHANGED <<lock, last, cold, mixed>>

Step(t) ==
    \/ Check(t) \/ Reread(t) \/ Find(t)
    \/ Enter(t) \/ Write(t) \/ Transform(t)

-----------------------------------------------------------------------------
(* Regions.                                                                *)

\* Every table the call needs is there: it will only read.
Warm(parts) ==
    \A i \in 1 .. Len(parts) :
        CASE parts[i].kind = "initialize" -> FALSE
          [] parts[i].kind = "precompute" -> Found(parts[i].q, parts[i].m)
          [] parts[i].kind = "special"    -> Content(Flag) = 1
          [] OTHER                        -> Right(parts[i])

Fits(parts) == \A i \in 1 .. Len(parts) : parts[i].kind = "special" => parts[i].m <= last

Several(W) == \E t, u \in W : t # u

Idle == \A t \in DOMAIN call : call[t].todo = <<>>

\* A parallel region (or a single call): W is its team.
Fork(W, f) ==
    /\ call' = [t \in W |-> Begun(f[t], Fits(f[t]))]
    /\ cold' = (Several(W) /\ \E t \in W : ~Warm(f[t]))
    /\ mixed' = (mixed \/ cold')
    /\ UNCHANGED <<table, lock, last>>

\* A region starts when the one before has joined.  A bound: nothing is looked
\* at after the first region that may fill tables in parallel.
Next ==
    \/ /\ Idle /\ ~mixed
       /\ \E W \in (SUBSET Threads) \ {{}} : \E f \in [W -> Calls] : Fork(W, f)
    \/ \E t \in Threads : Step(t)

\* A thread that can go on does, in particular into a critical section that
\* stays free: each region is finite, so no thread is passed over for ever.
Fairness == \A t \in Threads : WF_vars(Step(t))

Spec == Init /\ [][Next]_vars /\ Fairness

-----------------------------------------------------------------------------
(* Properties.                                                             *)

\* Whatever the threads do, with the lock free the six NTT tables of a modulus
\* are of one ring (PreCompute), and so are the four DFT statics (Initialize).
TablesCoherent ==
    lock = NoThread =>
        /\ \A k \in DOMAIN table :
              k[1] \in {FTTMaps[i] : i \in 1 .. Len(FTTMaps)} =>
                  \A i \in 1 .. Len(FTTMaps) : Content(FTT(FTTMaps[i], k[2])) = table[k]
        /\ Content(Rot) = Content(M) /\ Content(Ksi) = Content(M) /\ 4 * Content(Nh) = Content(M)

\* In serial programs, and in parallel regions that find all their tables, every
\* transform computes with the tables of its own ring, however contexts that
\* share moduli alternate; a CKKS plaintext must fit the ring of the context that
\* was generated last, for Initialize replaces the only set of DFT tables.
SerialAndWarmCallsRight ==
    ~mixed => \A t \in DOMAIN call :
                  call[t].todo = <<>> /\ call[t].fit => call[t].ok

\* A parallel region that finds all its tables writes none of them, not even
\* with what they hold: no vector or map is changed under a reader (the tests at
\* the head of the transforms and of Pack).
WarmRegionsReadOnly ==
    [][Several(DOMAIN call) /\ ~cold =>
          /\ UNCHANGED table
          /\ \A t \in DOMAIN call : call[t].at # "write"]_vars

\* FFTForwardTransform tests for its tables inside the section that fills them
\* and never changes them again, so it is right in every region.
FieldTransformsRight ==
    \A t \in DOMAIN call :
        Running(t) /\ Now(t).kind = "field" /\ call[t].at = "using"
            => call[t].ok /\ Right(Now(t))

\* Every parallel region ends: critical sections do not nest and their tests
\* lead to the tables or into the section, never round in a circle.
RegionsJoin == ~Idle ~> Idle

=============================================================================
