----------------------- MODULE BlockAllocator_proofs ------------------------
(***************************************************************************)
(* For every set of threads, blocks, allocators and sizes: the allocator   *)
(* never loses a block nor hands one out twice, its counters are exact and *)
(* xalloc_destroy leaves what was not freed.                               *)
(*                                                                         *)
(* First the heap: what taking a block out, putting it back, writing to it *)
(* and the end of the allocators do to the blocks and the free lists; then *)
(* the calls and the clients.                                              *)
(***************************************************************************)
EXTENDS BlockAllocator, TLAPS, FiniteSetTheorems

-----------------------------------------------------------------------------
(* Sizes.                                                                  *)

\* The powers of two among which nexthigher chooses.
Powers == {1, 2, 4, 8, 16, 32, 64, 128, 256, 512, 1024, 2048, 4096, 8192, 16384,
           32768, 65536, 131072, 262144, 524288, 1048576}

LEMMA PowersOfTwo == {2 ^ i : i \in 0 .. 20} = Powers
<1>1. /\ 2 ^ 0 = 1 /\ 2 ^ 1 = 2 /\ 2 ^ 2 = 4 /\ 2 ^ 3 = 8 /\ 2 ^ 4 = 16 /\ 2 ^ 5 = 32
      /\ 2 ^ 6 = 64 /\ 2 ^ 7 = 128 /\ 2 ^ 8 = 256 /\ 2 ^ 9 = 512 /\ 2 ^ 10 = 1024
  BY SMT
<1>2. /\ 2 ^ 11 = 2048 /\ 2 ^ 12 = 4096 /\ 2 ^ 13 = 8192 /\ 2 ^ 14 = 16384
      /\ 2 ^ 15 = 32768 /\ 2 ^ 16 = 65536 /\ 2 ^ 17 = 131072 /\ 2 ^ 18 = 262144
      /\ 2 ^ 19 = 524288 /\ 2 ^ 20 = 1048576
  BY SMT
<1>3. 0 .. 20 = {0, 1, 2, 3, 4, 5, 6, 7, 8, 9, 10, 11, 12, 13, 14, 15, 16, 17, 18, 19, 20}
  BY SMT
<1> DEFINE p(i) == 2 ^ i
<1>4. {p(i) : i \in 0 .. 20} =
        {p(0), p(1), p(2), p(3), p(4), p(5), p(6), p(7), p(8), p(9), p(10), p(11), p(12),
         p(13), p(14), p(15), p(16), p(17), p(18), p(19), p(20)}
  <2> HIDE DEF p
  <2> QED BY <1>3
<1> QED BY <1>1, <1>2, <1>4, SMT DEF Powers

\* A size class holds what it is chosen for.
LEMMA NextHigher ==
    ASSUME NEW k \in Nat, 0 < k, k <= LargestBlock
    PROVE  nexthigher(k) \in Nat /\ k <= nexthigher(k)
<1>1. \E p \in Powers : p >= k /\ p < 2 * k
  BY SMT DEF Powers, LargestBlock
<1>2. nexthigher(k) \in Powers /\ nexthigher(k) >= k
  BY <1>1, PowersOfTwo, Zenon DEF nexthigher
<1>3. Powers \subseteq Nat
  BY SMT DEF Powers, LargestBlock
<1> QED BY <1>2, <1>3, Zenon

LEMMA BlockSizeHolds ==
    ASSUME NEW size \in Sizes
    PROVE  BlockSize(size) \in Nat /\ size + Pointer <= BlockSize(size)
<1>1. size \in Nat /\ size + Pointer \in Nat /\ 0 < size + Pointer /\ size + Pointer <= LargestBlock
  BY SizesAssumption DEF Pointer
<1> DEFINE n == size + Pointer
<1> HIDE DEF n
<1>2. nexthigher(n) \in Nat /\ n <= nexthigher(n) /\ n \in Nat
  BY <1>1, NextHigher, Zenon DEF n
<1> QED BY <1>2, SMT DEF BlockSize, n

-----------------------------------------------------------------------------
(* The inductive invariant.  Its parts take the state as arguments.  It    *)
(* names the free lists by the stacks they are: st[a][1] is the last block *)
(* of the list of a and st[a][n] its head.                                 *)

AllocatorRecord ==
    [size : Nat, head : Blocks \cup {Null}, blockCnt : Nat, inUse : Nat, peak : Nat]

BlockRecord ==
    [size : Nat, word : Blocks \cup Allocators \cup {Null}, data : Contents \cup {Null}]

\* What a program asked for and wrote.
UseRecord == [size : Sizes, data : Contents \cup {Null}]

CopyCall == [at : {"copy"}, old : Blocks, use : UseRecord, new : Blocks, size : Sizes]

FreeCall == [at : {"free"}, old : Blocks, owner : Blocks \cup Allocators \cup {Null},
             result : UNION {[S -> UseRecord] : S \in SUBSET Blocks}]

Calls == {Idle} \cup CopyCall \cup FreeCall

\* The free blocks of an allocator.
Depth(r) == r.blockCnt - r.inUse

\* s is the free list of the allocator r, from its end.
Stack(s, r, mm) ==
    /\ Depth(r) \in Nat
    /\ s \in [1 .. Depth(r) -> DOMAIN mm]
    /\ r.head = (IF Depth(r) = 0 THEN Null ELSE s[Depth(r)])
    /\ \A i \in 1 .. Depth(r) : mm[s[i]].word = (IF i = 1 THEN Null ELSE s[i - 1])

\* Every block is on one free list, once, or in U; blocks are taken from the
\* heap only when the free list is empty, so that blockCnt is the peak.
Heap(st, al, mm, U) ==
    /\ DOMAIN al \subseteq Allocators
    /\ DOMAIN mm \subseteq Blocks
    /\ IsFiniteSet(DOMAIN mm)
    /\ U \subseteq DOMAIN mm
    /\ \A a \in DOMAIN al : /\ al[a] \in AllocatorRecord
                            /\ al[a].blockCnt = al[a].peak
                            /\ Stack(st[a], al[a], mm)
    /\ \A b \in DOMAIN mm : mm[b] \in BlockRecord
    /\ \A a \in DOMAIN al : \A i \in 1 .. Depth(al[a]) : st[a][i] \notin U
    /\ \A a, c \in DOMAIN al : \A i \in 1 .. Depth(al[a]), j \in 1 .. Depth(al[c]) :
          st[a][i] = st[c][j] => a = c /\ i = j
    /\ \A b \in DOMAIN mm \ U : \E a \in DOMAIN al : \E i \in 1 .. Depth(al[a]) : st[a][i] = b

\* The blocks of U that go back to the allocator a.
Owned(a, mm, U) == {b \in U : mm[b].word = a}

\* The blocks in U name their allocators, which count them.
Out(al, mm, U) ==
    /\ \A b \in U : mm[b].word \in DOMAIN al /\ al[mm[b].word].size = mm[b].size
    /\ \A a \in DOMAIN al : al[a].inUse = Cardinality(Owned(a, mm, U))

\* A block holds what the program may read from it.
Fits(use, block) ==
    /\ use.size + Pointer <= block.size
    /\ use.data \in {Null, block.data}

CallOK(k, mm) ==
    /\ k \in Calls
    /\ k.at = "copy" => /\ k.old # k.new
                        /\ k.use.data \in {Null, mm[k.old].data}
                        /\ k.size + Pointer <= mm[k.new].size
    /\ k.at = "free" => /\ k.owner = mm[k.old].word
                        /\ k.old \notin DOMAIN k.result
                        /\ \A b \in DOMAIN k.result : Fits(k.result[b], mm[b])

BusyWith(k) ==
    CASE k.at = "copy" -> {k.old, k.new}
      [] k.at = "free" -> {k.old} \cup DOMAIN k.result
      [] OTHER         -> {}

InHand(cl, ca) == DOMAIN cl \cup UNION {BusyWith(ca[t]) : t \in Threads}

\* Programs and calls hold different blocks, and each holds what it should.
Hands(mm, cl, ca) ==
    /\ \A b \in DOMAIN cl : cl[b] \in UseRecord /\ Fits(cl[b], mm[b])
    /\ DOMAIN ca = Threads
    /\ \A t \in Threads : CallOK(ca[t], mm) /\ BusyWith(ca[t]) \cap DOMAIN cl = {}
    /\ \A t, u \in Threads : t # u => BusyWith(ca[t]) \cap BusyWith(ca[u]) = {}

Tables(tb, al, ex) ==
    /\ tb \in Seq(Allocators) /\ Len(tb) <= MaxAllocators
    /\ \A i \in 1 .. Len(tb) : tb[i] \in DOMAIN al
    /\ \A i, j \in 1 .. Len(tb) : al[tb[i]].size = al[tb[j]].size => i = j
    /\ Len(tb) < MaxAllocators /\ ~ex => \A a \in DOMAIN al : \E i \in 1 .. Len(tb) : tb[i] = a

Core(st, tb, al, mm, cl, ca, ex) ==
    /\ Heap(st, al, mm, InHand(cl, ca))
    /\ ex \in BOOLEAN
    /\ ~ex => Out(al, mm, InHand(cl, ca))
    /\ Hands(mm, cl, ca)
    /\ Tables(tb, al, ex)
    /\ ex => \A t \in Threads : ca[t] = Idle

IInv == \E st : Core(st, table, allocator, mem, clients, call, exited)

-----------------------------------------------------------------------------
(* Following the links of a free list.                                     *)

\* A set of naturals that has a member has a least one.
LEMMA LeastNat ==
    ASSUME NEW S, S \subseteq Nat, S # {}
    PROVE  \E x \in S : \A y \in S : x <= y
<1>1. PICK x \in S : \A y \in S : ~(<<y, x>> \in OpToRel(<, Nat))
  BY NatLessThanWellFounded, WFMin, Zenon
<1>2. \A y \in S : ~(y < x)
  BY <1>1, Zenon DEF OpToRel
<1> QED BY <1>2

\* A list without repetitions in a finite set is no longer than the set.
LEMMA StackIsShort ==
    ASSUME NEW n \in Nat, NEW B, IsFiniteSet(B), NEW s \in [1 .. n -> B],
           \A i, j \in 1 .. n : s[i] = s[j] => i = j
    PROVE  /\ n <= Cardinality(B)
           /\ Cardinality(B) \in Nat
           /\ IsFiniteSet(Range(s)) /\ Cardinality(Range(s)) = n
<1>1. IsFiniteSet(1 .. n) /\ Cardinality(1 .. n) = n
  BY FS_Interval
<1>2. Range(s) \subseteq B /\ s \in [1 .. n -> Range(s)]
  BY Zenon DEF Range
<1>3. s \in Bijection(1 .. n, Range(s))
  BY <1>2, Zenon DEF Bijection, Injection, Surjection, IsInjective, Range
<1>4. IsFiniteSet(Range(s)) /\ Cardinality(Range(s)) <= Cardinality(B) /\ Cardinality(B) \in Nat
  BY <1>2, FS_Subset, FS_CardinalityType, Zenon
<1>5. Cardinality(Range(s)) = n
  BY <1>3, FS_CountingElements, Zenon DEF ExistsBijection
<1> QED BY <1>4, <1>5, Zenon

\* f follows the links from the head of r.
Chain(f, r, mm) ==
    f = [n \in 0 .. Cardinality(DOMAIN mm) |->
            IF n = 0 THEN r.head
            ELSE IF f[n - 1] \in DOMAIN mm THEN mm[f[n - 1]].word
            ELSE Null]

\* The chain of a stack: its blocks from the head, then null.
Descend(s, n, N) == [k \in 0 .. N |-> IF k < n THEN s[n - k] ELSE Null]

LEMMA ChainExists ==
    ASSUME NEW r, NEW mm, NEW s, Stack(s, r, mm), Null \notin DOMAIN mm,
           NEW N \in Nat, N = Cardinality(DOMAIN mm)
    PROVE  Chain(Descend(s, Depth(r), N), r, mm)
<1> DEFINE n == Depth(r)
           f == Descend(s, n, N)
<1>1. /\ n \in Nat /\ s \in [1 .. n -> DOMAIN mm]
      /\ r.head = (IF n = 0 THEN Null ELSE s[n])
      /\ \A i \in 1 .. n : mm[s[i]].word = (IF i = 1 THEN Null ELSE s[i - 1])
  BY Zenon DEF Stack
<1> SUFFICES ASSUME NEW k \in 0 .. N
             PROVE  f[k] = (IF k = 0 THEN r.head
                            ELSE IF f[k - 1] \in DOMAIN mm THEN mm[f[k - 1]].word ELSE Null)
  BY Zenon DEF Chain, Descend
<1> HIDE DEF n
<1>2. CASE k = 0
  BY <1>1, <1>2 DEF Descend
<1>3. CASE k # 0 /\ k - 1 < n
  <2>1. k - 1 \in 0 .. N /\ f[k - 1] = s[n - (k - 1)] /\ n - (k - 1) \in 1 .. n
    BY <1>1, <1>3, SMTT(60) DEF Descend
  <2>2. f[k - 1] \in DOMAIN mm
    BY <2>1, <1>1, Zenon
  <2>3. mm[f[k - 1]].word = (IF n - (k - 1) = 1 THEN Null ELSE s[n - (k - 1) - 1])
    BY <2>1, <1>1, Zenon
  <2>4. n - (k - 1) - 1 = n - k
    BY <1>1
  <2>5. f[k] = (IF n - (k - 1) = 1 THEN Null ELSE s[n - k])
    BY <1>1, <1>3 DEF Descend
  <2> QED BY <1>3, <2>2, <2>3, <2>4, <2>5, Zenon
<1>4. CASE k # 0 /\ ~(k - 1 < n)
  BY <1>1, <1>4, SMTT(60) DEF Descend
<1> QED BY <1>2, <1>3, <1>4, Zenon

LEMMA ChainUnique ==
    ASSUME NEW r, NEW mm, NEW f, NEW g, Chain(f, r, mm), Chain(g, r, mm),
           Cardinality(DOMAIN mm) \in Nat
    PROVE  f = g
<1> DEFINE N == Cardinality(DOMAIN mm)
           D == {k \in 0 .. N : f[k] # g[k]}
<1>1. /\ DOMAIN f = 0 .. N /\ DOMAIN g = 0 .. N /\ f = [k \in 0 .. N |-> f[k]]
      /\ g = [k \in 0 .. N |-> g[k]]
  BY Zenon DEF Chain
<1>2. SUFFICES D = {}
  BY <1>1, Zenon
<1>3. SUFFICES ASSUME D # {} PROVE FALSE
  BY Zenon
<1>4. PICK k \in D : \A j \in D : k <= j
  <2>1. D \subseteq Nat
    OBVIOUS
  <2> HIDE DEF D
  <2> QED BY <1>3, <2>1, LeastNat, Zenon
<1>5. k # 0
  BY <1>4, Zenon DEF Chain
<1>6. k - 1 \in 0 .. N /\ k - 1 \notin D
  BY <1>4, <1>5
<1>7. f[k - 1] = g[k - 1]
  BY <1>6, Zenon
<1> QED BY <1>4, <1>5, <1>7 DEF Chain

\* FreeList follows the links of a stack to its end, and FreeBlocks collects
\* its blocks.
LEMMA FreeListOfStack ==
    ASSUME NEW r, NEW s, Stack(s, r, mem), IsFiniteSet(DOMAIN mem), Null \notin DOMAIN mem,
           \A i, j \in 1 .. Depth(r) : s[i] = s[j] => i = j
    PROVE  /\ FreeBlocks(r) = Range(s)
           /\ FreeList(r)[Cardinality(DOMAIN mem)] = Null
           /\ Cardinality(FreeBlocks(r)) = Depth(r)
<1> DEFINE n == Depth(r)
           N == Cardinality(DOMAIN mem)
           f == Descend(s, n, N)
<1>1. n \in Nat /\ s \in [1 .. n -> DOMAIN mem]
  BY Zenon DEF Stack
<1>2. n <= N /\ N \in Nat /\ Cardinality(Range(s)) = n
  BY <1>1, StackIsShort, Zenon
<1>3. Chain(f, r, mem)
  BY <1>2, ChainExists, Zenon
<1>4. Chain(FreeList(r), r, mem)
  BY <1>3, Zenon DEF FreeList, Chain
<1>5. FreeList(r) = f
  BY <1>2, <1>3, <1>4, ChainUnique, Zenon
<1>6. f[N] = Null
  <2> HIDE DEF n, N
  <2> QED BY <1>1, <1>2 DEF Descend
<1>7. Range(f) \ {Null} = Range(s)
  <2>1. DOMAIN f = 0 .. N /\ DOMAIN s = 1 .. n
    BY <1>1, Zenon DEF Descend
  <2>2. ASSUME NEW i \in 1 .. n PROVE s[i] \in Range(f) \ {Null}
    <3> HIDE DEF n, N
    <3>1. n - i \in 0 .. N /\ n - i < n /\ n - (n - i) = i
      BY <1>1, <1>2
    <3>2. f[n - i] = s[i]
      BY <3>1, Zenon DEF Descend
    <3>3. s[i] # Null
      BY <1>1, Zenon
    <3> QED BY <2>1, <3>1, <3>2, <3>3, Zenon DEF Range
  <2>3. ASSUME NEW k \in 0 .. N, f[k] # Null PROVE f[k] \in Range(s)
    <3> HIDE DEF n, N
    <3>1. k < n /\ f[k] = s[n - k]
      BY <2>3, Zenon DEF Descend
    <3>2. n - k \in 1 .. n
      BY <1>1, <1>2, <3>1
    <3> QED BY <2>1, <3>1, <3>2, Zenon DEF Range
  <2> HIDE DEF f
  <2> QED BY <2>1, <2>2, <2>3 DEF Range
<1> QED BY <1>2, <1>5, <1>6, <1>7, Zenon DEF FreeBlocks

-----------------------------------------------------------------------------
(* Taking a block out and giving it back, on the heap.                     *)

\* V has one block more than U, b, which belongs to a.
OneMore(U, mm, V, mm2, b, a) ==
    /\ b \notin U /\ V = U \cup {b}
    /\ mm2[b].word = a
    /\ \A x \in U : mm2[x].word = mm[x].word

LEMMA OwnedGrows ==
    ASSUME NEW U, IsFiniteSet(U), NEW mm, NEW V, NEW mm2, NEW b, NEW a, OneMore(U, mm, V, mm2, b, a)
    PROVE  /\ Cardinality(Owned(a, mm, U)) \in Nat
           /\ Cardinality(Owned(a, mm2, V)) = Cardinality(Owned(a, mm, U)) + 1
           /\ \A c : c # a => Owned(c, mm2, V) = Owned(c, mm, U)
<1>1. Owned(a, mm2, V) = Owned(a, mm, U) \cup {b} /\ b \notin Owned(a, mm, U)
  BY Zenon DEF Owned, OneMore
<1>2. IsFiniteSet(Owned(a, mm, U))
  BY FS_Subset, Zenon DEF Owned
<1>3. \A c : c # a => Owned(c, mm2, V) = Owned(c, mm, U)
  BY Zenon DEF Owned, OneMore
<1> QED BY <1>1, <1>2, <1>3, FS_AddElement, FS_CardinalityType

\* The links of a stack are those of its blocks.
LEMMA StackKept ==
    ASSUME NEW s, NEW r, NEW mm, NEW mm2, Stack(s, r, mm),
           \A i \in 1 .. Depth(r) : s[i] \in DOMAIN mm2 /\ mm2[s[i]].word = mm[s[i]].word
    PROVE  Stack(s, r, mm2)
<1> DEFINE n == Depth(r)
<1>1. s \in [1 .. n -> DOMAIN mm2]
  <2> HIDE DEF n
  <2> QED BY Zenon DEF Stack, n
<1> QED BY <1>1, Zenon DEF Stack

\* The head of a free list and what is left when it is taken.
PopFrom(r, mm) == IF r.head # Null THEN [r EXCEPT !.head = mm[r.head].word] ELSE r

\* A new allocator has an empty list and no blocks.
LEMMA NewAllocatorHeap ==
    ASSUME NEW st, NEW al, NEW mm, NEW U, Heap(st, al, mm, U), Out(al, mm, U),
           NEW a \in Allocators \ DOMAIN al, NEW n \in Nat
    PROVE  LET al2 == Put(al, a, NewAllocator(n))
           IN  (\E st2 : Heap(st2, al2, mm, U)) /\ Out(al2, mm, U)
<1> DEFINE r == NewAllocator(n)
           al2 == Put(al, a, r)
           s == [i \in 1 .. 0 |-> Null]
           st2 == [c \in DOMAIN al \cup {a} |-> IF c = a THEN s ELSE st[c]]
<1>1. /\ DOMAIN al2 = DOMAIN al \cup {a} /\ al2[a] = r
      /\ \A c \in DOMAIN al : al2[c] = al[c] /\ st2[c] = st[c] /\ c # a
      /\ st2[a] = s
  BY Zenon DEF Put
<1>2. r \in AllocatorRecord /\ r.blockCnt = r.peak /\ Depth(r) = 0 /\ r.inUse = 0 /\ r.head = Null
  BY DEF NewAllocator, AllocatorRecord, Depth
<1>3. Stack(s, r, mm)
  <2>1. s \in [1 .. 0 -> DOMAIN mm] /\ 1 .. 0 = {}
    OBVIOUS
  <2> HIDE DEF r, s
  <2> QED BY <1>2, <2>1 DEF Stack
<1> HIDE DEF r, s, al2, st2
<1>4. Heap(st2, al2, mm, U)
  <2>1. DOMAIN al2 \subseteq Allocators
    BY <1>1, Zenon DEF Heap
  <2>2. \A c \in DOMAIN al2 : /\ al2[c] \in AllocatorRecord
                              /\ al2[c].blockCnt = al2[c].peak
                              /\ Stack(st2[c], al2[c], mm)
    BY <1>1, <1>2, <1>3, ZenonT(60) DEF Heap
  <2>3. \A c \in DOMAIN al2 : \A i \in 1 .. Depth(al2[c]) : c \in DOMAIN al
    BY <1>1, <1>2
  <2>4. \A c \in DOMAIN al2 : \A i \in 1 .. Depth(al2[c]) : st2[c][i] \notin U
    BY <1>1, <2>3, Zenon DEF Heap
  <2>5. \A c, d \in DOMAIN al2 : \A i \in 1 .. Depth(al2[c]), j \in 1 .. Depth(al2[d]) :
            st2[c][i] = st2[d][j] => c = d /\ i = j
    BY <1>1, <2>3 DEF Heap
  <2>6. \A b \in DOMAIN mm \ U : \E c \in DOMAIN al2 : \E i \in 1 .. Depth(al2[c]) : st2[c][i] = b
    BY <1>1 DEF Heap
  <2> QED BY <2>1, <2>2, <2>4, <2>5, <2>6, Zenon DEF Heap
<1>5. Out(al2, mm, U)
  <2>1. Owned(a, mm, U) = {}
    BY Zenon DEF Owned, Out
  <2>2. al2[a].inUse = Cardinality(Owned(a, mm, U))
    BY <1>1, <1>2, <2>1, FS_EmptySet, Zenon
  <2> QED BY <1>1, <2>2, Zenon DEF Out
<1> QED BY <1>4, <1>5, Zenon DEF al2, r

\* What Allocate does to the heap.
Taken(al, mm, a, r, b, al2, mm2) ==
    /\ IF r.head # Null THEN b = r.head ELSE b \in Blocks \ DOMAIN mm
    /\ al2 = Put(al, a, Counted(PopFrom(r, mm), r.head = Null))
    /\ mm2 = Put(mm, b, [size |-> r.size, word |-> a,
                         data |-> IF b \in DOMAIN mm THEN mm[b].data ELSE Null])

\* The counters and the list of the allocator: either its top block leaves the
\* stack, or the stack is empty and the block is new.
LEMMA TakenRecord ==
    ASSUME NEW st, NEW al, NEW mm, NEW U, Heap(st, al, mm, U), NEW a \in DOMAIN al, NEW b,
           NEW al2, NEW mm2, Taken(al, mm, a, al[a], b, al2, mm2)
    PROVE  /\ DOMAIN al2 = DOMAIN al /\ \A c \in DOMAIN al \ {a} : al2[c] = al[c]
           /\ al2[a] \in AllocatorRecord /\ al2[a].size = al[a].size
           /\ al2[a].inUse = al[a].inUse + 1 /\ al2[a].blockCnt = al2[a].peak
           /\ b \in Blocks \ U
           /\ Depth(al2[a]) \in Nat /\ Depth(al2[a]) <= Depth(al[a])
           /\ al2[a].head = (IF Depth(al2[a]) = 0 THEN Null ELSE st[a][Depth(al2[a])])
           /\ \/ /\ b \notin DOMAIN mm /\ Depth(al2[a]) = Depth(al[a])
              \/ /\ b \in DOMAIN mm /\ Depth(al[a]) = Depth(al2[a]) + 1
                 /\ st[a][Depth(al[a])] = b
<1> DEFINE r == al[a]
           r2 == al2[a]
           n == Depth(r)
           s == st[a]
<1>1. /\ r \in AllocatorRecord /\ r.blockCnt = r.peak
      /\ n \in Nat /\ s \in [1 .. n -> DOMAIN mm]
      /\ r.head = (IF n = 0 THEN Null ELSE s[n])
      /\ \A i \in 1 .. n : mm[s[i]].word = (IF i = 1 THEN Null ELSE s[i - 1])
      /\ \A i \in 1 .. n : s[i] \notin U
      /\ DOMAIN mm \subseteq Blocks /\ U \subseteq DOMAIN mm
  BY Zenon DEF Heap, Stack
<1>2. /\ DOMAIN al2 = DOMAIN al /\ \A c \in DOMAIN al \ {a} : al2[c] = al[c]
      /\ r2 = Counted(PopFrom(r, mm), r.head = Null)
  BY Zenon DEF Taken, Put
<1>3. IF r.head # Null THEN b = r.head ELSE b \in Blocks \ DOMAIN mm
  BY Zenon DEF Taken
<1>4. /\ r.blockCnt \in Nat /\ r.inUse \in Nat /\ r.peak \in Nat /\ n = r.blockCnt - r.inUse
      /\ r.size \in Nat
  BY <1>1, Zenon DEF AllocatorRecord, Depth
<1> HIDE DEF r, n, s
<1>5. CASE n = 0
  <2>1. r.head = Null /\ b \in Blocks \ DOMAIN mm
    BY <1>1, <1>3, <1>5, Zenon
  <2>2. r2 = [r EXCEPT !.blockCnt = @ + 1, !.inUse = @ + 1, !.peak = Max2(@, r.inUse + 1)]
    BY <1>2, <2>1, Zenon DEF Counted, PopFrom
  <2>3. r.peak = r.inUse /\ Max2(r.peak, r.inUse + 1) = r.inUse + 1
    BY <1>1, <1>4, <1>5 DEF Max2
  <2> DEFINE i == r.inUse
             q == r.blockCnt
  <2>4. r2 = [size |-> r.size, head |-> Null, blockCnt |-> q + 1, inUse |-> i + 1, peak |-> i + 1]
    BY <1>1, <2>1, <2>2, <2>3, Zenon DEF AllocatorRecord
  <2>5. i + 1 \in Nat /\ q + 1 \in Nat
    BY <1>4
  <2>6. /\ r2 \in AllocatorRecord /\ r2.size = r.size /\ r2.head = Null
        /\ r2.inUse = r.inUse + 1 /\ r2.blockCnt = r.blockCnt + 1 /\ r2.peak = r.inUse + 1
    BY <1>4, <2>4, <2>5, SMTT(60) DEF AllocatorRecord
  <2>7. Depth(r2) = 0 /\ r2.blockCnt = r2.peak
    BY <1>4, <1>5, <2>6 DEF Depth
  <2> QED BY <1>1, <1>2, <1>5, <2>1, <2>6, <2>7, SMTT(60) DEF r, n
<1>6. CASE n # 0
  <2>1. n \in 1 .. n /\ s[n] \in DOMAIN mm /\ s[n] # Null /\ r.head = s[n] /\ b = s[n]
    BY <1>1, <1>3, <1>6, NullAssumption, SMTT(60)
  <2>2. /\ mm[r.head].word = (IF n = 1 THEN Null ELSE s[n - 1])
        /\ mm[r.head].word \in Blocks \cup {Null}
    <3>1. n # 1 => n - 1 \in 1 .. n
      BY <1>1, <1>6
    <3> QED BY <1>1, <2>1, <3>1, SMTT(60)
  <2>3. r2 = [r EXCEPT !.head = mm[r.head].word, !.blockCnt = @ + 0, !.inUse = @ + 1,
                       !.peak = Max2(@, r.inUse + 1)]
    BY <1>1, <1>2, <2>1, Zenon DEF Counted, PopFrom, AllocatorRecord
  <2>4. Max2(r.peak, r.inUse + 1) = r.peak
    BY <1>1, <1>4, <1>6 DEF Max2
  <2> DEFINE w == mm[r.head].word
             i == r.inUse
  <2>5. r2 = [size |-> r.size, head |-> w, blockCnt |-> r.blockCnt, inUse |-> i + 1, peak |-> r.peak]
    <3>1. r.blockCnt + 0 = r.blockCnt
      BY <1>4
    <3> HIDE DEF w
    <3>2. r2 = [r EXCEPT !.head = w, !.blockCnt = r.blockCnt, !.inUse = i + 1, !.peak = r.peak]
      BY <2>3, <2>4, <3>1, <1>1, Zenon DEF w, AllocatorRecord
    <3> QED BY <1>1, <3>2, Zenon DEF AllocatorRecord
  <2>6. i + 1 \in Nat
    BY <1>4, SMTT(60)
  <2>7. /\ r2 \in AllocatorRecord /\ r2.size = r.size /\ r2.head = mm[r.head].word
        /\ r2.inUse = r.inUse + 1 /\ r2.blockCnt = r.blockCnt /\ r2.peak = r.peak
    BY <1>4, <2>2, <2>5, <2>6, SMTT(60) DEF AllocatorRecord
  <2>8. Depth(r2) = n - 1
    BY <1>4, <2>7 DEF Depth
  <2>9. n - 1 \in Nat /\ (n - 1 = 0 <=> n = 1) /\ n - 1 <= n /\ n = (n - 1) + 1
    BY <1>1, <1>6
  <2> QED BY <1>1, <1>2, <2>1, <2>2, <2>7, <2>8, <2>9, ZenonT(60) DEF r, n, s
<1> QED BY <1>5, <1>6, Zenon

\* The heap when b, of n bytes, has joined the blocks that are out.
OutWith(b, n, U, al, mm, al2, mm2) ==
    /\ \E st2 : Heap(st2, al2, mm2, U \cup {b})
    /\ Out(al2, mm2, U \cup {b})
    /\ b \notin U /\ mm2[b].size = n
    /\ \A x \in U : mm2[x] = mm[x]
    /\ DOMAIN al2 = DOMAIN al /\ \A c \in DOMAIN al : al2[c].size = al[c].size

LEMMA TakenHeap ==
    ASSUME NEW st, NEW al, NEW mm, NEW U, Heap(st, al, mm, U), Out(al, mm, U),
           NEW a \in DOMAIN al, NEW b, NEW al2, NEW mm2, Taken(al, mm, a, al[a], b, al2, mm2)
    PROVE  OutWith(b, al[a].size, U, al, mm, al2, mm2)
<1> DEFINE n == Depth(al[a])
           m == Depth(al2[a])
           s2 == [i \in 1 .. m |-> st[a][i]]
           st2 == [c \in DOMAIN al |-> IF c = a THEN s2 ELSE st[c]]
           V == U \cup {b}
<1>1. /\ DOMAIN al2 = DOMAIN al /\ \A c \in DOMAIN al \ {a} : al2[c] = al[c]
      /\ al2[a] \in AllocatorRecord /\ al2[a].size = al[a].size
      /\ al2[a].inUse = al[a].inUse + 1 /\ al2[a].blockCnt = al2[a].peak
      /\ b \in Blocks \ U
      /\ m \in Nat /\ m <= n
      /\ al2[a].head = (IF m = 0 THEN Null ELSE st[a][m])
      /\ \/ b \notin DOMAIN mm /\ m = n
         \/ b \in DOMAIN mm /\ n = m + 1 /\ st[a][n] = b
  BY TakenRecord
<1>2. /\ DOMAIN mm2 = DOMAIN mm \cup {b}
      /\ \A x \in DOMAIN mm \ {b} : mm2[x] = mm[x]
      /\ mm2[b].size = al[a].size /\ mm2[b].word = a
      /\ mm2[b].data = (IF b \in DOMAIN mm THEN mm[b].data ELSE Null)
      /\ mm2[b] = [size |-> al[a].size, word |-> a,
                   data |-> IF b \in DOMAIN mm THEN mm[b].data ELSE Null]
  BY Zenon DEF Taken, Put
<1>3. mm2[b] \in BlockRecord
  <2>1. al[a].size \in Nat /\ a \in Allocators
    BY Zenon DEF Heap, AllocatorRecord
  <2>2. b \in DOMAIN mm => mm[b].data \in Contents \cup {Null}
    BY Zenon DEF Heap, BlockRecord
  <2> QED BY <1>2, <2>1, <2>2, Zenon DEF BlockRecord
<1>4. /\ n \in Nat /\ st[a] \in [1 .. n -> DOMAIN mm]
      /\ \A i \in 1 .. n : mm[st[a][i]].word = (IF i = 1 THEN Null ELSE st[a][i - 1])
  BY Zenon DEF Heap, Stack
<1>5. \A i \in 1 .. m : i \in 1 .. n /\ i # m + 1
  <2> HIDE DEF m, n
  <2> QED BY <1>1, <1>4
<1>6. \A c \in DOMAIN al : \A i \in 1 .. Depth(al2[c]) :
         /\ i \in 1 .. Depth(al[c]) /\ st2[c][i] = st[c][i]
         /\ st[c][i] # b /\ st[c][i] \in DOMAIN mm
  <2> SUFFICES ASSUME NEW c \in DOMAIN al, NEW i \in 1 .. Depth(al2[c])
               PROVE  /\ i \in 1 .. Depth(al[c]) /\ st2[c][i] = st[c][i]
                      /\ st[c][i] # b /\ st[c][i] \in DOMAIN mm
    BY Zenon
  <2>1. i \in 1 .. Depth(al[c]) /\ st2[c][i] = st[c][i]
    BY <1>1, <1>5, ZenonT(60)
  <2>2. st[c][i] \in DOMAIN mm
    BY <2>1 DEF Heap, Stack
  <2>3. ASSUME b \in DOMAIN mm, n = m + 1, st[a][n] = b, st[c][i] = b PROVE FALSE
    <3>1. n \in 1 .. n
      <4> HIDE DEF n, m
      <4> QED BY <2>3, <1>1, SMTT(60)
    <3>2. c = a /\ i = n
      BY <2>1, <2>3, <3>1, SMTT(60) DEF Heap
    <3> QED BY <3>2, <1>5, <2>3, Zenon
  <2> QED BY <1>1, <2>1, <2>2, <2>3, Zenon
<1>7. Stack(st2[a], al2[a], mm2)
  <2>1. st2[a] = s2
    BY Zenon
  <2>2. s2 \in [1 .. m -> DOMAIN mm2]
    BY <1>2, <1>6, <2>1, Zenon
  <2>3. al2[a].head = (IF m = 0 THEN Null ELSE s2[m])
    <3>1. m # 0 => m \in 1 .. m
      <4> HIDE DEF m
      <4> QED BY <1>1
    <3> QED BY <1>1, <3>1, Zenon
  <2>4. ASSUME NEW i \in 1 .. m
        PROVE  mm2[s2[i]].word = (IF i = 1 THEN Null ELSE s2[i - 1])
    <3>1. s2[i] = st[a][i] /\ st[a][i] # b /\ st[a][i] \in DOMAIN mm /\ i \in 1 .. n
      BY <1>6, <2>1, ZenonT(60)
    <3>2. mm2[s2[i]].word = (IF i = 1 THEN Null ELSE st[a][i - 1])
      BY <3>1, <1>2, <1>4, SMTT(60)
    <3>3. i # 1 => i - 1 \in 1 .. m
      <4> HIDE DEF m
      <4> QED BY <1>1
    <3> QED BY <3>2, <3>3, Zenon
  <2> HIDE DEF s2
  <2> QED BY <1>1, <2>1, <2>2, <2>3, <2>4, Zenon DEF Stack
<1>8. ASSUME NEW c \in DOMAIN al, c # a PROVE Stack(st2[c], al2[c], mm2)
  <2>1. st2[c] = st[c] /\ al2[c] = al[c] /\ Stack(st[c], al[c], mm)
    BY <1>1, <1>8, ZenonT(60) DEF Heap
  <2>2. \A i \in 1 .. Depth(al[c]) : st[c][i] \in DOMAIN mm2 /\ mm2[st[c][i]].word = mm[st[c][i]].word
    BY <1>2, <1>6, <2>1, ZenonT(60)
  <2> QED BY <2>1, <2>2, StackKept, Zenon
<1>9. Heap(st2, al2, mm2, V)
  <2>1. DOMAIN al2 \subseteq Allocators /\ DOMAIN mm2 \subseteq Blocks /\ V \subseteq DOMAIN mm2
    BY <1>1, <1>2, Zenon DEF Heap
  <2>2. IsFiniteSet(DOMAIN mm2)
    BY <1>2, FS_AddElement DEF Heap
  <2>3. \A c \in DOMAIN al2 : /\ al2[c] \in AllocatorRecord
                              /\ al2[c].blockCnt = al2[c].peak
                              /\ Stack(st2[c], al2[c], mm2)
    BY <1>1, <1>7, <1>8, Zenon DEF Heap
  <2>4. \A x \in DOMAIN mm2 : mm2[x] \in BlockRecord
    BY <1>2, <1>3, Zenon DEF Heap
  <2>5. \A c \in DOMAIN al2 : \A i \in 1 .. Depth(al2[c]) : st2[c][i] \notin V
    <3>1. \A c \in DOMAIN al : \A i \in 1 .. Depth(al[c]) : st[c][i] \notin U
      BY Zenon DEF Heap
    <3> HIDE DEF st2
    <3> QED BY <1>1, <1>6, <3>1
  <2>6. \A c, d \in DOMAIN al2 : \A i \in 1 .. Depth(al2[c]), j \in 1 .. Depth(al2[d]) :
          st2[c][i] = st2[d][j] => c = d /\ i = j
    <3> SUFFICES ASSUME NEW c \in DOMAIN al, NEW d \in DOMAIN al,
                        NEW i \in 1 .. Depth(al2[c]), NEW j \in 1 .. Depth(al2[d]),
                        st2[c][i] = st2[d][j]
                 PROVE  c = d /\ i = j
      BY <1>1, Zenon
    <3>1. /\ i \in 1 .. Depth(al[c]) /\ st2[c][i] = st[c][i]
          /\ j \in 1 .. Depth(al[d]) /\ st2[d][j] = st[d][j]
      BY <1>6, Zenon
    <3>2. st[c][i] = st[d][j]
      BY <3>1, Zenon
    <3>3. \A k \in 1 .. Depth(al[c]), l \in 1 .. Depth(al[d]) :
             st[c][k] = st[d][l] => c = d /\ k = l
      BY ZenonT(60) DEF Heap
    <3> HIDE DEF st2, s2, m, n, V
    <3>4. i \in 1 .. Depth(al[c]) /\ j \in 1 .. Depth(al[d])
      BY <3>1, ZenonT(60)
    <3> QED BY <3>2, <3>3, <3>4, ZenonT(60)
  <2>7. ASSUME NEW x \in DOMAIN mm2 \ V
        PROVE  \E c \in DOMAIN al2 : \E i \in 1 .. Depth(al2[c]) : st2[c][i] = x
    <3>1. x \in DOMAIN mm \ U /\ x # b
      BY <1>2, Zenon
    <3>0. PICK c \in DOMAIN al : \E i \in 1 .. Depth(al[c]) : st[c][i] = x
      BY <3>1, Zenon DEF Heap
    <3>2. PICK i \in 1 .. Depth(al[c]) : st[c][i] = x
      BY <3>0, Zenon
    <3>3. CASE c # a
      BY <1>1, <3>2, <3>3, Zenon
    <3>4. CASE c = a
      <4>1. i \in 1 .. m
        <5> HIDE DEF m, n
        <5> QED BY <1>1, <1>4, <3>1, <3>2, <3>4, SMTT(60) DEF n
      <4> QED BY <1>1, <3>2, <3>4, <4>1, ZenonT(60)
    <3> QED BY <3>3, <3>4, Zenon
  <2> HIDE DEF st2, V
  <2> QED BY <2>1, <2>2, <2>3, <2>4, <2>5, <2>6, <2>7, ZenonT(60) DEF Heap
<1>10. Out(al2, mm2, V)
  <2>1. \A x \in U : mm2[x] = mm[x]
    BY <1>1, <1>2, ZenonT(60) DEF Heap
  <2>2. IsFiniteSet(U)
    BY FS_Subset, Zenon DEF Heap
  <2>3. /\ Cardinality(Owned(a, mm2, V)) = Cardinality(Owned(a, mm, U)) + 1
        /\ \A c : c # a => Owned(c, mm2, V) = Owned(c, mm, U)
    <3>1. OneMore(U, mm, V, mm2, b, a)
      BY <1>1, <1>2, <2>1, ZenonT(60) DEF OneMore
    <3> HIDE DEF V, m, n, st2
    <3> QED BY <3>1, <2>2, OwnedGrows, SMTT(60)
  <2>4. \A x \in V : mm2[x].word \in DOMAIN al2 /\ al2[mm2[x].word].size = mm2[x].size
    <3>1. \A x \in U : mm[x].word \in DOMAIN al /\ al[mm[x].word].size = mm[x].size
      BY ZenonT(60) DEF Out
    <3>2. \A c \in DOMAIN al : c \in DOMAIN al2 /\ al2[c].size = al[c].size
      BY <1>1, ZenonT(60)
    <3>3. mm2[b].word \in DOMAIN al2 /\ al2[mm2[b].word].size = mm2[b].size
      BY <1>2, <3>2, ZenonT(60)
    <3>4. \A x \in U : mm2[x].word \in DOMAIN al2 /\ al2[mm2[x].word].size = mm2[x].size
      <4> TAKE x \in U
      <4> DEFINE w == mm[x].word
      <4>1. mm2[x] = mm[x] /\ w \in DOMAIN al /\ al[w].size = mm[x].size
        BY <2>1, <3>1, ZenonT(60)
      <4>2. w \in DOMAIN al2 /\ al2[w].size = mm2[x].size /\ mm2[x].word = w
        BY <3>2, <4>1, ZenonT(60)
      <4> HIDE DEF w
      <4> QED BY <4>2, ZenonT(60)
    <3> QED BY <3>3, <3>4, ZenonT(60)
  <2>5. \A c \in DOMAIN al2 : al2[c].inUse = Cardinality(Owned(c, mm2, V))
    BY <1>1, <2>3, ZenonT(60) DEF Out
  <2> QED BY <2>4, <2>5, Zenon DEF Out
<1>11. \A x \in U : mm2[x] = mm[x]
  BY <1>1, <1>2, Zenon DEF Heap
<1> HIDE DEF st2
<1> QED BY <1>1, <1>2, <1>9, <1>10, <1>11, ZenonT(60) DEF OutWith

-----------------------------------------------------------------------------
(* xmalloc.                                                                *)

LEMMA AllocateTakes ==
    ASSUME NEW a, NEW r, NEW b, Allocate(a, r, b)
    PROVE  Taken(allocator, mem, a, r, b, allocator', mem')
BY Zenon DEF Allocate, Taken, Pop, PopFrom

\* Taking a block from an allocator that was just put into place.
LEMMA TakenFromNew ==
    ASSUME NEW al, NEW mm, NEW a, a \notin DOMAIN al, NEW r, NEW b, NEW al2, NEW mm2,
           Taken(al, mm, a, r, b, al2, mm2)
    PROVE  LET al1 == Put(al, a, r)
           IN  /\ a \in DOMAIN al1 /\ al1[a] = r /\ DOMAIN al1 = DOMAIN al \cup {a}
               /\ \A c \in DOMAIN al : al1[c] = al[c]
               /\ Taken(al1, mm, a, al1[a], b, al2, mm2)
<1> DEFINE al1 == Put(al, a, r)
           x == Counted(PopFrom(r, mm), r.head = Null)
<1>1. a \in DOMAIN al1 /\ al1[a] = r /\ DOMAIN al1 = DOMAIN al \cup {a}
  BY Zenon DEF Put
<1>2. \A c \in DOMAIN al : al1[c] = al[c]
  BY Zenon DEF Put
<1>3. Put(al1, a, x) = Put(al, a, x)
  <2> HIDE DEF x
  <2>1. DOMAIN al1 \cup {a} = DOMAIN al \cup {a}
    BY <1>1, Zenon
  <2>2. \A c \in DOMAIN al \cup {a} : c # a => al1[c] = al[c]
    BY <1>2, Zenon
  <2> HIDE DEF al1
  <2> QED BY <2>1, <2>2, Zenon DEF Put
<1>4. Taken(al1, mm, a, r, b, al2, mm2)
  BY <1>3, Zenon DEF Taken
<1> QED BY <1>1, <1>2, <1>4, Zenon

\* One allocator per size: find_allocator found none of this size.
\* al2 has one more allocator, of another size than those of the table.
NewSize(tb, al, a, al2) ==
    /\ a \in Allocators \ DOMAIN al
    /\ DOMAIN al2 = DOMAIN al \cup {a}
    /\ \A c \in DOMAIN al : al2[c].size = al[c].size
    /\ \A i \in 1 .. Len(tb) : al[tb[i]].size # al2[a].size

LEMMA TableGrows ==
    ASSUME NEW al, NEW tb, Tables(tb, al, FALSE), NEW a, NEW al2, NewSize(tb, al, a, al2)
    PROVE  Tables(IF Len(tb) < MaxAllocators THEN Append(tb, a) ELSE tb, al2, FALSE)
<1> DEFINE n == al2[a].size
<1>0. /\ a \in Allocators \ DOMAIN al
      /\ DOMAIN al2 = DOMAIN al \cup {a}
      /\ \A c \in DOMAIN al : al2[c].size = al[c].size
      /\ \A i \in 1 .. Len(tb) : al[tb[i]].size # n
  BY Zenon DEF NewSize
<1> HIDE DEF n
<1>1. tb \in Seq(Allocators) /\ Len(tb) \in Nat /\ MaxAllocators \in Nat
  BY SizesAssumption DEF Tables
<1>2. CASE Len(tb) < MaxAllocators
  <2> DEFINE N == Len(tb)
             tb2 == Append(tb, a)
  <2>1. /\ tb2 \in Seq(Allocators) /\ Len(tb2) = N + 1 /\ tb2[N + 1] = a
        /\ \A i \in 1 .. N : tb2[i] = tb[i]
    BY <1>0, <1>1
  <2>2. \A i \in 1 .. N + 1 : i \in 1 .. N \/ i = N + 1
    BY <1>1
  <2>3. \A i \in 1 .. N : tb[i] \in DOMAIN al
    BY Zenon DEF Tables
  <2>4. \A c \in DOMAIN al : \E i \in 1 .. N : tb[i] = c
    BY <1>2, Zenon DEF Tables
  <2>5. N + 1 \in 1 .. N + 1 /\ N + 1 <= MaxAllocators /\ 1 .. N \subseteq 1 .. N + 1
    BY <1>1, <1>2
  <2> HIDE DEF N, tb2
  <2>6. \A i \in 1 .. Len(tb2) : tb2[i] \in DOMAIN al2
    BY <1>0, <2>1, <2>2, <2>3, Zenon
  <2>7. \A i, j \in 1 .. N + 1 : al2[tb2[i]].size = al2[tb2[j]].size => i = j
    <3>1. \A i \in 1 .. N : al2[tb2[i]].size = al[tb[i]].size /\ al[tb[i]].size # n
      BY <1>0, <2>1, <2>3, Zenon DEF N
    <3>2. al2[tb2[N + 1]].size = n
      BY <2>1, Zenon DEF n
    <3>3. \A i, j \in 1 .. N : al[tb[i]].size = al[tb[j]].size => i = j
      BY Zenon DEF Tables, N
    <3> QED BY <2>2, <3>1, <3>2, <3>3, Zenon
  <2>8. \A c \in DOMAIN al2 : \E i \in 1 .. N + 1 : tb2[i] = c
    BY <1>0, <2>1, <2>4, <2>5, Zenon
  <2>9. Tables(tb2, al2, FALSE)
    BY <2>1, <2>5, <2>6, <2>7, <2>8, Zenon DEF Tables
  <2> QED BY <1>2, <2>9, Zenon DEF tb2
<1>3. CASE ~(Len(tb) < MaxAllocators)
  BY <1>0, <1>3, Zenon DEF Tables
<1> QED BY <1>2, <1>3, Zenon

LEMMA XmallocHeap ==
    ASSUME NEW st, NEW U, Heap(st, allocator, mem, U), Out(allocator, mem, U),
           Tables(table, allocator, FALSE), NEW size \in Sizes, NEW b, xmalloc(size, b)
    PROVE  /\ \E st2 : Heap(st2, allocator', mem', U \cup {b})
           /\ Out(allocator', mem', U \cup {b})
           /\ Tables(table', allocator', FALSE)
           /\ b \notin U /\ size + Pointer <= mem'[b].size
           /\ \A x \in U : mem'[x] = mem[x]
<1> DEFINE n == BlockSize(size)
<1>1. n \in Nat /\ size + Pointer <= n
  BY BlockSizeHolds, Zenon
<1> HIDE DEF n
<1>2. CASE \E a \in find_allocator(n) : Allocate(a, allocator[a], b) /\ UNCHANGED table
  <2>1. PICK a \in find_allocator(n) : Allocate(a, allocator[a], b) /\ table' = table
    BY <1>2, Zenon
  <2>2. a \in DOMAIN allocator /\ allocator[a].size = n
    BY DEF find_allocator, Tables
  <2>3. Taken(allocator, mem, a, allocator[a], b, allocator', mem')
    BY <2>1, AllocateTakes, Zenon
  <2>4. /\ \E st2 : Heap(st2, allocator', mem', U \cup {b})
        /\ Out(allocator', mem', U \cup {b})
        /\ b \notin U /\ mem'[b].size = n
        /\ \A x \in U : mem'[x] = mem[x]
        /\ DOMAIN allocator' = DOMAIN allocator
        /\ \A c \in DOMAIN allocator : allocator'[c].size = allocator[c].size
    <3>1. OutWith(b, allocator[a].size, U, allocator, mem, allocator', mem')
      BY <2>2, <2>3, TakenHeap, ZenonT(60)
    <3> QED BY <2>2, <3>1, Zenon DEF OutWith
  <2>5. Tables(table', allocator', FALSE)
    BY <2>1, <2>4 DEF Tables
  <2> QED BY <1>1, <2>4, <2>5, Zenon
<1>3. CASE /\ find_allocator(n) = {}
           /\ \E a \in Allocators \ DOMAIN allocator :
                 Allocate(a, NewAllocator(n), b) /\ table' = insert_allocator(a)
  <2>1. PICK a \in Allocators \ DOMAIN allocator :
                 Allocate(a, NewAllocator(n), b) /\ table' = insert_allocator(a)
    BY <1>3, Zenon
  <2> DEFINE al1 == Put(allocator, a, NewAllocator(n))
  <2>2. /\ a \in DOMAIN al1 /\ al1[a] = NewAllocator(n) /\ DOMAIN al1 = DOMAIN allocator \cup {a}
        /\ \A c \in DOMAIN allocator : al1[c] = allocator[c]
        /\ Taken(al1, mem, a, al1[a], b, allocator', mem')
    <3>1. Taken(allocator, mem, a, NewAllocator(n), b, allocator', mem')
      BY <2>1, AllocateTakes, Zenon
    <3> QED BY <3>1, TakenFromNew, Zenon
  <2>3. (\E st1 : Heap(st1, al1, mem, U)) /\ Out(al1, mem, U)
    BY <1>1, NewAllocatorHeap, Zenon
  <2>4. PICK st1 : Heap(st1, al1, mem, U)
    BY <2>3, Zenon
  <2> HIDE DEF al1
  <2>5. /\ \E st2 : Heap(st2, allocator', mem', U \cup {b})
        /\ Out(allocator', mem', U \cup {b})
        /\ b \notin U /\ mem'[b].size = al1[a].size
        /\ \A x \in U : mem'[x] = mem[x]
        /\ DOMAIN allocator' = DOMAIN al1
        /\ \A c \in DOMAIN al1 : allocator'[c].size = al1[c].size
    <3>1. OutWith(b, al1[a].size, U, al1, mem, allocator', mem')
      BY <2>2, <2>3, <2>4, TakenHeap, Zenon
    <3> QED BY <3>1, Zenon DEF OutWith
  <2>6. al1[a].size = n
    BY <2>2 DEF NewAllocator
  <2>7. \A i \in 1 .. Len(table) : allocator[table[i]].size # n
    BY <1>3, Zenon DEF find_allocator
  <2>8. Tables(IF Len(table) < MaxAllocators THEN Append(table, a) ELSE table, allocator', FALSE)
    <3>1. /\ DOMAIN allocator' = DOMAIN allocator \cup {a} /\ allocator'[a].size = n
          /\ \A c \in DOMAIN allocator : allocator'[c].size = allocator[c].size
      BY <2>2, <2>5, <2>6, Zenon
    <3>2. NewSize(table, allocator, a, allocator')
      BY <2>7, <3>1, Zenon DEF NewSize
    <3> QED BY <3>2, TableGrows, Zenon
  <2> QED BY <1>1, <2>1, <2>5, <2>6, <2>8, Zenon DEF insert_allocator
<1> QED BY <1>2, <1>3, Zenon DEF xmalloc, n

-----------------------------------------------------------------------------
(* Push.                                                                   *)

Pushed(al, mm, a, b, al2, mm2) ==
    /\ mm2 = [mm EXCEPT ![b].word = al[a].head]
    /\ al2 = [al EXCEPT ![a].head = b, ![a].inUse = @ - 1]

\* The heap when b has left the blocks that are out.
OutWithout(b, U, al, mm, al2, mm2) ==
    /\ \E st2 : Heap(st2, al2, mm2, U \ {b})
    /\ Out(al2, mm2, U \ {b})
    /\ \A x \in U \ {b} : mm2[x] = mm[x]
    /\ DOMAIN al2 = DOMAIN al /\ \A c \in DOMAIN al : al2[c].size = al[c].size

\* What the push does to the allocator and to the block.
PushedAs(al, mm, a, b, al2, mm2) ==
    /\ DOMAIN al2 = DOMAIN al /\ \A c \in DOMAIN al \ {a} : al2[c] = al[c]
    /\ al2[a] \in AllocatorRecord /\ al2[a].size = al[a].size /\ al2[a].head = b
    /\ al2[a].inUse = al[a].inUse - 1
    /\ al2[a].blockCnt = al[a].blockCnt /\ al2[a].peak = al[a].peak
    /\ Depth(al2[a]) = Depth(al[a]) + 1
    /\ DOMAIN mm2 = DOMAIN mm /\ \A x \in DOMAIN mm \ {b} : mm2[x] = mm[x]
    /\ mm2[b] \in BlockRecord /\ mm2[b].word = al[a].head
    /\ mm2[b].size = mm[b].size /\ mm2[b].data = mm[b].data

LEMMA PushedRecord ==
    ASSUME NEW al, NEW mm, NEW a \in DOMAIN al, al[a] \in AllocatorRecord,
           NEW b \in DOMAIN mm, b \in Blocks, mm[b] \in BlockRecord,
           al[a].inUse \in Nat \ {0}, NEW al2, NEW mm2, Pushed(al, mm, a, b, al2, mm2)
    PROVE  PushedAs(al, mm, a, b, al2, mm2)
<1> DEFINE r == al[a]
           r2 == al2[a]
           i == r.inUse - 1
<1>1. /\ DOMAIN al2 = DOMAIN al /\ \A c \in DOMAIN al \ {a} : al2[c] = al[c]
      /\ r2 = [r EXCEPT !.head = b, !.inUse = i]
  BY Zenon DEF Pushed, AllocatorRecord
<1>2. r2 = [size |-> r.size, head |-> b, blockCnt |-> r.blockCnt, inUse |-> i, peak |-> r.peak]
  BY <1>1, Zenon DEF AllocatorRecord
<1>3. i \in Nat /\ r.blockCnt \in Nat /\ r.inUse \in Nat /\ r.size \in Nat /\ r.peak \in Nat
  BY DEF AllocatorRecord
<1>4. /\ r2 \in AllocatorRecord /\ r2.size = r.size /\ r2.head = b /\ r2.inUse = i
      /\ r2.blockCnt = r.blockCnt /\ r2.peak = r.peak
  <2> HIDE DEF i
  <2> QED BY <1>2, <1>3, SMTT(60) DEF AllocatorRecord
<1>5. Depth(r2) = Depth(r) + 1
  BY <1>3, <1>4 DEF Depth
<1>6. /\ DOMAIN mm2 = DOMAIN mm /\ \A x \in DOMAIN mm \ {b} : mm2[x] = mm[x]
      /\ mm2[b] = [mm[b] EXCEPT !.word = r.head]
  BY Zenon DEF Pushed
<1>7. r.head \in Blocks \cup {Null}
  BY Zenon DEF AllocatorRecord
<1>8. /\ mm2[b] \in BlockRecord /\ mm2[b].word = r.head
      /\ mm2[b].size = mm[b].size /\ mm2[b].data = mm[b].data
  BY <1>6, <1>7, Zenon DEF BlockRecord
<1> QED BY <1>1, <1>4, <1>5, <1>6, <1>8, Zenon DEF PushedAs

LEMMA PushedHeap ==
    ASSUME NEW st, NEW al, NEW mm, NEW U, Heap(st, al, mm, U), Out(al, mm, U),
           NEW b \in U, NEW al2, NEW mm2, Pushed(al, mm, mm[b].word, b, al2, mm2)
    PROVE  OutWithout(b, U, al, mm, al2, mm2)
<1> DEFINE a == mm[b].word
           n == Depth(al[a])
           m == Depth(al2[a])
           s2 == [i \in 1 .. m |-> IF i = m THEN b ELSE st[a][i]]
           st2 == [c \in DOMAIN al |-> IF c = a THEN s2 ELSE st[c]]
           V == U \ {b}
<1>1. /\ a \in DOMAIN al /\ b \in DOMAIN mm /\ b \in Blocks /\ al[a] \in AllocatorRecord
      /\ mm[b] \in BlockRecord /\ IsFiniteSet(U) /\ IsFiniteSet(V)
  BY FS_Subset, Zenon DEF Heap, Out
<1> HIDE DEF a
<1>2. OneMore(V, mm, U, mm, b, a)
  BY Zenon DEF OneMore, a
<1>3. al[a].inUse = Cardinality(Owned(a, mm, U))
  BY <1>1, Zenon DEF Out
<1>4. /\ Cardinality(Owned(a, mm, V)) \in Nat
      /\ Cardinality(Owned(a, mm, U)) = Cardinality(Owned(a, mm, V)) + 1
      /\ \A c : c # a => Owned(c, mm, U) = Owned(c, mm, V)
  <2> HIDE DEF V
  <2> QED BY <1>1, <1>2, OwnedGrows, SMTT(60)
<1>5. al[a].inUse \in Nat \ {0}
  BY <1>3, <1>4
<1>6. Pushed(al, mm, a, b, al2, mm2)
  BY ZenonT(60) DEF a
<1>7. /\ DOMAIN al2 = DOMAIN al /\ \A c \in DOMAIN al \ {a} : al2[c] = al[c]
      /\ al2[a] \in AllocatorRecord /\ al2[a].size = al[a].size /\ al2[a].head = b
      /\ al2[a].inUse = al[a].inUse - 1
      /\ al2[a].blockCnt = al[a].blockCnt /\ al2[a].peak = al[a].peak
      /\ m = n + 1
      /\ DOMAIN mm2 = DOMAIN mm /\ \A x \in DOMAIN mm \ {b} : mm2[x] = mm[x]
      /\ mm2[b] \in BlockRecord /\ mm2[b].word = al[a].head
      /\ mm2[b].size = mm[b].size /\ mm2[b].data = mm[b].data
  <2>1. PushedAs(al, mm, a, b, al2, mm2)
    <3> HIDE DEF m, n
    <3> QED BY <1>1, <1>5, <1>6, PushedRecord, ZenonT(60)
  <2> QED BY <2>1, ZenonT(60) DEF PushedAs
<1>8. /\ n \in Nat /\ st[a] \in [1 .. n -> DOMAIN mm]
      /\ al[a].head = (IF n = 0 THEN Null ELSE st[a][n])
      /\ \A i \in 1 .. n : mm[st[a][i]].word = (IF i = 1 THEN Null ELSE st[a][i - 1])
  BY <1>1, ZenonT(60) DEF Heap, Stack
<1>9. m \in 1 .. m /\ m \in Nat /\ \A i \in 1 .. m : i = m \/ (i \in 1 .. n /\ i # m)
  <2>1. m = n + 1 /\ n \in Nat
    BY <1>7, <1>8, ZenonT(60)
  <2> HIDE DEF m, n
  <2> QED BY <2>1, SMTT(60)
<1>10. \A c \in DOMAIN al : \A i \in 1 .. Depth(al[c]) : st[c][i] \in DOMAIN mm /\ st[c][i] # b
  BY DEF Heap, Stack
<1>11. \A c \in DOMAIN al : \A i \in 1 .. Depth(al2[c]) :
          \/ c = a /\ i = m /\ st2[c][i] = b
          \/ i \in 1 .. Depth(al[c]) /\ st2[c][i] = st[c][i]
  <2> SUFFICES ASSUME NEW c \in DOMAIN al, NEW i \in 1 .. Depth(al2[c])
               PROVE  \/ c = a /\ i = m /\ st2[c][i] = b
                      \/ i \in 1 .. Depth(al[c]) /\ st2[c][i] = st[c][i]
    BY Zenon
  <2>1. CASE c = a
    BY <1>9, <2>1, Zenon
  <2>2. CASE c # a
    BY <1>7, <2>2, ZenonT(60)
  <2> QED BY <2>1, <2>2, Zenon
<1>12. Stack(st2[a], al2[a], mm2)
  <2>1. st2[a] = s2
    BY <1>1, Zenon
  <2>2. s2 \in [1 .. m -> DOMAIN mm2]
    BY <1>1, <1>7, <1>8, <1>9, Zenon
  <2>3. al2[a].head = (IF m = 0 THEN Null ELSE s2[m])
    <3>1. m # 0
      <4> HIDE DEF m
      <4> QED BY <1>9
    <3> QED BY <1>7, <1>9, <3>1, Zenon
  <2>4. ASSUME NEW i \in 1 .. m
        PROVE  mm2[s2[i]].word = (IF i = 1 THEN Null ELSE s2[i - 1])
    <3>1. CASE i = m
      <4>1. mm2[s2[i]].word = (IF n = 0 THEN Null ELSE st[a][n])
        BY <1>7, <1>8, <1>9, <3>1, ZenonT(60)
      <4>2. n = i - 1 /\ (n = 0 <=> i = 1) /\ (n # 0 => n \in 1 .. m /\ n # m)
        <5>1. m = n + 1 /\ n \in Nat
          BY <1>7, <1>8, ZenonT(60)
        <5> HIDE DEF m, n
        <5> QED BY <3>1, <5>1, SMTT(60)
      <4> HIDE DEF m, n
      <4> QED BY <4>1, <4>2, Zenon DEF s2
    <3>2. CASE i # m
      <4>1. i \in 1 .. n
        BY <1>9, <3>2, Zenon
      <4>2. s2[i] = st[a][i] /\ st[a][i] \in DOMAIN mm /\ st[a][i] # b
        BY <4>1, <3>2, <1>1, <1>10, ZenonT(60)
      <4>3. mm2[s2[i]].word = (IF i = 1 THEN Null ELSE st[a][i - 1])
        <5>1. mm2[st[a][i]] = mm[st[a][i]]
          BY <4>2, <1>7, ZenonT(60)
        <5>2. mm[st[a][i]].word = (IF i = 1 THEN Null ELSE st[a][i - 1])
          BY <4>1, <1>8, ZenonT(60)
        <5> HIDE DEF s2
        <5> QED BY <4>2, <5>1, <5>2, ZenonT(60)
      <4>4. i # 1 => i - 1 \in 1 .. m /\ i - 1 # m
        <5>1. m = n + 1 /\ n \in Nat
          BY <1>7, <1>8, ZenonT(60)
        <5> HIDE DEF m, n
        <5> QED BY <4>1, <5>1, SMTT(60)
      <4> QED BY <4>3, <4>4, Zenon
    <3> QED BY <3>1, <3>2, Zenon
  <2> HIDE DEF s2
  <2>5. Stack(s2, al2[a], mm2)
    BY <1>9, <2>2, <2>3, <2>4, ZenonT(60) DEF Stack
  <2> HIDE DEF st2
  <2> QED BY <2>1, <2>5, ZenonT(60)
<1>13. ASSUME NEW c \in DOMAIN al, c # a PROVE Stack(st2[c], al2[c], mm2)
  <2>1. st2[c] = st[c] /\ al2[c] = al[c] /\ Stack(st[c], al[c], mm)
    BY <1>7, <1>13, Zenon DEF Heap
  <2>2. \A i \in 1 .. Depth(al[c]) : st[c][i] \in DOMAIN mm2 /\ mm2[st[c][i]].word = mm[st[c][i]].word
    BY <1>7, <1>10, Zenon
  <2> QED BY <2>1, <2>2, StackKept, Zenon
<1>14. Heap(st2, al2, mm2, V)
  <2>1. /\ DOMAIN al2 \subseteq Allocators /\ DOMAIN mm2 \subseteq Blocks
        /\ IsFiniteSet(DOMAIN mm2) /\ V \subseteq DOMAIN mm2
    BY <1>7, Zenon DEF Heap
  <2>2. \A c \in DOMAIN al2 : /\ al2[c] \in AllocatorRecord
                              /\ al2[c].blockCnt = al2[c].peak
                              /\ Stack(st2[c], al2[c], mm2)
    <3>1. \A c \in DOMAIN al : al[c] \in AllocatorRecord /\ al[c].blockCnt = al[c].peak
      BY Zenon DEF Heap
    <3> HIDE DEF st2, m, n
    <3> QED BY <1>1, <1>7, <1>12, <1>13, <3>1, ZenonT(60)
  <2>3. \A x \in DOMAIN mm2 : mm2[x] \in BlockRecord
    BY <1>7, ZenonT(60) DEF Heap
  <2>4. \A c \in DOMAIN al2 : \A i \in 1 .. Depth(al2[c]) : st2[c][i] \notin V
    <3>1. \A c \in DOMAIN al : \A i \in 1 .. Depth(al[c]) : st[c][i] \notin U
      BY Zenon DEF Heap
    <3>2. DOMAIN al2 = DOMAIN al
      BY <1>7, ZenonT(60)
    <3> HIDE DEF st2, m
    <3> QED BY <1>11, <3>1, <3>2, ZenonT(60)
  <2>5. \A c, d \in DOMAIN al2 : \A i \in 1 .. Depth(al2[c]), j \in 1 .. Depth(al2[d]) :
          st2[c][i] = st2[d][j] => c = d /\ i = j
    <3> SUFFICES ASSUME NEW c \in DOMAIN al, NEW d \in DOMAIN al,
                        NEW i \in 1 .. Depth(al2[c]), NEW j \in 1 .. Depth(al2[d]),
                        st2[c][i] = st2[d][j]
                 PROVE  c = d /\ i = j
      BY <1>7, ZenonT(60)
    <3> HIDE DEF st2, m, n
    <3>1. CASE c = a /\ i = m /\ st2[c][i] = b
      BY <3>1, <1>10, <1>11, SMTT(60)
    <3>2. CASE i \in 1 .. Depth(al[c]) /\ st2[c][i] = st[c][i]
      <4>1. j \in 1 .. Depth(al[d]) /\ st2[d][j] = st[d][j]
        BY <3>2, <1>10, <1>11, Zenon
      <4>2. st[c][i] = st[d][j]
        BY <3>2, <4>1, Zenon
      <4>3. \A k \in 1 .. Depth(al[c]), l \in 1 .. Depth(al[d]) :
               st[c][k] = st[d][l] => c = d /\ k = l
        BY ZenonT(60) DEF Heap
      <4> HIDE DEF s2, V
      <4>4. i \in 1 .. Depth(al[c]) /\ j \in 1 .. Depth(al[d])
        BY <3>2, <4>1, ZenonT(60)
      <4> QED BY <4>2, <4>3, <4>4, ZenonT(60)
    <3> QED BY <1>11, <3>1, <3>2, Zenon
  <2>6. ASSUME NEW x \in DOMAIN mm2 \ V
        PROVE  \E c \in DOMAIN al2 : \E i \in 1 .. Depth(al2[c]) : st2[c][i] = x
    <3>1. CASE x = b
      BY <1>1, <1>7, <1>9, <3>1, ZenonT(60)
    <3>2. CASE x # b
      <4>1. x \in DOMAIN mm \ U
        BY <1>7, <3>2, Zenon
      <4>2. PICK c \in DOMAIN al : \E i \in 1 .. Depth(al[c]) : st[c][i] = x
        BY <4>1, Zenon DEF Heap
      <4>3. PICK i \in 1 .. Depth(al[c]) : st[c][i] = x
        BY <4>2, Zenon
      <4>4. CASE c # a
        BY <1>7, <4>3, <4>4, Zenon
      <4>5. CASE c = a
        <5>1. i \in 1 .. n
          BY <4>5, ZenonT(60)
        <5>2. i \in 1 .. m /\ i # m
          <6>1. m = n + 1 /\ n \in Nat
            BY <1>7, <1>8, ZenonT(60)
          <6> HIDE DEF m, n
          <6> QED BY <5>1, <6>1, SMTT(60)
        <5> QED BY <1>7, <4>3, <4>5, <5>2, ZenonT(60)
      <4> QED BY <4>4, <4>5, Zenon
    <3> QED BY <3>1, <3>2, Zenon
  <2> HIDE DEF st2, V
  <2> QED BY <2>1, <2>2, <2>3, <2>4, <2>5, <2>6, ZenonT(60) DEF Heap
<1>15. \A x \in V : mm2[x] = mm[x]
  BY <1>7, Zenon DEF Heap
<1>16. Out(al2, mm2, V)
  <2>1. \A c : Owned(c, mm2, V) = Owned(c, mm, V)
    BY <1>15, Zenon DEF Owned
  <2>2. \A c \in DOMAIN al2 : al2[c].inUse = Cardinality(Owned(c, mm2, V))
    <3>1. al2[a].inUse = Cardinality(Owned(a, mm2, V))
      <4> DEFINE z == Cardinality(Owned(a, mm, V))
                 x == al[a].inUse
      <4>1. z \in Nat /\ x = z + 1 /\ al2[a].inUse = x - 1
        BY <1>3, <1>4, <1>7, Zenon
      <4>2. Cardinality(Owned(a, mm2, V)) = z
        BY <2>1, Zenon
      <4> HIDE DEF x, z
      <4> QED BY <4>1, <4>2, SMTT(60)
    <3>2. ASSUME NEW c \in DOMAIN al, c # a PROVE al2[c].inUse = Cardinality(Owned(c, mm2, V))
      <4>1. al2[c].inUse = Cardinality(Owned(c, mm, U))
        <5>1. al2[c] = al[c]
          BY <1>7, <3>2, ZenonT(60)
        <5>2. al[c].inUse = Cardinality(Owned(c, mm, U))
          BY ZenonT(60) DEF Out
        <5> QED BY <5>1, <5>2, ZenonT(60)
      <4> HIDE DEF V
      <4> QED BY <1>4, <2>1, <3>2, <4>1, ZenonT(60)
    <3> QED BY <1>7, <3>1, <3>2, ZenonT(60)
  <2>3. \A x \in V : mm2[x].word \in DOMAIN al2 /\ al2[mm2[x].word].size = mm2[x].size
    <3>1. \A x \in U : mm[x].word \in DOMAIN al /\ al[mm[x].word].size = mm[x].size
      BY ZenonT(60) DEF Out
    <3>2. \A c \in DOMAIN al : c \in DOMAIN al2 /\ al2[c].size = al[c].size
      BY <1>7, ZenonT(60)
    <3> TAKE x \in V
    <3> DEFINE w == mm[x].word
    <3>3. mm2[x] = mm[x] /\ w \in DOMAIN al /\ al[w].size = mm[x].size
      BY <1>15, <3>1, ZenonT(60)
    <3>4. w \in DOMAIN al2 /\ al2[w].size = mm2[x].size /\ mm2[x].word = w
      BY <3>2, <3>3, ZenonT(60)
    <3> HIDE DEF w
    <3> QED BY <3>4, ZenonT(60)
  <2> QED BY <2>2, <2>3, Zenon DEF Out
<1>17. \A c \in DOMAIN al : al2[c].size = al[c].size
  BY <1>7, Zenon
<1> HIDE DEF st2
<1> QED BY <1>7, <1>14, <1>15, <1>16, <1>17, Zenon DEF OutWithout

-----------------------------------------------------------------------------
(* Writing to a block, and the end of the allocators.                      *)

DataSet(mm, b, v, mm2) == mm2 = [mm EXCEPT ![b].data = v]

DataKept(st, al, mm, U, b, v, mm2) ==
    /\ Heap(st, al, mm2, U)
    /\ Out(al, mm, U) => Out(al, mm2, U)
    /\ DOMAIN mm2 = DOMAIN mm /\ \A x \in DOMAIN mm \ {b} : mm2[x] = mm[x]
    /\ mm2[b].data = v /\ mm2[b].size = mm[b].size /\ mm2[b].word = mm[b].word

LEMMA DataHeap ==
    ASSUME NEW st, NEW al, NEW mm, NEW U, Heap(st, al, mm, U),
           NEW b \in DOMAIN mm, NEW v \in Contents \cup {Null}, NEW mm2, DataSet(mm, b, v, mm2)
    PROVE  DataKept(st, al, mm, U, b, v, mm2)
<1>1. /\ DOMAIN mm2 = DOMAIN mm /\ \A x \in DOMAIN mm \ {b} : mm2[x] = mm[x]
      /\ mm2[b] = [mm[b] EXCEPT !.data = v] /\ mm[b] \in BlockRecord
  BY Zenon DEF DataSet, Heap
<1>2. /\ mm2[b] \in BlockRecord /\ mm2[b].size = mm[b].size /\ mm2[b].word = mm[b].word
      /\ mm2[b].data = v
  BY <1>1, Zenon DEF BlockRecord
<1>3. \A x \in DOMAIN mm : mm2[x].word = mm[x].word /\ mm2[x].size = mm[x].size
  BY <1>1, <1>2, Zenon
<1>4. Heap(st, al, mm2, U)
  <2>1. ASSUME NEW a \in DOMAIN al PROVE Stack(st[a], al[a], mm2)
    <3>1. Stack(st[a], al[a], mm)
      BY Zenon DEF Heap
    <3>2. \A i \in 1 .. Depth(al[a]) : st[a][i] \in DOMAIN mm
      BY <3>1, Zenon DEF Stack
    <3>3. \A i \in 1 .. Depth(al[a]) : st[a][i] \in DOMAIN mm2 /\ mm2[st[a][i]].word = mm[st[a][i]].word
      BY <1>1, <1>3, <3>2, Zenon
    <3> QED BY <3>1, <3>3, StackKept, Zenon
  <2>2. \A x \in DOMAIN mm2 : mm2[x] \in BlockRecord
    BY <1>1, <1>2, Zenon DEF Heap
  <2> QED BY <1>1, <2>1, <2>2, Zenon DEF Heap
<1>5. ASSUME Out(al, mm, U) PROVE Out(al, mm2, U)
  <2>1. U \subseteq DOMAIN mm
    BY Zenon DEF Heap
  <2>2. \A c : Owned(c, mm2, U) = Owned(c, mm, U)
    BY <1>3, <2>1, Zenon DEF Owned
  <2> QED BY <1>3, <1>5, <2>1, <2>2, Zenon DEF Out
<1> QED BY <1>1, <1>2, <1>4, <1>5, Zenon DEF DataKept

LEMMA DestroyedHeap ==
    ASSUME NEW st, NEW al, NEW mm, NEW U, Heap(st, al, mm, U), NEW G, G \subseteq DOMAIN al,
           NEW F, \A b : b \in F <=> \E a \in G : \E i \in 1 .. Depth(al[a]) : st[a][i] = b
    PROVE  Heap(st, Without(al, G), Without(mm, F), U)
<1> DEFINE al2 == Without(al, G)
           mm2 == Without(mm, F)
<1>1. /\ DOMAIN al2 = DOMAIN al \ G /\ \A a \in DOMAIN al2 : al2[a] = al[a]
      /\ DOMAIN mm2 = DOMAIN mm \ F /\ \A b \in DOMAIN mm2 : mm2[b] = mm[b]
  BY Zenon DEF Without
<1> HIDE DEF al2, mm2
<1>2. \A a \in DOMAIN al \ G : \A i \in 1 .. Depth(al[a]) : st[a][i] \in DOMAIN mm2
  <2> SUFFICES ASSUME NEW a \in DOMAIN al \ G, NEW i \in 1 .. Depth(al[a])
               PROVE  st[a][i] \in DOMAIN mm2
    BY Zenon
  <2>1. st[a][i] \in DOMAIN mm
    BY DEF Heap, Stack
  <2>2. ASSUME st[a][i] \in F PROVE FALSE
    <3>1. PICK c \in G : \E j \in 1 .. Depth(al[c]) : st[c][j] = st[a][i]
      BY <2>2, Zenon
    <3>2. PICK j \in 1 .. Depth(al[c]) : st[c][j] = st[a][i]
      BY <3>1, Zenon
    <3>3. c = a
      BY <3>2, Zenon DEF Heap
    <3> QED BY <3>3, Zenon
  <2> QED BY <1>1, <2>1, <2>2, Zenon
<1>3. U \subseteq DOMAIN mm2
  <2>1. \A b \in U : b \notin F
    BY DEF Heap
  <2> QED BY <1>1, <2>1, ZenonT(60) DEF Heap
<1>4. IsFiniteSet(DOMAIN mm2) /\ DOMAIN mm2 \subseteq Blocks /\ DOMAIN al2 \subseteq Allocators
  BY <1>1, FS_Subset, Zenon DEF Heap
<1>5. \A a \in DOMAIN al2 : /\ al2[a] \in AllocatorRecord
                            /\ al2[a].blockCnt = al2[a].peak
                            /\ Stack(st[a], al2[a], mm2)
  <2> SUFFICES ASSUME NEW a \in DOMAIN al2
               PROVE  /\ al2[a] \in AllocatorRecord
                      /\ al2[a].blockCnt = al2[a].peak
                      /\ Stack(st[a], al2[a], mm2)
    BY Zenon
  <2>1. /\ a \in DOMAIN al \ G /\ al2[a] = al[a]
        /\ al[a] \in AllocatorRecord /\ al[a].blockCnt = al[a].peak /\ Stack(st[a], al[a], mm)
    BY <1>1, Zenon DEF Heap
  <2>2. \A i \in 1 .. Depth(al[a]) : st[a][i] \in DOMAIN mm2 /\ mm2[st[a][i]].word = mm[st[a][i]].word
    BY <1>1, <1>2, <2>1, Zenon
  <2>3. Stack(st[a], al[a], mm2)
    BY <2>1, <2>2, StackKept, Zenon
  <2> QED BY <2>1, <2>3, Zenon
<1>6. \A b \in DOMAIN mm2 : mm2[b] \in BlockRecord
  BY <1>1, Zenon DEF Heap
<1>7. \A a \in DOMAIN al2 : \A i \in 1 .. Depth(al2[a]) : st[a][i] \notin U
  BY <1>1, ZenonT(60) DEF Heap
<1>8. \A a, c \in DOMAIN al2 : \A i \in 1 .. Depth(al2[a]), j \in 1 .. Depth(al2[c]) :
         st[a][i] = st[c][j] => a = c /\ i = j
  BY <1>1 DEF Heap
<1>9. \A b \in DOMAIN mm2 \ U : \E a \in DOMAIN al2 : \E i \in 1 .. Depth(al2[a]) : st[a][i] = b
  <2> SUFFICES ASSUME NEW b \in DOMAIN mm2 \ U
               PROVE  \E a \in DOMAIN al2 : \E i \in 1 .. Depth(al2[a]) : st[a][i] = b
    BY Zenon
  <2>1. b \in DOMAIN mm \ U /\ b \notin F
    BY <1>1, Zenon
  <2>2. PICK a \in DOMAIN al : \E i \in 1 .. Depth(al[a]) : st[a][i] = b
    BY <2>1, Zenon DEF Heap
  <2>3. a \notin G
    BY <2>1, <2>2, Zenon
  <2> QED BY <1>1, <2>2, <2>3, Zenon
<1>10. Heap(st, al2, mm2, U)
  BY <1>3, <1>4, <1>5, <1>6, <1>7, <1>8, <1>9, ZenonT(60) DEF Heap
<1> QED BY <1>10, Zenon DEF al2, mm2

\* The free list of a, as its stack has it.
FreeAsIn(st, a) ==
    /\ \A b : b \in FreeBlocks(allocator[a]) <=> \E i \in 1 .. Depth(allocator[a]) : st[a][i] = b
    /\ \A i \in 1 .. Depth(allocator[a]) : st[a][i] \in DOMAIN mem
    /\ FreeList(allocator[a])[Cardinality(DOMAIN mem)] = Null
    /\ Cardinality(FreeBlocks(allocator[a])) = Depth(allocator[a])

\* The free blocks of all allocators are those of the stacks.
LEMMA FreeBlocksOfHeap ==
    ASSUME NEW st, NEW U, Heap(st, allocator, mem, U), NEW a \in DOMAIN allocator
    PROVE  FreeAsIn(st, a)
<1> DEFINE n == Depth(allocator[a])
           s == st[a]
<1>1. /\ Stack(s, allocator[a], mem) /\ IsFiniteSet(DOMAIN mem)
      /\ DOMAIN mem \subseteq Blocks
      /\ \A i, j \in 1 .. n : s[i] = s[j] => i = j
  BY DEF Heap
<1>2. Null \notin DOMAIN mem
  BY <1>1, NullAssumption, Zenon
<1>3. DOMAIN s = 1 .. n /\ \A i \in 1 .. n : s[i] \in DOMAIN mem
  BY <1>1, Zenon DEF Stack
<1>4. /\ FreeBlocks(allocator[a]) = Range(s)
      /\ FreeList(allocator[a])[Cardinality(DOMAIN mem)] = Null
      /\ Cardinality(FreeBlocks(allocator[a])) = n
  BY <1>1, <1>2, FreeListOfStack, Zenon
<1>5. \A b : b \in Range(s) <=> \E i \in 1 .. n : s[i] = b
  <2> HIDE DEF s, n
  <2> QED BY <1>3, Zenon DEF Range
<1> QED BY <1>3, <1>4, <1>5, ZenonT(60) DEF FreeAsIn

-----------------------------------------------------------------------------
(* What the calls have in hand.                                            *)

LEMMA BusyWithCall ==
    /\ BusyWith(Idle) = {} /\ Idle.at = "idle"
    /\ \A k \in CopyCall : k.at = "copy" /\ BusyWith(k) = {k.old, k.new}
    /\ \A k \in FreeCall : k.at = "free" /\ BusyWith(k) = {k.old} \cup DOMAIN k.result
BY Zenon DEF BusyWith, Idle, CopyCall, FreeCall

LEMMA CallByPlace ==
    ASSUME NEW k \in Calls
    PROVE  /\ k.at = "copy" <=> k \in CopyCall
           /\ k.at = "free" <=> k \in FreeCall
           /\ k.at \notin {"copy", "free"} => k = Idle
BY DEF Calls, Idle, CopyCall, FreeCall

\* A call's blocks are all that matters to it.
LEMMA CallKept ==
    ASSUME NEW k, NEW mm, NEW mm2, CallOK(k, mm), \A x \in BusyWith(k) : mm2[x] = mm[x]
    PROVE  CallOK(k, mm2)
<1>1. k \in Calls
  BY Zenon DEF CallOK
<1>2. CASE k = Idle
  BY <1>1, <1>2, BusyWithCall, Zenon DEF CallOK
<1>3. CASE k \in CopyCall
  <2>1. k.at = "copy" /\ mm2[k.old] = mm[k.old] /\ mm2[k.new] = mm[k.new]
    BY <1>3, BusyWithCall, Zenon
  <2> QED BY <2>1, Zenon DEF CallOK
<1>4. CASE k \in FreeCall
  <2>1. k.at = "free" /\ mm2[k.old] = mm[k.old] /\ \A x \in DOMAIN k.result : mm2[x] = mm[x]
    BY <1>4, BusyWithCall, Zenon
  <2> QED BY <2>1, Zenon DEF CallOK
<1> QED BY <1>1, <1>2, <1>3, <1>4, ZenonT(60) DEF Calls

\* The blocks of the calls of the other threads.
OfOthers(ca, t) == UNION {BusyWith(ca[u]) : u \in Threads \ {t}}

LEMMA InHandSplit ==
    ASSUME NEW cl, NEW ca, NEW t \in Threads
    PROVE  InHand(cl, ca) = DOMAIN cl \cup BusyWith(ca[t]) \cup OfOthers(ca, t)
BY Zenon DEF InHand, OfOthers

\* Thread t goes on to the call k.
Moves(ca, t, k, ca2) == ca2 = [ca EXCEPT ![t] = k]

LEMMA OthersKept ==
    ASSUME NEW ca, DOMAIN ca = Threads, NEW t \in Threads, NEW k, NEW ca2, Moves(ca, t, k, ca2)
    PROVE  /\ OfOthers(ca2, t) = OfOthers(ca, t)
           /\ ca2[t] = k /\ DOMAIN ca2 = Threads
           /\ \A u \in Threads \ {t} : ca2[u] = ca[u]
BY ZenonT(60) DEF OfOthers, Moves

LEMMA OthersApart ==
    ASSUME NEW mm, NEW cl, NEW ca, Hands(mm, cl, ca), NEW t \in Threads
    PROVE  /\ OfOthers(ca, t) \cap DOMAIN cl = {}
           /\ OfOthers(ca, t) \cap BusyWith(ca[t]) = {}
           /\ BusyWith(ca[t]) \cap DOMAIN cl = {}
           /\ DOMAIN ca = Threads /\ CallOK(ca[t], mm) /\ ca[t] \in Calls
           /\ \A b \in DOMAIN cl : cl[b] \in UseRecord /\ Fits(cl[b], mm[b])
<1>1. /\ DOMAIN ca = Threads /\ CallOK(ca[t], mm) /\ BusyWith(ca[t]) \cap DOMAIN cl = {}
      /\ \A u \in Threads : BusyWith(ca[u]) \cap DOMAIN cl = {}
      /\ \A b \in DOMAIN cl : cl[b] \in UseRecord /\ Fits(cl[b], mm[b])
  BY ZenonT(60) DEF Hands
<1>2. \A u \in Threads \ {t} : BusyWith(ca[u]) \cap BusyWith(ca[t]) = {}
  BY ZenonT(60) DEF Hands
<1>3. ca[t] \in Calls
  BY <1>1, ZenonT(60) DEF CallOK
<1>4. OfOthers(ca, t) \cap DOMAIN cl = {}
  BY <1>1, ZenonT(60) DEF OfOthers
<1>5. OfOthers(ca, t) \cap BusyWith(ca[t]) = {}
  BY <1>2, ZenonT(60) DEF OfOthers
<1> QED BY <1>1, <1>3, <1>4, <1>5, ZenonT(60)

\* A step of thread t changes its own call, the program's blocks and blocks
\* that no other thread has in hand.
OwnStep(t, k, mm, ca, mm2, cl2, ca2) ==
    /\ Moves(ca, t, k, ca2) /\ CallOK(k, mm2) /\ BusyWith(k) \cap DOMAIN cl2 = {}
    /\ \A b \in DOMAIN cl2 : cl2[b] \in UseRecord /\ Fits(cl2[b], mm2[b])
    /\ \A x \in OfOthers(ca, t) : mm2[x] = mm[x] /\ x \notin DOMAIN cl2 \cup BusyWith(k)

LEMMA HandsStep ==
    ASSUME NEW mm, NEW cl, NEW ca, Hands(mm, cl, ca), NEW t \in Threads, NEW k,
           NEW mm2, NEW cl2, NEW ca2, OwnStep(t, k, mm, ca, mm2, cl2, ca2)
    PROVE  Hands(mm2, cl2, ca2)
<1>0. /\ Moves(ca, t, k, ca2) /\ CallOK(k, mm2) /\ BusyWith(k) \cap DOMAIN cl2 = {}
      /\ \A b \in DOMAIN cl2 : cl2[b] \in UseRecord /\ Fits(cl2[b], mm2[b])
      /\ \A x \in OfOthers(ca, t) : mm2[x] = mm[x] /\ x \notin DOMAIN cl2 \cup BusyWith(k)
  BY ZenonT(60) DEF OwnStep
<1>1. DOMAIN ca = Threads
  BY ZenonT(60) DEF Hands
<1>2. ca2[t] = k /\ DOMAIN ca2 = Threads /\ \A u \in Threads \ {t} : ca2[u] = ca[u]
  BY <1>0, <1>1, ZenonT(60) DEF Moves
<1>3. \A u \in Threads \ {t} : BusyWith(ca[u]) \subseteq OfOthers(ca, t)
  BY Zenon DEF OfOthers
<1>4. \A u \in Threads \ {t} : CallOK(ca[u], mm2)
  <2> TAKE u \in Threads \ {t}
  <2>1. CallOK(ca[u], mm) /\ \A x \in BusyWith(ca[u]) : mm2[x] = mm[x]
    BY <1>0, <1>3, Zenon DEF Hands
  <2> QED BY <2>1, CallKept, Zenon
<1>5. \A u \in Threads : CallOK(ca2[u], mm2) /\ BusyWith(ca2[u]) \cap DOMAIN cl2 = {}
  BY <1>0, <1>2, <1>3, <1>4, Zenon
<1>6. \A u, w \in Threads : u # w => BusyWith(ca2[u]) \cap BusyWith(ca2[w]) = {}
  <2> SUFFICES ASSUME NEW u \in Threads, NEW w \in Threads, u # w
               PROVE  BusyWith(ca2[u]) \cap BusyWith(ca2[w]) = {}
    BY Zenon
  <2>1. CASE u = t
    BY <1>0, <1>2, <1>3, <2>1, Zenon
  <2>2. CASE w = t
    BY <1>0, <1>2, <1>3, <2>2, Zenon
  <2>3. CASE u # t /\ w # t
    BY <1>2, <2>3, Zenon DEF Hands
  <2> QED BY <2>1, <2>2, <2>3, ZenonT(60)
<1> QED BY <1>0, <1>2, <1>5, <1>6, Zenon DEF Hands

\* A step that changes no call.
LEMMA HandsKept ==
    ASSUME NEW mm, NEW cl, NEW ca, Hands(mm, cl, ca), NEW mm2, NEW cl2,
           \A b \in DOMAIN cl2 : cl2[b] \in UseRecord /\ Fits(cl2[b], mm2[b]),
           \A t \in Threads : \A x \in BusyWith(ca[t]) : mm2[x] = mm[x] /\ x \notin DOMAIN cl2
    PROVE  Hands(mm2, cl2, ca)
<1>1. \A t \in Threads : CallOK(ca[t], mm2)
  <2> TAKE t \in Threads
  <2>1. CallOK(ca[t], mm) /\ \A x \in BusyWith(ca[t]) : mm2[x] = mm[x]
    BY Zenon DEF Hands
  <2> QED BY <2>1, CallKept, Zenon
<1> QED BY <1>1, Zenon DEF Hands

-----------------------------------------------------------------------------
(* The steps.                                                              *)

LEMMA MallocInv ==
    ASSUME IInv, NEW t \in Threads, NEW size \in Sizes, Malloc(t, size)
    PROVE  IInv'
<1>1. PICK st : Core(st, table, allocator, mem, clients, call, exited)
  BY Zenon DEF IInv
<1>2. ~exited /\ exited' = exited /\ call' = call
  BY Zenon DEF Malloc
<1>3. PICK b \in Blocks : /\ xmalloc(size, b)
                          /\ clients' = Put(clients, b, [size |-> size, data |-> Null])
  BY Zenon DEF Malloc
<1> DEFINE U == InHand(clients, call)
           use == [size |-> size, data |-> Null]
<1>4. /\ Heap(st, allocator, mem, U) /\ Out(allocator, mem, U) /\ exited = FALSE
      /\ Hands(mem, clients, call) /\ Tables(table, allocator, FALSE)
  <2>1. exited = FALSE
    BY <1>1, <1>2, Zenon DEF Core
  <2> QED BY <1>1, <2>1, Zenon DEF Core
<1> HIDE DEF U
<1>5. /\ \E st2 : Heap(st2, allocator', mem', U \cup {b})
      /\ Out(allocator', mem', U \cup {b})
      /\ Tables(table', allocator', FALSE)
      /\ b \notin U /\ size + Pointer <= mem'[b].size
      /\ \A x \in U : mem'[x] = mem[x]
  BY <1>3, <1>4, XmallocHeap, Zenon
<1>6. DOMAIN clients' = DOMAIN clients \cup {b} /\ clients'[b] = use
      /\ \A x \in DOMAIN clients : x # b => clients'[x] = clients[x]
  BY <1>3, Zenon DEF Put
<1>7. InHand(clients', call') = U \cup {b}
  BY <1>2, <1>6, Zenon DEF InHand, U
<1>8. Hands(mem', clients', call')
  <2>1. DOMAIN clients \subseteq U /\ \A u \in Threads : BusyWith(call[u]) \subseteq U
    BY Zenon DEF InHand, U
  <2>2. use \in UseRecord /\ Fits(use, mem'[b])
    BY <1>5, Zenon DEF UseRecord, Fits
  <2>3. \A x \in DOMAIN clients : clients[x] \in UseRecord /\ Fits(clients[x], mem[x])
    BY <1>4, Zenon DEF Hands
  <2>4. \A x \in DOMAIN clients' : clients'[x] \in UseRecord /\ Fits(clients'[x], mem'[x])
    <3> HIDE DEF use
    <3> QED BY <1>5, <1>6, <2>1, <2>2, <2>3, ZenonT(60)
  <2>5. \A u \in Threads : \A x \in BusyWith(call[u]) : mem'[x] = mem[x] /\ x \notin DOMAIN clients'
    BY <1>4, <1>5, <1>6, <2>1, ZenonT(60) DEF Hands
  <2> QED BY <1>2, <1>4, <2>4, <2>5, HandsKept, ZenonT(60)
<1>9. PICK st2 : Heap(st2, allocator', mem', InHand(clients', call'))
  BY <1>5, <1>7, Zenon
<1>10. Core(st2, table', allocator', mem', clients', call', exited')
  BY <1>2, <1>4, <1>5, <1>7, <1>8, <1>9, ZenonT(60) DEF Core
<1> QED BY <1>10, Zenon DEF IInv

LEMMA WriteInv ==
    ASSUME IInv, NEW b \in DOMAIN clients, NEW v \in Contents, Write(b, v)
    PROVE  IInv'
<1>1. PICK st : Core(st, table, allocator, mem, clients, call, exited)
  BY Zenon DEF IInv
<1>2. /\ ~exited /\ clients' = [clients EXCEPT ![b].data = v] /\ mem' = [mem EXCEPT ![b].data = v]
      /\ table' = table /\ allocator' = allocator /\ call' = call /\ exited' = exited
  BY Zenon DEF Write
<1> DEFINE U == InHand(clients, call)
<1>3. /\ Heap(st, allocator, mem, U) /\ Out(allocator, mem, U)
      /\ Hands(mem, clients, call) /\ Tables(table, allocator, exited)
      /\ exited \in BOOLEAN
  BY <1>1, <1>2, Zenon DEF Core
<1>4. b \in DOMAIN mem
  BY <1>3, ZenonT(60) DEF Heap, InHand
<1> HIDE DEF U
<1>5. /\ Heap(st, allocator, mem', U) /\ Out(allocator, mem', U)
      /\ DOMAIN mem' = DOMAIN mem /\ \A x \in DOMAIN mem \ {b} : mem'[x] = mem[x]
      /\ mem'[b].data = v /\ mem'[b].size = mem[b].size /\ mem'[b].word = mem[b].word
  <2>1. DataSet(mem, b, v, mem')
    BY <1>2, Zenon DEF DataSet
  <2>2. DataKept(st, allocator, mem, U, b, v, mem')
    BY <1>3, <1>4, <2>1, DataHeap, ZenonT(60)
  <2> QED BY <1>2, <1>3, <2>2, ZenonT(60) DEF DataKept
<1>6. /\ DOMAIN clients' = DOMAIN clients /\ \A x \in DOMAIN clients \ {b} : clients'[x] = clients[x]
      /\ clients'[b] = [clients[b] EXCEPT !.data = v]
  BY <1>2, Zenon
<1>7. InHand(clients', call') = U
  BY <1>2, <1>6, Zenon DEF InHand, U
<1>8. \A x \in DOMAIN clients : clients[x] \in UseRecord /\ Fits(clients[x], mem[x]) /\ x \in DOMAIN mem
  BY <1>3, Zenon DEF Hands, Heap, InHand, U
<1>9. clients'[b] \in UseRecord /\ clients'[b].size = clients[b].size /\ clients'[b].data = v
  BY <1>6, <1>8, Zenon DEF UseRecord
<1>10. Fits(clients'[b], mem'[b])
  BY <1>5, <1>8, <1>9, ZenonT(60) DEF Fits
<1>11. \A x \in DOMAIN clients' : clients'[x] \in UseRecord /\ Fits(clients'[x], mem'[x])
  BY <1>5, <1>6, <1>8, <1>9, <1>10, ZenonT(60)
<1>12. \A u \in Threads : \A x \in BusyWith(call[u]) : mem'[x] = mem[x] /\ x \notin DOMAIN clients'
  <2>1. \A u \in Threads : BusyWith(call[u]) \subseteq DOMAIN mem /\ BusyWith(call[u]) \cap DOMAIN clients = {}
    <3>1. U \subseteq DOMAIN mem
      BY <1>3, ZenonT(60) DEF Heap
    <3>2. \A u \in Threads : BusyWith(call[u]) \subseteq U
      BY ZenonT(60) DEF InHand, U
    <3>3. \A u \in Threads : BusyWith(call[u]) \cap DOMAIN clients = {}
      BY <1>3, ZenonT(60) DEF Hands
    <3> QED BY <3>1, <3>2, <3>3, ZenonT(60)
  <2> QED BY <1>5, <1>6, <2>1, SMTT(60)
<1>13. Hands(mem', clients', call')
  BY <1>2, <1>3, <1>11, <1>12, HandsKept, ZenonT(60)
<1>14. Core(st, table', allocator', mem', clients', call', exited')
  BY <1>2, <1>3, <1>5, <1>7, <1>13, ZenonT(60) DEF Core
<1> QED BY <1>14, Zenon DEF IInv

\* What xfree returns, and what xrealloc does.
LEMMA Results ==
    /\ <<>> \in UNION {[S -> UseRecord] : S \in SUBSET Blocks} /\ DOMAIN <<>> = {}
    /\ \A b \in Blocks, use \in UseRecord :
          /\ Put(<<>>, b, use) \in UNION {[S -> UseRecord] : S \in SUBSET Blocks}
          /\ DOMAIN Put(<<>>, b, use) = {b} /\ Put(<<>>, b, use)[b] = use
<1>1. <<>> \in [{} -> UseRecord] /\ DOMAIN <<>> = {}
  OBVIOUS
<1>2. ASSUME NEW b \in Blocks, NEW use \in UseRecord
      PROVE  /\ Put(<<>>, b, use) \in [{b} -> UseRecord] /\ Put(<<>>, b, use)[b] = use
             /\ {b} \in SUBSET Blocks
  BY DEF Put
<1>3. {} \in SUBSET Blocks
  BY Zenon
<1> QED BY <1>1, <1>2, <1>3, Zenon

LEMMA FreeInv ==
    ASSUME IInv, NEW t \in Threads, NEW b \in DOMAIN clients, Free(t, b)
    PROVE  IInv'
<1>1. PICK st : Core(st, table, allocator, mem, clients, call, exited)
  BY Zenon DEF IInv
<1> DEFINE k == Freeing(b, mem[b].word, <<>>)
           U == InHand(clients, call)
<1>2. /\ ~exited /\ call[t] = Idle /\ call' = [call EXCEPT ![t] = k]
      /\ clients' = Without(clients, {b})
      /\ table' = table /\ allocator' = allocator /\ mem' = mem /\ exited' = exited
  BY Zenon DEF Free
<1>3. /\ Heap(st, allocator, mem, U) /\ Out(allocator, mem, U)
      /\ Hands(mem, clients, call) /\ Tables(table, allocator, exited)
      /\ exited \in BOOLEAN
  BY <1>1, <1>2, Zenon DEF Core
<1>4. b \in DOMAIN mem /\ b \in Blocks /\ mem[b] \in BlockRecord
  BY <1>3, Zenon DEF Heap, InHand
<1>5. DOMAIN clients' = DOMAIN clients \ {b} /\ \A x \in DOMAIN clients' : clients'[x] = clients[x]
  BY <1>2, Zenon DEF Without
<1>6. k \in FreeCall /\ k.old = b /\ k.owner = mem[b].word /\ k.result = <<>>
  BY <1>4, Results, ZenonT(60) DEF Freeing, FreeCall, BlockRecord
<1>7. BusyWith(k) = {b}
  BY <1>6, BusyWithCall, Results, SMTT(60)
<1>8. CallOK(k, mem)
  <2>1. k.at = "free" /\ DOMAIN k.result = {}
    BY <1>6, BusyWithCall, Results, ZenonT(60)
  <2> QED BY <1>6, <2>1, ZenonT(60) DEF CallOK, Calls
<1> HIDE DEF k
<1>9. /\ OfOthers(call, t) \cap DOMAIN clients = {} /\ DOMAIN call = Threads
      /\ \A x \in DOMAIN clients : clients[x] \in UseRecord /\ Fits(clients[x], mem[x])
  BY <1>3, OthersApart, Zenon
<1>10. Moves(call, t, k, call')
  BY <1>2, Zenon DEF Moves, k
<1>11. Hands(mem, clients', call')
  <2>1. BusyWith(k) \cap DOMAIN clients' = {}
    BY <1>5, <1>7, Zenon
  <2>2. \A x \in DOMAIN clients' : clients'[x] \in UseRecord /\ Fits(clients'[x], mem[x])
    BY <1>5, <1>9, Zenon
  <2>3. \A x \in OfOthers(call, t) : mem[x] = mem[x] /\ x \notin DOMAIN clients' \cup BusyWith(k)
    BY <1>5, <1>7, <1>9, ZenonT(60)
  <2>4. OwnStep(t, k, mem, call, mem, clients', call')
    BY <1>8, <1>10, <2>1, <2>2, <2>3, ZenonT(60) DEF OwnStep
  <2> QED BY <1>3, <2>4, HandsStep, ZenonT(60)
<1>12. InHand(clients', call') = U
  <2>1. U = DOMAIN clients \cup BusyWith(call[t]) \cup OfOthers(call, t)
    BY InHandSplit, ZenonT(60)
  <2>2. OfOthers(call', t) = OfOthers(call, t) /\ call'[t] = k
    BY <1>9, <1>10, OthersKept, SMTT(60)
  <2>3. InHand(clients', call') = DOMAIN clients' \cup BusyWith(call'[t]) \cup OfOthers(call', t)
    BY InHandSplit, Zenon
  <2>4. BusyWith(call[t]) = {}
    BY <1>2, BusyWithCall, Zenon
  <2> QED BY <1>5, <1>7, <2>1, <2>2, <2>3, <2>4, ZenonT(60)
<1> HIDE DEF U
<1>13. Core(st, table', allocator', mem', clients', call', exited')
  BY <1>2, <1>3, <1>11, <1>12, ZenonT(60) DEF Core
<1> QED BY <1>13, Zenon DEF IInv

LEMMA ReallocInv ==
    ASSUME IInv, NEW t \in Threads, NEW b \in DOMAIN clients, NEW size \in Sizes, Realloc(t, b, size)
    PROVE  IInv'
<1>1. PICK st : Core(st, table, allocator, mem, clients, call, exited)
  BY Zenon DEF IInv
<1>2. ~exited /\ call[t] = Idle /\ clients' = Without(clients, {b}) /\ exited' = exited
  BY Zenon DEF Realloc
<1>3. PICK new \in Blocks :
         /\ xmalloc(size, new)
         /\ call' = [call EXCEPT ![t] = Reallocating(b, clients[b], new, size)]
  BY Zenon DEF Realloc
<1> DEFINE k == Reallocating(b, clients[b], new, size)
           U == InHand(clients, call)
<1>4. /\ Heap(st, allocator, mem, U) /\ Out(allocator, mem, U) /\ exited = FALSE
      /\ Hands(mem, clients, call) /\ Tables(table, allocator, FALSE)
  <2>1. exited = FALSE
    BY <1>1, <1>2, Zenon DEF Core
  <2> QED BY <1>1, <2>1, Zenon DEF Core
<1>5. b \in U /\ b \in Blocks
  BY <1>4, Zenon DEF Heap, InHand
<1> HIDE DEF U
<1>6. /\ \E st2 : Heap(st2, allocator', mem', U \cup {new})
      /\ Out(allocator', mem', U \cup {new})
      /\ Tables(table', allocator', FALSE)
      /\ new \notin U /\ size + Pointer <= mem'[new].size
      /\ \A x \in U : mem'[x] = mem[x]
  BY <1>3, <1>4, XmallocHeap, Zenon
<1>7. DOMAIN clients' = DOMAIN clients \ {b} /\ \A x \in DOMAIN clients' : clients'[x] = clients[x]
  BY <1>2, Zenon DEF Without
<1>8. /\ OfOthers(call, t) \cap DOMAIN clients = {} /\ DOMAIN call = Threads
      /\ \A x \in DOMAIN clients : clients[x] \in UseRecord /\ Fits(clients[x], mem[x])
  BY <1>4, OthersApart, Zenon
<1>9. U = DOMAIN clients \cup OfOthers(call, t)
  <2>1. U = DOMAIN clients \cup BusyWith(call[t]) \cup OfOthers(call, t)
    BY InHandSplit, Zenon DEF U
  <2>2. BusyWith(call[t]) = {}
    BY <1>2, BusyWithCall, Zenon
  <2> QED BY <2>1, <2>2, Zenon
<1>10. /\ k \in CopyCall /\ k.old = b /\ k.new = new /\ k.use = clients[b] /\ k.size = size
  BY <1>5, <1>8, Zenon DEF Reallocating, CopyCall
<1>11. k.at = "copy" /\ BusyWith(k) = {b, new}
  BY <1>10, BusyWithCall, Zenon
<1>12. CallOK(k, mem')
  <2>1. clients[b].data \in {Null, mem'[b].data}
    BY <1>5, <1>6, <1>8, ZenonT(60) DEF Fits
  <2> HIDE DEF k
  <2> QED BY <1>5, <1>6, <1>10, <1>11, <2>1, ZenonT(60) DEF CallOK, Calls
<1> HIDE DEF k
<1>13. Moves(call, t, k, call')
  BY <1>3, ZenonT(60) DEF Moves, k
<1>14. Hands(mem', clients', call')
  <2>1. BusyWith(k) \cap DOMAIN clients' = {}
    BY <1>6, <1>7, <1>9, <1>11, ZenonT(60)
  <2>2. \A x \in DOMAIN clients' : clients'[x] \in UseRecord /\ Fits(clients'[x], mem'[x])
    BY <1>6, <1>7, <1>8, <1>9, ZenonT(60)
  <2>3. \A x \in OfOthers(call, t) : mem'[x] = mem[x] /\ x \notin DOMAIN clients' \cup BusyWith(k)
    BY <1>6, <1>7, <1>8, <1>9, <1>11, ZenonT(60)
  <2>4. OwnStep(t, k, mem, call, mem', clients', call')
    BY <1>12, <1>13, <2>1, <2>2, <2>3, ZenonT(60) DEF OwnStep
  <2> QED BY <1>4, <2>4, HandsStep, ZenonT(60)
<1>15. InHand(clients', call') = U \cup {new}
  <2>1. OfOthers(call', t) = OfOthers(call, t) /\ call'[t] = k
    BY <1>8, <1>13, OthersKept, SMTT(60)
  <2>2. InHand(clients', call') = DOMAIN clients' \cup BusyWith(call'[t]) \cup OfOthers(call', t)
    BY InHandSplit, Zenon
  <2> QED BY <1>5, <1>7, <1>9, <1>11, <2>1, <2>2, ZenonT(60)
<1>16. PICK st2 : Heap(st2, allocator', mem', InHand(clients', call'))
  BY <1>6, <1>15, ZenonT(60)
<1>17. Core(st2, table', allocator', mem', clients', call', exited')
  BY <1>2, <1>4, <1>6, <1>14, <1>15, <1>16, ZenonT(60) DEF Core
<1> QED BY <1>17, Zenon DEF IInv

LEMMA CopyInv ==
    ASSUME IInv, NEW t \in Threads, Copy(t)
    PROVE  IInv'
<1>1. PICK st : Core(st, table, allocator, mem, clients, call, exited)
  BY Zenon DEF IInv
<1> DEFINE c == call[t]
           old == c.old
           new == c.new
           use == [size |-> c.size, data |-> c.use.data]
           k == Freeing(old, mem[old].word, Put(<<>>, new, use))
           U == InHand(clients, call)
<1>2. /\ c.at = "copy" /\ mem' = [mem EXCEPT ![new].data = mem[old].data]
      /\ call' = [call EXCEPT ![t] = k]
      /\ table' = table /\ allocator' = allocator /\ clients' = clients /\ exited' = exited
  BY Zenon DEF Copy
<1>3. /\ Heap(st, allocator, mem, U) /\ Hands(mem, clients, call)
      /\ Tables(table, allocator, exited) /\ exited = FALSE /\ Out(allocator, mem, U)
  <2>1. call[t] # Idle
    BY <1>2, BusyWithCall, Zenon
  <2> QED BY <1>1, <2>1, Zenon DEF Core
<1>4. /\ OfOthers(call, t) \cap DOMAIN clients = {} /\ DOMAIN call = Threads
      /\ OfOthers(call, t) \cap BusyWith(c) = {} /\ BusyWith(c) \cap DOMAIN clients = {}
      /\ CallOK(c, mem) /\ c \in Calls
      /\ \A x \in DOMAIN clients : clients[x] \in UseRecord /\ Fits(clients[x], mem[x])
  BY <1>3, OthersApart, Zenon
<1>5. c \in CopyCall /\ BusyWith(c) = {old, new}
  BY <1>2, <1>4, CallByPlace, BusyWithCall, ZenonT(60)
<1>6. U = DOMAIN clients \cup BusyWith(c) \cup OfOthers(call, t)
  BY InHandSplit, Zenon
<1> HIDE DEF U
<1>7. /\ U \subseteq DOMAIN mem /\ DOMAIN mem \subseteq Blocks
      /\ \A x \in DOMAIN mem : mem[x] \in BlockRecord
  BY <1>3, Zenon DEF Heap
<1>8. /\ old \in DOMAIN mem /\ new \in DOMAIN mem /\ old \in Blocks /\ new \in Blocks
      /\ mem[old].data \in Contents \cup {Null}
      /\ mem[old].word \in Blocks \cup Allocators \cup {Null}
  BY <1>5, <1>6, <1>7, Zenon DEF BlockRecord
<1>9. /\ old # new /\ c.use.data \in {Null, mem[old].data} /\ c.size + Pointer <= mem[new].size
      /\ c.size \in Sizes /\ c.use.data \in Contents \cup {Null}
  BY <1>2, <1>4, <1>5, Zenon DEF CallOK, CopyCall, UseRecord
<1>10. /\ Heap(st, allocator, mem', U) /\ Out(allocator, mem', U)
       /\ DOMAIN mem' = DOMAIN mem /\ \A x \in DOMAIN mem \ {new} : mem'[x] = mem[x]
       /\ mem'[new].data = mem[old].data /\ mem'[new].size = mem[new].size
  <2> DEFINE v == mem[old].data
  <2>1. DataSet(mem, new, v, mem')
    BY <1>2, Zenon DEF DataSet
  <2>2. v \in Contents \cup {Null}
    BY <1>8, ZenonT(60)
  <2> HIDE DEF v, new, old, c
  <2>3. DataKept(st, allocator, mem, U, new, v, mem')
    BY <1>3, <1>8, <2>1, <2>2, DataHeap, ZenonT(60)
  <2> QED BY <1>3, <2>3, ZenonT(60) DEF DataKept, v
<1>11. use \in UseRecord /\ use.size = c.size /\ use.data = c.use.data
  BY <1>9, Zenon DEF UseRecord
<1> HIDE DEF use, old, new
<1>12. /\ k \in FreeCall /\ k.at = "free" /\ k.old = old /\ k.owner = mem[old].word
       /\ DOMAIN k.result = {new} /\ k.result[new] = use
  <2>1. /\ Put(<<>>, new, use) \in UNION {[S -> UseRecord] : S \in SUBSET Blocks}
        /\ DOMAIN Put(<<>>, new, use) = {new} /\ Put(<<>>, new, use)[new] = use
    BY <1>8, <1>11, Results, ZenonT(60)
  <2> QED BY <1>8, <2>1, ZenonT(60) DEF Freeing, FreeCall
<1> HIDE DEF k
<1>13. BusyWith(k) = {old, new}
  BY <1>12, BusyWithCall, Zenon
<1>14. CallOK(k, mem')
  <2>1. Fits(use, mem'[new])
    BY <1>9, <1>10, <1>11, ZenonT(60) DEF Fits
  <2>2. mem'[old] = mem[old]
    BY <1>8, <1>9, <1>10, ZenonT(60)
  <2>3. k \in Calls
    BY <1>12, Zenon DEF Calls
  <2> QED BY <1>9, <1>12, <2>1, <2>2, <2>3, ZenonT(60) DEF CallOK
<1>15. Moves(call, t, k, call')
  BY <1>2, ZenonT(60) DEF Moves
<1> HIDE DEF c
<1>16. Hands(mem', clients', call')
  <2>1. BusyWith(k) \cap DOMAIN clients' = {}
    BY <1>2, <1>4, <1>5, <1>13, ZenonT(60)
  <2>2. \A x \in DOMAIN clients' : clients'[x] \in UseRecord /\ Fits(clients'[x], mem'[x])
    BY <1>2, <1>4, <1>5, <1>6, <1>7, <1>10, ZenonT(60)
  <2>3. \A x \in OfOthers(call, t) : mem'[x] = mem[x] /\ x \notin DOMAIN clients' \cup BusyWith(k)
    BY <1>2, <1>4, <1>5, <1>6, <1>7, <1>10, <1>13, ZenonT(60)
  <2>4. OwnStep(t, k, mem, call, mem', clients', call')
    BY <1>14, <1>15, <2>1, <2>2, <2>3, ZenonT(60) DEF OwnStep
  <2> QED BY <1>3, <2>4, HandsStep, ZenonT(60)
<1>17. InHand(clients', call') = U
  <2>1. OfOthers(call', t) = OfOthers(call, t) /\ call'[t] = k
    BY <1>4, <1>15, OthersKept, SMTT(60)
  <2>2. InHand(clients', call') = DOMAIN clients' \cup BusyWith(call'[t]) \cup OfOthers(call', t)
    BY InHandSplit, Zenon
  <2> QED BY <1>2, <1>5, <1>6, <1>13, <2>1, <2>2, ZenonT(60)
<1>18. Core(st, table', allocator', mem', clients', call', exited')
  BY <1>2, <1>3, <1>10, <1>16, <1>17, ZenonT(60) DEF Core
<1> QED BY <1>18, Zenon DEF IInv

LEMMA DeallocateInv ==
    ASSUME IInv, NEW t \in Threads, Deallocate(t)
    PROVE  IInv'
<1>1. PICK st : Core(st, table, allocator, mem, clients, call, exited)
  BY Zenon DEF IInv
<1> DEFINE c == call[t]
           b == c.old
           U == InHand(clients, call)
<1>2. /\ c.at = "free" /\ Push(c.owner, b) /\ clients' = Overlay(c.result, clients)
      /\ call' = [call EXCEPT ![t] = Idle] /\ table' = table /\ exited' = exited
  BY Zenon DEF Deallocate
<1>3. /\ Heap(st, allocator, mem, U) /\ Hands(mem, clients, call)
      /\ Tables(table, allocator, exited) /\ exited = FALSE /\ Out(allocator, mem, U)
  <2>1. call[t] # Idle
    BY <1>2, BusyWithCall, ZenonT(60)
  <2> QED BY <1>1, <2>1, Zenon DEF Core
<1>4. /\ OfOthers(call, t) \cap DOMAIN clients = {} /\ DOMAIN call = Threads
      /\ OfOthers(call, t) \cap BusyWith(c) = {} /\ BusyWith(c) \cap DOMAIN clients = {}
      /\ CallOK(c, mem) /\ c \in Calls
      /\ \A x \in DOMAIN clients : clients[x] \in UseRecord /\ Fits(clients[x], mem[x])
  BY <1>3, OthersApart, Zenon
<1>5. c \in FreeCall /\ BusyWith(c) = {b} \cup DOMAIN c.result
  BY <1>2, <1>4, CallByPlace, BusyWithCall, ZenonT(60)
<1>6. U = DOMAIN clients \cup BusyWith(c) \cup OfOthers(call, t)
  BY InHandSplit, Zenon
<1> HIDE DEF U
<1>7. /\ c.owner = mem[b].word /\ b \notin DOMAIN c.result
      /\ \A x \in DOMAIN c.result : c.result[x] \in UseRecord /\ Fits(c.result[x], mem[x])
  <2>1. /\ c.owner = mem[b].word /\ b \notin DOMAIN c.result
        /\ \A x \in DOMAIN c.result : Fits(c.result[x], mem[x])
    BY <1>2, <1>4, ZenonT(60) DEF CallOK
  <2>2. c.result \in UNION {[S -> UseRecord] : S \in SUBSET Blocks}
    BY <1>5, ZenonT(60) DEF FreeCall
  <2> DEFINE r == c.result
  <2>3. \A x \in DOMAIN r : r[x] \in UseRecord
    <3> HIDE DEF r
    <3> QED BY <2>2, ZenonT(60) DEF r
  <2> QED BY <2>1, <2>3, ZenonT(60)
<1>8. OutWithout(b, U, allocator, mem, allocator', mem')
  <2>1. Pushed(allocator, mem, mem[b].word, b, allocator', mem')
    BY <1>2, <1>7, Zenon DEF Push, Pushed
  <2>2. b \in U
    BY <1>5, <1>6, Zenon
  <2> HIDE DEF b
  <2> QED BY <1>3, <2>1, <2>2, PushedHeap, ZenonT(60)
<1>9. /\ \E st2 : Heap(st2, allocator', mem', U \ {b})
      /\ Out(allocator', mem', U \ {b})
      /\ \A x \in U \ {b} : mem'[x] = mem[x]
      /\ DOMAIN allocator' = DOMAIN allocator
      /\ \A x \in DOMAIN allocator : allocator'[x].size = allocator[x].size
  BY <1>8, Zenon DEF OutWithout
<1>10. /\ DOMAIN clients' = DOMAIN clients \cup DOMAIN c.result
       /\ \A x \in DOMAIN c.result : clients'[x] = c.result[x]
       /\ \A x \in DOMAIN clients \ DOMAIN c.result : clients'[x] = clients[x]
  BY <1>2, Zenon DEF Overlay
<1>11. Moves(call, t, Idle, call')
  BY <1>2, ZenonT(60) DEF Moves
<1> HIDE DEF c, b
<1>12. Hands(mem', clients', call')
  <2>1. BusyWith(Idle) \cap DOMAIN clients' = {} /\ BusyWith(Idle) = {} /\ CallOK(Idle, mem')
    BY BusyWithCall, Zenon DEF CallOK, Calls
  <2>2. \A x \in DOMAIN clients' : x \in U \ {b}
    BY <1>4, <1>5, <1>6, <1>7, <1>10, ZenonT(60)
  <2>3. \A x \in DOMAIN clients' : clients'[x] \in UseRecord /\ Fits(clients'[x], mem[x])
    BY <1>4, <1>7, <1>10, ZenonT(60)
  <2>4. \A x \in DOMAIN clients' : clients'[x] \in UseRecord /\ Fits(clients'[x], mem'[x])
    BY <1>9, <2>2, <2>3, ZenonT(60)
  <2>5. \A x \in OfOthers(call, t) : mem'[x] = mem[x] /\ x \notin DOMAIN clients' \cup BusyWith(Idle)
    BY <1>4, <1>5, <1>6, <1>9, <1>10, <2>1, ZenonT(60)
  <2>6. OwnStep(t, Idle, mem, call, mem', clients', call')
    BY <1>11, <2>1, <2>4, <2>5, ZenonT(60) DEF OwnStep
  <2> QED BY <1>3, <2>6, HandsStep, ZenonT(60)
<1>13. InHand(clients', call') = U \ {b}
  <2>1. OfOthers(call', t) = OfOthers(call, t) /\ call'[t] = Idle
    BY <1>4, <1>11, OthersKept, SMTT(60)
  <2>2. InHand(clients', call') = DOMAIN clients' \cup BusyWith(call'[t]) \cup OfOthers(call', t)
    BY InHandSplit, Zenon
  <2>3. BusyWith(call'[t]) = {}
    BY <2>1, BusyWithCall, ZenonT(60)
  <2> QED BY <1>4, <1>5, <1>6, <1>7, <1>10, <2>1, <2>2, <2>3, ZenonT(60)
<1>14. Tables(table', allocator', exited')
  <2>1. /\ table \in Seq(Allocators) /\ Len(table) <= MaxAllocators
        /\ \A i \in 1 .. Len(table) : table[i] \in DOMAIN allocator
        /\ \A i, j \in 1 .. Len(table) :
              allocator[table[i]].size = allocator[table[j]].size => i = j
        /\ Len(table) < MaxAllocators /\ ~exited
              => \A x \in DOMAIN allocator : \E i \in 1 .. Len(table) : table[i] = x
    BY <1>3, ZenonT(60) DEF Tables
  <2>2. \A i \in 1 .. Len(table) : allocator'[table[i]].size = allocator[table[i]].size
    BY <1>9, <2>1, ZenonT(60)
  <2>3. \A i, j \in 1 .. Len(table) :
           allocator'[table[i]].size = allocator'[table[j]].size => i = j
    BY <2>1, <2>2, ZenonT(60)
  <2>4. Tables(table, allocator', exited)
    BY <1>9, <2>1, <2>3, ZenonT(60) DEF Tables
  <2> QED BY <1>2, <2>4, ZenonT(60)
<1>15. PICK st2 : Heap(st2, allocator', mem', InHand(clients', call'))
  BY <1>9, <1>13, Zenon
<1>16. Core(st2, table', allocator', mem', clients', call', exited')
  BY <1>2, <1>3, <1>9, <1>12, <1>13, <1>14, <1>15, ZenonT(60) DEF Core
<1> QED BY <1>16, Zenon DEF IInv

LEMMA DestroyInv ==
    ASSUME IInv, xalloc_destroy
    PROVE  IInv'
<1>1. PICK st : Core(st, table, allocator, mem, clients, call, exited)
  BY Zenon DEF IInv
<1> DEFINE U == InHand(clients, call)
           G == Range(table)
           F == UNION {FreeBlocks(allocator[a]) : a \in Range(table)}
<1>2. /\ ~exited /\ InCall = {} /\ mem' = Without(mem, F) /\ allocator' = Without(allocator, G)
      /\ table' = <<>> /\ exited' = TRUE /\ clients' = clients /\ call' = call
  BY Zenon DEF xalloc_destroy
<1>3. /\ Heap(st, allocator, mem, U) /\ Hands(mem, clients, call)
      /\ Tables(table, allocator, exited)
  BY <1>1, Zenon DEF Core
<1>4. G \subseteq DOMAIN allocator
  <2>1. DOMAIN table = 1 .. Len(table)
    BY <1>3 DEF Tables
  <2> QED BY <1>3, <2>1, SMTT(60) DEF Tables, Range
<1> HIDE DEF U
<1>5. \A b : b \in F <=> \E a \in G : \E i \in 1 .. Depth(allocator[a]) : st[a][i] = b
  <2>1. \A a \in G : \A b : b \in FreeBlocks(allocator[a])
                             <=> \E i \in 1 .. Depth(allocator[a]) : st[a][i] = b
    <3> HIDE DEF G
    <3>1. \A a \in G : FreeAsIn(st, a)
      BY <1>3, <1>4, FreeBlocksOfHeap, ZenonT(60)
    <3> QED BY <3>1, ZenonT(60) DEF FreeAsIn
  <2>2. \A b : b \in F <=> \E a \in G : b \in FreeBlocks(allocator[a])
    BY Zenon
  <2> HIDE DEF F, G
  <2> QED BY <2>1, <2>2, ZenonT(60)
<1> HIDE DEF F, G
<1>6. Heap(st, allocator', mem', U)
  BY <1>2, <1>3, <1>4, <1>5, DestroyedHeap, ZenonT(60)
<1>7. \A t \in Threads : call[t] = Idle
  BY <1>2, Zenon DEF InCall
<1>8. \A x \in DOMAIN clients : mem'[x] = mem[x]
  <2>1. \A x \in DOMAIN clients : x \in U /\ x \in DOMAIN mem'
    BY <1>6, Zenon DEF InHand, Heap, U
  <2> QED BY <1>2, <2>1, Zenon DEF Without
<1>9. Hands(mem', clients', call')
  <2>1. \A x \in DOMAIN clients : clients[x] \in UseRecord /\ Fits(clients[x], mem'[x])
    BY <1>3, <1>8, Zenon DEF Hands
  <2>2. \A t \in Threads : \A x \in BusyWith(call[t]) : mem'[x] = mem[x] /\ x \notin DOMAIN clients
    BY <1>7, BusyWithCall, Zenon
  <2> QED BY <1>2, <1>3, <2>1, <2>2, HandsKept, ZenonT(60)
<1>10. Tables(table', allocator', exited')
  <2>1. <<>> \in Seq(Allocators) /\ Len(<<>>) = 0 /\ 0 <= MaxAllocators /\ 1 .. 0 = {}
    BY SizesAssumption
  <2> QED BY <1>2, <2>1, Zenon DEF Tables
<1>11. Core(st, table', allocator', mem', clients', call', exited')
  BY <1>2, <1>6, <1>7, <1>9, <1>10, ZenonT(60) DEF Core, U
<1> QED BY <1>11, Zenon DEF IInv

LEMMA InitInv == Init => IInv
<1> SUFFICES ASSUME Init PROVE IInv
  BY Zenon
<1>1. /\ table = <<>> /\ allocator = <<>> /\ mem = <<>> /\ clients = <<>>
      /\ call = [t \in Threads |-> Idle] /\ exited = FALSE
  BY Zenon DEF Init
<1>2. DOMAIN allocator = {} /\ DOMAIN mem = {} /\ DOMAIN clients = {} /\ \A t \in Threads : call[t] = Idle
  BY <1>1
<1>3. InHand(clients, call) = {}
  BY <1>2, BusyWithCall, Zenon DEF InHand
<1>4. Heap(<<>>, allocator, mem, {})
  BY <1>2, FS_EmptySet, Zenon DEF Heap
<1>5. Out(allocator, mem, {})
  BY <1>2, Zenon DEF Out
<1>6. Hands(mem, clients, call)
  <2>1. CallOK(Idle, mem)
    BY BusyWithCall, Zenon DEF CallOK, Calls
  <2> QED BY <1>1, <1>2, <2>1, BusyWithCall, Zenon DEF Hands
<1>7. Tables(table, allocator, exited)
  <2>1. <<>> \in Seq(Allocators) /\ Len(<<>>) = 0 /\ 0 <= MaxAllocators /\ 1 .. 0 = {}
    BY SizesAssumption
  <2> QED BY <1>1, <1>2, <2>1, Zenon DEF Tables
<1>8. Core(<<>>, table, allocator, mem, clients, call, exited)
  BY <1>1, <1>3, <1>4, <1>5, <1>6, <1>7, ZenonT(60) DEF Core
<1> QED BY <1>8, Zenon DEF IInv

LEMMA StepInv == IInv /\ [Next]_vars => IInv'
<1> SUFFICES ASSUME IInv, [Next]_vars PROVE IInv'
  BY Zenon
<1>1. ASSUME NEW t \in Threads, NEW size \in Sizes, Malloc(t, size) PROVE IInv'
  BY <1>1, MallocInv, Zenon
<1>2. ASSUME NEW b \in DOMAIN clients, NEW v \in Contents, Write(b, v) PROVE IInv'
  BY <1>2, WriteInv, Zenon
<1>3. ASSUME NEW t \in Threads, NEW b \in DOMAIN clients, Free(t, b) PROVE IInv'
  BY <1>3, FreeInv, Zenon
<1>4. ASSUME NEW t \in Threads, NEW b \in DOMAIN clients, NEW size \in Sizes, Realloc(t, b, size)
      PROVE  IInv'
  BY <1>4, ReallocInv, Zenon
<1>5. ASSUME NEW t \in Threads, Copy(t) PROVE IInv'
  BY <1>5, CopyInv, Zenon
<1>6. ASSUME NEW t \in Threads, Deallocate(t) PROVE IInv'
  BY <1>6, DeallocateInv, Zenon
<1>7. CASE xalloc_destroy
  BY <1>7, DestroyInv, Zenon
<1>8. CASE UNCHANGED vars
  BY <1>8, Zenon DEF vars, IInv
<1> QED BY <1>1, <1>2, <1>3, <1>4, <1>5, <1>6, <1>7, <1>8, ZenonT(60) DEF Next

LEMMA AlwaysIInv == Spec => []IInv
BY InitInv, StepInv, PTL DEF Spec

-----------------------------------------------------------------------------
(* What the invariant gives.                                               *)

LEMMA UsedIsInHand == Used = InHand(clients, call) /\ \A t : Busy(t) = BusyWith(call[t])
BY Zenon DEF Used, Busy, InHand, BusyWith

\* Whatever the threads do between xfree's read of a block and its mutex, a
\* block is on one free list, once, or in one hand, and every list ends.
THEOREM BlocksAlwaysInOnePlace == Spec => []BlockInOnePlace
<1>1. IInv => BlockInOnePlace
  <2> SUFFICES ASSUME IInv PROVE BlockInOnePlace
    BY Zenon
  <2>1. PICK st : Core(st, table, allocator, mem, clients, call, exited)
    BY Zenon DEF IInv
  <2> DEFINE U == InHand(clients, call)
  <2>2. Heap(st, allocator, mem, U) /\ Hands(mem, clients, call) /\ Used = U
    BY <2>1, UsedIsInHand, ZenonT(60) DEF Core
  <2> HIDE DEF U
  <2>3. ASSUME NEW a \in DOMAIN allocator
        PROVE  /\ \A b : b \in FreeBlocks(allocator[a])
                           <=> \E i \in 1 .. Depth(allocator[a]) : st[a][i] = b
               /\ FreeList(allocator[a])[Cardinality(DOMAIN mem)] = Null
    <3>1. FreeAsIn(st, a)
      BY <2>2, FreeBlocksOfHeap, ZenonT(60)
    <3> QED BY <3>1, ZenonT(60) DEF FreeAsIn
  <2>4. ASSUME NEW a \in DOMAIN allocator PROVE FreeBlocks(allocator[a]) \subseteq DOMAIN mem \ Used
    <3>1. \A i \in 1 .. Depth(allocator[a]) : st[a][i] \in DOMAIN mem /\ st[a][i] \notin U
      <4>1. FreeAsIn(st, a)
        BY <2>2, FreeBlocksOfHeap, ZenonT(60)
      <4>2. \A i \in 1 .. Depth(allocator[a]) : st[a][i] \notin U
        BY <2>2, ZenonT(60) DEF Heap
      <4> QED BY <4>1, <4>2, ZenonT(60) DEF FreeAsIn
    <3> QED BY <2>2, <2>3, <3>1, ZenonT(60)
  <2>5. ASSUME NEW a \in DOMAIN allocator, NEW c \in DOMAIN allocator \ {a}
        PROVE  FreeBlocks(allocator[a]) \cap FreeBlocks(allocator[c]) = {}
    <3>1. \A i \in 1 .. Depth(allocator[a]), j \in 1 .. Depth(allocator[c]) : st[a][i] # st[c][j]
      BY <2>2, Zenon DEF Heap
    <3> QED BY <2>3, <3>1
  <2>6. \A t \in Threads : /\ Busy(t) \cap DOMAIN clients = {}
                           /\ \A u \in Threads \ {t} : Busy(t) \cap Busy(u) = {}
    BY <2>2, UsedIsInHand, ZenonT(60) DEF Hands
  <2> QED BY <2>3, <2>4, <2>5, <2>6, ZenonT(60) DEF BlockInOnePlace
<1> QED BY <1>1, AlwaysIInv, PTL

\* Blocks that are out name an allocator of their size, are large enough and
\* hold what the program wrote, across xrealloc.
THEOREM UsedBlocksAlwaysHold == Spec => []UsedBlocksHold
<1>1. IInv => UsedBlocksHold
  <2> SUFFICES ASSUME IInv PROVE UsedBlocksHold
    BY Zenon
  <2>1. PICK st : Core(st, table, allocator, mem, clients, call, exited)
    BY Zenon DEF IInv
  <2>2. ~exited => \A b \in Used : /\ mem[b].word \in DOMAIN allocator
                                   /\ allocator[mem[b].word].size = mem[b].size
    BY <2>1, UsedIsInHand, Zenon DEF Core, Out
  <2>3. \A b \in DOMAIN clients : Fits(clients[b], mem[b])
    BY <2>1, ZenonT(60) DEF Core, Hands
  <2> QED BY <2>2, <2>3, ZenonT(60) DEF UsedBlocksHold, Fits
<1> QED BY <1>1, AlwaysIInv, PTL

\* GetBlocksInUse and GetBlockCount are exact, and no block is taken from the
\* heap while a freed one of its size is to be had.
THEOREM CountersAlwaysExact == Spec => []CountersExact
<1>1. IInv => CountersExact
  <2> SUFFICES ASSUME IInv, ~exited, NEW a \in DOMAIN allocator
               PROVE  /\ allocator[a].inUse = Cardinality({b \in Used : mem[b].word = a})
                      /\ allocator[a].blockCnt = allocator[a].inUse + Cardinality(FreeBlocks(allocator[a]))
                      /\ allocator[a].blockCnt = allocator[a].peak
    BY Zenon DEF CountersExact
  <2>1. PICK st : Core(st, table, allocator, mem, clients, call, exited)
    BY Zenon DEF IInv
  <2>2. /\ Heap(st, allocator, mem, Used) /\ Out(allocator, mem, Used)
    BY <2>1, UsedIsInHand, Zenon DEF Core
  <2>3. allocator[a].inUse = Cardinality({b \in Used : mem[b].word = a})
    BY <2>2, Zenon DEF Out, Owned
  <2>4. Cardinality(FreeBlocks(allocator[a])) = Depth(allocator[a])
    <3>1. FreeAsIn(st, a)
      BY <2>2, FreeBlocksOfHeap, ZenonT(60)
    <3> QED BY <3>1, ZenonT(60) DEF FreeAsIn
  <2>5. /\ allocator[a].blockCnt \in Nat /\ allocator[a].inUse \in Nat
        /\ allocator[a].blockCnt = allocator[a].peak
    BY <2>2, Zenon DEF Heap, AllocatorRecord
  <2>6. allocator[a].blockCnt = allocator[a].inUse + Depth(allocator[a])
    BY <2>5, SMTT(60) DEF Depth
  <2> QED BY <2>3, <2>4, <2>5, <2>6, ZenonT(60)
<1> QED BY <1>1, AlwaysIInv, PTL

\* The table holds one allocator per block size and, while it has room, all of
\* them.
THEOREM OneAllocatorPerSizeAlways == Spec => []OneAllocatorPerSize
<1>1. IInv => OneAllocatorPerSize
  <2> SUFFICES ASSUME IInv PROVE OneAllocatorPerSize
    BY Zenon
  <2>1. Tables(table, allocator, exited)
    BY Zenon DEF IInv, Core
  <2>2. DOMAIN table = 1 .. Len(table)
    BY <2>1 DEF Tables
  <2>3. ASSUME Len(table) < MaxAllocators, ~exited PROVE DOMAIN allocator = Range(table)
    <3>1. Range(table) = {table[i] : i \in 1 .. Len(table)}
      BY <2>2, Zenon DEF Range
    <3>2. /\ \A a \in DOMAIN allocator : \E i \in 1 .. Len(table) : table[i] = a
          /\ \A i \in 1 .. Len(table) : table[i] \in DOMAIN allocator
      BY <2>1, <2>3, ZenonT(60) DEF Tables
    <3> QED BY <3>1, <3>2, Zenon
  <2> QED BY <2>1, <2>3, Zenon DEF Tables, OneAllocatorPerSize
<1> QED BY <1>1, AlwaysIInv, PTL

\* xalloc_destroy leaves what the program did not free, and the free lists of
\* allocators that found no room in the table.
THEOREM DestroyLeavesTheUnfreed == Spec => []DestroyLeavesUnfreed
<1>1. IInv => DestroyLeavesUnfreed
  <2> SUFFICES ASSUME IInv, exited
               PROVE  DOMAIN mem = DOMAIN clients
                         \cup UNION {FreeBlocks(allocator[a]) : a \in DOMAIN allocator}
    BY Zenon DEF DestroyLeavesUnfreed
  <2>1. PICK st : Core(st, table, allocator, mem, clients, call, exited)
    BY Zenon DEF IInv
  <2>2. InHand(clients, call) = DOMAIN clients
    BY <2>1, BusyWithCall, ZenonT(60) DEF Core, InHand
  <2>3. Heap(st, allocator, mem, DOMAIN clients)
    BY <2>1, <2>2, Zenon DEF Core
  <2>4. ASSUME NEW a \in DOMAIN allocator
        PROVE  \A b : b \in FreeBlocks(allocator[a])
                         <=> \E i \in 1 .. Depth(allocator[a]) : st[a][i] = b
    <3>1. FreeAsIn(st, a)
      BY <2>3, FreeBlocksOfHeap, ZenonT(60)
    <3> QED BY <3>1, ZenonT(60) DEF FreeAsIn
  <2>5. \A a \in DOMAIN allocator : \A i \in 1 .. Depth(allocator[a]) : st[a][i] \in DOMAIN mem
    <3>1. \A a \in DOMAIN allocator : FreeAsIn(st, a)
      BY <2>3, FreeBlocksOfHeap, ZenonT(60)
    <3> QED BY <3>1, ZenonT(60) DEF FreeAsIn
  <2>6. DOMAIN clients \subseteq DOMAIN mem
    BY <2>3, Zenon DEF Heap
  <2>7. \A b \in DOMAIN mem \ DOMAIN clients :
          \E a \in DOMAIN allocator : \E i \in 1 .. Depth(allocator[a]) : st[a][i] = b
    BY <2>3, Zenon DEF Heap
  <2> QED BY <2>4, <2>5, <2>6, <2>7, SMTT(60)
<1> QED BY <1>1, AlwaysIInv, PTL
=============================================================================
