--------------------------- MODULE BlockAllocator ---------------------------
(***************************************************************************)
(* The fixed-block allocator (Allocator) and the malloc-like interface on  *)
(* top of it (xallocator): a table of allocators, one per block size, made *)
(* on demand, each with a free list that is threaded through the blocks.   *)
(*                                                                         *)
(* The first word of a block is shared: in a free block it is the link of  *)
(* the free list, in a block in use it names the allocator to return it to.*)
(* xmalloc holds the mutex to its end; xfree reads that word before it     *)
(* takes the mutex; xrealloc is an xmalloc, a copy and an xfree.           *)
(***************************************************************************)
EXTENDS Integers, FiniteSets, Sequences, Functions

CONSTANTS
    Threads,
    Blocks,          \* heap addresses of blocks (a bound)
    Allocators,      \* addresses of Allocator objects (a bound)
    Sizes,           \* the sizes clients ask for
    Contents,        \* what clients write
    MaxAllocators,   \* MAX_ALLOCATORS, the length of the table
    Null

Pointer == 8         \* sizeof(Allocator*)

LargestBlock == 1048576    \* a bound on block sizes, 2^20

ASSUME SizesAssumption == /\ \A size \in Sizes : size \in Nat /\ 0 < size /\ size + Pointer <= LargestBlock
                          /\ MaxAllocators \in Nat \ {0}

ASSUME NullAssumption == Null \notin Blocks

VARIABLES
    table,           \* _allocators up to its first null entry
    allocator,       \* the Allocator objects that exist
    mem,             \* the blocks that exist
    clients,         \* blocks the program may use: what it asked for and wrote
    call,            \* the call each thread is in the middle of
    exited           \* xalloc_destroy has run

vars == <<table, allocator, mem, clients, call, exited>>

-----------------------------------------------------------------------------
(* Size classes.                                                           *)

\* Filling in the bits below the highest bit of k - 1 and adding one (for
\* blocks of up to 2^20 bytes).
nexthigher(k) == CHOOSE p \in {2 ^ i : i \in 0 .. 20} : p >= k /\ p < 2 * k

\* Mutant: the room for the allocator's address is forgotten.
BlockSizeWithoutHeader(size) == nexthigher(size)

BlockSize(size) ==
    LET n == size + Pointer
    IN  IF n > 256 /\ n <= 396 THEN 396
        ELSE IF n > 512 /\ n <= 768 THEN 768
        ELSE nexthigher(n)

-----------------------------------------------------------------------------
(* The state of a thread: at rest, in xrealloc before the copy, or in xfree*)
(* with the allocator it has read and not yet the mutex.                   *)

Idle == [at |-> "idle"]

Reallocating(old, use, new, size) ==
    [at |-> "copy", old |-> old, use |-> use, new |-> new, size |-> size]

\* `result' is what the program may use when the call returns.
Freeing(b, a, result) == [at |-> "free", old |-> b, owner |-> a, result |-> result]

InCall == {t \in Threads : call[t] # Idle}

Put(f, x, v) == [y \in DOMAIN f \cup {x} |-> IF y = x THEN v ELSE f[y]]

Overlay(f, g) ==
    [x \in DOMAIN f \cup DOMAIN g |-> IF x \in DOMAIN f THEN f[x] ELSE g[x]]

Without(f, S) == [x \in DOMAIN f \ S |-> f[x]]

Init ==
    /\ table = <<>>
    /\ allocator = <<>>
    /\ mem = <<>>
    /\ clients = <<>>
    /\ call = [t \in Threads |-> Idle]
    /\ exited = FALSE

\* Mutant: any allocator with large enough blocks.
find_allocator_larger(size) ==
    {a \in {table[i] : i \in 1 .. Len(table)} : allocator[a].size > size}

find_allocator(size) == {a \in {table[i] : i \in 1 .. Len(table)} : allocator[a].size = size}

NewAllocator(size) == [size |-> size, head |-> Null, blockCnt |-> 0, inUse |-> 0, peak |-> 0]

\* Mutant: the loop does not stop at the end of the table.
insert_allocator_past(a) == Append(table, a)

\* The table is full: the assertion is compiled out, and the new allocator is
\* in nobody's table.
insert_allocator(a) == IF Len(table) < MaxAllocators THEN Append(table, a) ELSE table

Max2(x, y) == IF x > y THEN x ELSE y

\* Mutant: the block that is handed out stays at the head of the list.
PopKeepsHead(al) == al

Pop(al) == IF al.head # Null THEN [al EXCEPT !.head = mem[al.head].word] ELSE al

Counted(al, fresh) ==
    [al EXCEPT !.blockCnt = @ + (IF fresh THEN 1 ELSE 0), !.inUse = @ + 1,
               !.peak = Max2(@, al.inUse + 1)]

\* The block b is the head of the free list, else a new one from the heap;
\* its first word becomes a.
Allocate(a, al, b) ==
    /\ IF al.head # Null THEN b = al.head ELSE b \in Blocks \ DOMAIN mem
    /\ allocator' = Put(allocator, a, Counted(Pop(al), al.head = Null))
    /\ mem' = Put(mem, b, [size |-> al.size, word |-> a,
                           data |-> IF b \in DOMAIN mem THEN mem[b].data ELSE Null])

\* xmalloc: everything under the mutex.
xmalloc(size, b) ==
    \/ \E a \in find_allocator(BlockSize(size)) :
          Allocate(a, allocator[a], b) /\ UNCHANGED table
    \/ /\ find_allocator(BlockSize(size)) = {}
       /\ \E a \in Allocators \ DOMAIN allocator :
             /\ Allocate(a, NewAllocator(BlockSize(size)), b)
             /\ table' = insert_allocator(a)

-----------------------------------------------------------------------------
(* The calls.  A program uses a pointer it was given until it passes it to *)
(* xfree or xrealloc; threads may hand pointers to each other.             *)

Malloc(t, size) ==
    /\ ~exited /\ call[t] = Idle
    /\ \E b \in Blocks :
          /\ xmalloc(size, b)
          /\ clients' = Put(clients, b, [size |-> size, data |-> Null])
    /\ UNCHANGED <<call, exited>>

\* The program writes to its block.
Write(b, v) ==
    /\ ~exited
    /\ clients' = [clients EXCEPT ![b].data = v]
    /\ mem' = [mem EXCEPT ![b].data = v]
    /\ UNCHANGED <<table, allocator, call, exited>>

\* xfree up to the mutex: the allocator is read from the block.
Free(t, b) ==
    /\ ~exited /\ call[t] = Idle
    /\ call' = [call EXCEPT ![t] = Freeing(b, mem[b].word, <<>>)]
    /\ clients' = Without(clients, {b})
    /\ UNCHANGED <<table, allocator, mem, exited>>

\* Mutant: the head is not moved to the block that was linked in front of it.
PushLosesHead(a, b) ==
    /\ mem' = [mem EXCEPT ![b].word = allocator[a].head]
    /\ allocator' = [allocator EXCEPT ![a].inUse = @ - 1]

Push(a, b) ==
    /\ mem' = [mem EXCEPT ![b].word = allocator[a].head]
    /\ allocator' = [allocator EXCEPT ![a].head = b, ![a].inUse = @ - 1]

Deallocate(t) ==
    /\ call[t].at = "free"
    /\ Push(call[t].owner, call[t].old)
    /\ clients' = Overlay(call[t].result, clients)
    /\ call' = [call EXCEPT ![t] = Idle]
    /\ UNCHANGED <<table, exited>>

\* xrealloc of a block for a size that is not zero.  Of the null pointer it is
\* xmalloc, which is Malloc, and for size zero it is xfree, which is Free.
Realloc(t, b, size) ==
    /\ ~exited /\ call[t] = Idle
    /\ \E new \in Blocks :
          /\ xmalloc(size, new)
          /\ call' = [call EXCEPT ![t] = Reallocating(b, clients[b], new, size)]
    /\ clients' = Without(clients, {b})
    /\ UNCHANGED exited

\* The copy, of as many bytes as the smaller size has, and xfree of the old
\* block up to the mutex.  `data' is what the program wrote to the first bytes,
\* which are always among them.
Copy(t) ==
    /\ call[t].at = "copy"
    /\ LET old == call[t].old
           new == call[t].new
           use == [size |-> call[t].size, data |-> call[t].use.data]
       IN  /\ mem' = [mem EXCEPT ![new].data = mem[old].data]
           /\ call' = [call EXCEPT ![t] = Freeing(old, mem[old].word, Put(<<>>, new, use))]
    /\ UNCHANGED <<table, allocator, clients, exited>>

\* The blocks on the free list of al: at most as many links as blocks.
FreeList(al) ==
    LET chain[n \in 0 .. Cardinality(DOMAIN mem)] ==
            IF n = 0 THEN al.head
            ELSE IF chain[n - 1] \in DOMAIN mem THEN mem[chain[n - 1]].word
            ELSE Null
    IN  chain

FreeBlocks(al) == Range(FreeList(al)) \ {Null}

\* Mutant: the allocators go, their free blocks stay.
DestroyKeepsBlocks ==
    /\ ~exited /\ InCall = {}
    /\ allocator' = Without(allocator, Range(table))
    /\ table' = <<>>
    /\ exited' = TRUE
    /\ UNCHANGED <<mem, clients, call>>

\* At exit the allocators of the table are deleted, each with its free list.
xalloc_destroy ==
    /\ ~exited /\ InCall = {}
    /\ mem' = Without(mem, UNION {FreeBlocks(allocator[a]) : a \in Range(table)})
    /\ allocator' = Without(allocator, Range(table))
    /\ table' = <<>>
    /\ exited' = TRUE
    /\ UNCHANGED <<clients, call>>

Next ==
    \/ \E t \in Threads, size \in Sizes : Malloc(t, size)
    \/ \E b \in DOMAIN clients, v \in Contents : Write(b, v)
    \/ \E t \in Threads, b \in DOMAIN clients : Free(t, b)
    \/ \E t \in Threads, b \in DOMAIN clients, size \in Sizes : Realloc(t, b, size)
    \/ \E t \in Threads : Copy(t) \/ Deallocate(t)
    \/ xalloc_destroy

Spec == Init /\ [][Next]_vars

-----------------------------------------------------------------------------
(* Properties.                                                             *)

\* Every record is of its type; pointers point to blocks and allocators.
TypeOK ==
    /\ Len(table) <= MaxAllocators
    /\ DOMAIN allocator \subseteq Allocators /\ Range(table) \subseteq DOMAIN allocator
    /\ DOMAIN mem \subseteq Blocks
    /\ \A a \in DOMAIN allocator :
          allocator[a].head \in DOMAIN mem \cup {Null}
    /\ \A b \in DOMAIN mem : mem[b].word \in DOMAIN mem \cup Allocators \cup {Null}
    /\ DOMAIN clients \subseteq DOMAIN mem
    /\ \A t \in Threads : call[t].at \in {"idle", "copy", "free"}

\* The blocks a call has in hand.
Busy(t) ==
    CASE call[t].at = "copy" -> {call[t].old, call[t].new}
      [] call[t].at = "free" -> {call[t].old} \cup DOMAIN call[t].result
      [] OTHER               -> {}

Used == DOMAIN clients \cup UNION {Busy(t) : t \in Threads}

\* A block is on one free list, once, or in one hand, and the lists end: no
\* word of a block in use is ever taken for a link (Push and Pop against
\* set_block_allocator), whatever the threads do between xfree and the mutex.
BlockInOnePlace ==
    /\ \A a \in DOMAIN allocator :
          /\ FreeBlocks(allocator[a]) \subseteq DOMAIN mem \ Used
          /\ FreeList(allocator[a])[Cardinality(DOMAIN mem)] = Null
          /\ \A c \in DOMAIN allocator \ {a} :
                FreeBlocks(allocator[a]) \cap FreeBlocks(allocator[c]) = {}
    /\ \A t \in Threads :
          /\ Busy(t) \cap DOMAIN clients = {}
          /\ \A u \in Threads \ {t} : Busy(t) \cap Busy(u) = {}

\* A block in use names an allocator of its own block size, is large enough
\* for what was asked for and holds what the program wrote, across xrealloc.
UsedBlocksHold ==
    /\ ~exited => \A b \in Used : /\ mem[b].word \in DOMAIN allocator
                                 /\ allocator[mem[b].word].size = mem[b].size
    /\ \A b \in DOMAIN clients :
          /\ clients[b].size + Pointer <= mem[b].size
          /\ clients[b].data \in {Null, mem[b].data}

\* GetBlocksInUse counts the blocks that are out, GetBlockCount the blocks ever
\* taken from the heap, and that is no more than were ever out at once: freed
\* blocks are always used again first.
CountersExact ==
    ~exited => \A a \in DOMAIN allocator :
        /\ allocator[a].inUse = Cardinality({b \in Used : mem[b].word = a})
        /\ allocator[a].blockCnt = allocator[a].inUse + Cardinality(FreeBlocks(allocator[a]))
        /\ allocator[a].blockCnt = allocator[a].peak

\* find_allocator and insert_allocator keep one allocator per block size, and
\* as long as the table has room every allocator is in it; a full table never
\* grows.
OneAllocatorPerSize ==
    /\ Len(table) <= MaxAllocators
    /\ \A i, j \in 1 .. Len(table) :
          allocator[table[i]].size = allocator[table[j]].size => i = j
    /\ Len(table) < MaxAllocators /\ ~exited => DOMAIN allocator = Range(table)

\* What xalloc_destroy leaves behind is what the program did not free, and the
\* allocators that found no room in the table.
DestroyLeavesUnfreed ==
    exited => DOMAIN mem = DOMAIN clients
                             \cup UNION {FreeBlocks(allocator[a]) : a \in DOMAIN allocator}

=============================================================================
