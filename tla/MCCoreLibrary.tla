--------------------------- MODULE MCCoreLibrary ---------------------------
(***************************************************************************)
(* Small instances of the parts of the core library that stand by          *)
(* themselves: the block allocator, and programs that compute with one     *)
(* number of each of the two integer types.  A behaviour exercises one.    *)
(***************************************************************************)
EXTENDS BlockAllocator, TLC

CONSTANTS LimbBits, MaxLimbs, BigOperand, BigModulus, Shift, MaxExponent, MaxBase,
          WordBits, WordOperand, WordModulus

VARIABLES part,      \* which part is exercised
          reg,       \* the number
          ideal      \* the natural number that reg stands for

Big == INSTANCE BigInteger WITH Operand <- BigOperand, Modulus <- BigModulus,
                                ShiftPastEnd <- FALSE, acc <- reg, nat <- ideal

Native == INSTANCE NativeInteger WITH Operand <- WordOperand, Modulus <- WordModulus,
                                      AnyDividend <- FALSE, acc <- reg, nat <- ideal

Symmetric == Permutations(Threads) \cup Permutations(Blocks) \cup Permutations(Allocators)

MCInit ==
    /\ Init
    /\ \/ part = "allocator" /\ reg = 0 /\ ideal = 0
       \/ part = "ubint" /\ Big!Init
       \/ part = "native" /\ Native!Init

MCNext ==
    \/ part = "allocator" /\ Next /\ UNCHANGED <<part, reg, ideal>>
    \/ part = "ubint" /\ Big!Next /\ UNCHANGED <<vars, part>>
    \/ part = "native" /\ Native!Next /\ UNCHANGED <<vars, part>>

MCSpec == MCInit /\ [][MCNext]_<<vars, part, reg, ideal>>

\* BigInteger!Exact: the operations of ubint compute what those on natural
\* numbers do, and leave its limbs and its bit count normalized.
Exact == part = "ubint" => Big!Exact

\* NativeInteger!WordExact: the operations of NativeIntegerT compute what those
\* on natural numbers do.
WordExact == part = "native" => Native!WordExact
=============================================================================
