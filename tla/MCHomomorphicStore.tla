------------------------- MODULE MCHomomorphicStore -------------------------
(***************************************************************************)
(* TLC instance of HomomorphicStore: the fifth cyclotomic ring modulo 11   *)
(* in evaluation format.                                                   *)
(***************************************************************************)
EXTENDS HomomorphicStore, TLC

MCModulus == 11
MCScalar == 0..MCModulus - 1
MCAdd(x, y) == (x + y) % MCModulus
MCMul(x, y) == (x * y) % MCModulus
MCNeg(x) == (MCModulus - x) % MCModulus

MCOrder == 5
MCSlot == 1..MCOrder - 1
MCGalois == MCSlot
MCPerm(i, j) == (i * j) % MCOrder
MCGInverse(i) == CHOOSE k \in MCGalois : (i * k) % MCOrder = 1

\* Elements without structure: no two slots or samples are alike.
MCElement(n) == [j \in MCSlot |-> (n * n * j + j * j + 3 * n) % MCModulus]

MCTag == {"alice", "bob"}
MCSecret == [t \in MCTag |-> IF t = "alice" THEN MCElement(1) ELSE MCElement(2)]
MCPubA == MCElement(3)
MCEvalA == MCElement(4)
MCBlind == MCElement(5)
MCMessage == {MCElement(6)}
MCIndex == {2}

CONSTANT
    MaxCalls           \* bound: operations on ciphertexts in a behaviour

VARIABLES
    calls,             \* how many there have been
    messages           \* Messages, kept so that it is computed once in a state

MCInit == Init /\ calls = 0 /\ messages = Messages

\* Keys come first and are Alice's, for an operation that lacks its key changes
\* nothing; with some of the keys missing, behaviours are shorter.
Keyless == evalMultKeys["alice"] = <<>> \/ \E i \in Index : evalAutoKeys["alice"][i] = NoKey

\* Encryption is left to the first two calls.
Fresh ==
    {EncryptPlain(EncryptZeroPublic(PublicKey[t], Blind), m) : t \in Tag, m \in Message}
        \cup {EncryptPlain(EncryptZeroPrivate(Secret[t], Blind), m) : t \in Tag, m \in Message}

MCNext ==
    /\ calls < IF Keyless THEN MaxCalls - 2 ELSE MaxCalls
    /\ Next
    /\ messages' = Messages'
    /\ IF ct' = ct /\ digits' = digits
       THEN /\ calls = 0 /\ calls' = calls
            /\ evalMultKeys'["bob"] = <<>> /\ \A i \in Index : evalAutoKeys'["bob"][i] = NoKey
       ELSE /\ calls' = calls + 1
            /\ calls >= 2 => \A n \in Name : ct'[n] = ct[n] \/ ct'[n].cv \notin Fresh

MCNames == Permutations(Name)

MCSpec == MCInit /\ [][MCNext]_<<vars, calls, messages>>

Plain == INSTANCE PlaintextStore WITH store <- messages

\* A program on ciphertexts computes what the same program computes on
\* messages: whatever the order of operations, whether products are
\* relinearised at once, later or together, whether a variable is overwritten
\* by its own result, decryption with the key the tag names gives the message.
Implements == Plain!Spec
=============================================================================
