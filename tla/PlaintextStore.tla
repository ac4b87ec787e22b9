--------------------------- MODULE PlaintextStore ---------------------------
(***************************************************************************)
(* What a cryptocontext promises its user: variables hold messages, each   *)
(* under the key of an owner, and every homomorphic operation computes on  *)
(* the messages.  Operands of one operation have the same owner, and only  *)
(* re-encryption changes the owner.                                        *)
(***************************************************************************)
EXTENDS RLWE

CONSTANTS
    Name,              \* the variables of the program
    Tag,               \* the owners: key tags
    Message,           \* what is encrypted, or used as a plaintext operand
    Index              \* the automorphisms that are used

VARIABLE store         \* store[x]: the owner and the message, or no tag yet

Empty == [tag |-> "none", m |-> Zero]

Held == {x \in Name : store[x] # Empty}

Put(x, t, m) == store' = [store EXCEPT ![x] = [tag |-> t, m |-> m]]

Init == store = [x \in Name |-> Empty]

Encrypt(x, t, m) == Put(x, t, m)

Unary(x, y) ==
    \/ Put(x, store[y].tag, store[y].m)
    \/ Put(x, store[y].tag, Negate(store[y].m))
    \/ Put(x, store[y].tag, store[y].m \otimes store[y].m)
    \/ \E i \in Index : Put(x, store[y].tag, AutomorphismTransform(store[y].m, i))

WithPlaintext(x, y, p) ==
    \/ Put(x, store[y].tag, store[y].m \oplus p)
    \/ Put(x, store[y].tag, store[y].m \ominus p)
    \/ Put(x, store[y].tag, p \ominus store[y].m)
    \/ Put(x, store[y].tag, store[y].m \otimes p)

Binary(x, y, z) ==
    /\ store[y].tag = store[z].tag
    /\ \/ Put(x, store[y].tag, store[y].m \oplus store[z].m)
       \/ Put(x, store[y].tag, store[y].m \ominus store[z].m)
       \/ Put(x, store[y].tag, store[y].m \otimes store[z].m)

ReEncrypt(x, y, t) == Put(x, t, store[y].m)

Next ==
    \E x \in Name :
        \/ \E t \in Tag, m \in Message : Encrypt(x, t, m)
        \/ \E y \in Held :
               \/ Unary(x, y)
               \/ \E p \in Message : WithPlaintext(x, y, p)
               \/ \E z \in Held : Binary(x, y, z)
               \/ \E t \in Tag : ReEncrypt(x, y, t)

Spec == Init /\ [][Next]_store
=============================================================================
