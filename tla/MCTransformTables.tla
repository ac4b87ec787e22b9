------------------------- MODULE MCTransformTables --------------------------
(***************************************************************************)
(* Small instances of what the transforms rest on.  A behaviour exercises  *)
(* one part: number theory; elements of a power-of-two ring; the           *)
(* transforms of rings of other orders, two of which share the modulus of  *)
(* their convolutions; or the tables of a CKKS context and a BGV context   *)
(* of a smaller ring that share a modulus.                                 *)
(***************************************************************************)
EXTENDS TransformTables, ArbTransform, Poly

VARIABLE part      \* which part is exercised

MCOrder       == [c \in Contexts |-> IF c = "ckks" THEN 32 ELSE 16]
MCModuli      == [c \in Contexts |-> <<97>>]
MCPlainModuli == [c \in Contexts |-> IF c = "ckks" THEN {} ELSE {17, 15}]
MCSlots       == [c \in Contexts |-> IF c = "ckks" THEN {4, 8} ELSE {}]

MCNumbers == 0..45 \cup {61, 193, 241}

\* The last of them are near the largest word.
MCStarts == MCNumbers \cup {4033, 4049, 4051, 4057, 4081, 4093}

Ring(m, q, big) == [m |-> m, q |-> q, big |-> big]

MCRings == {Ring(5, 11, 13633), Ring(6, 13, 13633), Ring(15, 31, 54049),
            Ring(15, 61, 54049), Ring(21, 43, 37057)}

FromList(s) == [i \in 0..N - 1 |-> s[i + 1]]

MCElements == {FromList(<<3, 0, 16, 9>>), FromList(<<0, 1, 8, 0>>)}

NoElement == acc = <<>> /\ ideal = <<>> /\ ops = 0

MCInit ==
    /\ ArbInit /\ Init
    /\ \/ part = "element" /\ ElementInit
       \/ part \in {"tables", "numbers", "arbitrary"} /\ NoElement

MCNext ==
    \/ part = "numbers" /\ CallNext /\ UNCHANGED <<part, tables, element, vars>>
    \/ part = "element" /\ ElementNext /\ UNCHANGED <<part, answers, tables, vars>>
    \/ part = "arbitrary" /\ ArbNext /\ UNCHANGED <<part, element, vars>>
    \/ part = "tables" /\ Next /\ UNCHANGED <<part, answers, tables, element>>

MCSpec ==
    /\ MCInit /\ [][MCNext]_<<part, answers, tables, element, vars>>
    /\ Fairness

\* ArbTransform!TransformsRight.
ArbitraryTransformsRight == part = "arbitrary" => TransformsRight

\* Poly!Represents and Poly!DigitsTimesPowers: an element stands for the
\* polynomial that is meant, in either format, and its digits times the powers
\* of the base of another give their product.
ElementRepresents == part = "element" => Represents /\ DigitsTimesPowers
=============================================================================
