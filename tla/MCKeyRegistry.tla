--------------------------- MODULE MCKeyRegistry ---------------------------
(* Small instances of KeyRegistry. *)
EXTENDS KeyRegistry, FiniteSets, TLC

CONSTANTS c1, c2, c3, p1, p2, t1, t2

\* Two parameter sets, and a second object that the first could get.
MCParamsOf == c1 :> p1 @@ c2 :> p2 @@ c3 :> p1

\* Two objects of the same parameters.
MCSameParams == [c \in Contexts |-> p1]

\* The batch size is 1 in p2.
MCSumIndices == [p \in Params |-> IF p = p1 THEN {1} ELSE {}]

Symmetric == Permutations(Tags)

\* Bounds: two context objects and two secret keys in a behaviour; the mult
\* registry, which shares no map with the others, is filled while they are
\* empty; a stream holds keys, and waits while the program holds no map and no
\* other registry does.
Bounds ==
  /\ Cardinality(allocated) <= 2
  /\ Cardinality(privateKeys) <= 2
  /\ registry["mult"] # <<>> => registry["sum"] = <<>> /\ registry["automorphism"] = <<>>
  /\ stream # NoStream => /\ held = {}
                          /\ stream.entries # <<>>
                          /\ \A kind \in Kinds \ {stream.kind} : registry[kind] = <<>>
=============================================================================
