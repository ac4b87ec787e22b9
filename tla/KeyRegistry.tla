---------------------------- MODULE KeyRegistry ----------------------------
(***************************************************************************)
(* The evaluation-key registries of CryptoContextImpl and the context      *)
(* factory.  A crypto context keeps no evaluation keys of its own: three   *)
(* static maps, shared by every context of the process, hold them, keyed   *)
(* by the tag of the secret key they belong to:                            *)
(*   "mult"          tag -> vector of relinearisation keys (by value)      *)
(*   "sum"           tag -> shared_ptr to a map index -> key               *)
(*   "automorphism"  tag -> shared_ptr to a map index -> key               *)
(* The maps are heap objects that a caller may hold as well, so a merge    *)
(* made through one pointer shows through the others.  A vector is a map   *)
(* whose indices are its positions: it is never changed in place.          *)
(*                                                                         *)
(* A key records the context object it points to.  Serialisation replaces  *)
(* that pointer by the parameters of the context, and loading looks the    *)
(* parameters up among AllContexts, creating a context when none matches.  *)
(***************************************************************************)
EXTENDS Integers

CONSTANTS Contexts,      \* the CryptoContextImpl objects the process may allocate
          Params,        \* the scheme-and-parameters values
          ParamsOf,      \* the parameters of each object
          Tags,          \* key tags
          Indices,       \* automorphism indices and vector positions
          SumIndices,    \* the indices EvalSum needs, for given parameters: none when the batch size is 1
          RotationLists, \* the index lists the program asks rotation keys for
          HeldIndices,   \* the index sets of the maps a caller makes itself
          Maps,          \* heap addresses
          UsedKinds,     \* the registries the program uses
          Releases,      \* whether the program calls ReleaseAllContexts
          NoStream

Kinds == {"mult", "sum", "automorphism"}

NoneFailed == "none"

ASSUME ContextAssumption == ParamsOf \in [Contexts -> Params]

ASSUME IndexAssumption == /\ Indices \subseteq Nat
                          /\ 0 \in Indices
                          /\ SumIndices \in [Params -> SUBSET Indices]
                          /\ RotationLists \subseteq SUBSET Indices
                          /\ HeldIndices \subseteq SUBSET Indices

ASSUME ProgramAssumption == /\ UsedKinds \subseteq Kinds
                            /\ Releases \in BOOLEAN

VARIABLES allContexts,   \* CryptoContextFactory::AllContexts
          allocated,     \* context objects that exist, in AllContexts or not
          privateKeys,   \* the secret keys the program holds
          registry,      \* registry[kind]: tag -> heap address
          heap,          \* heap address -> (index -> key)
          held,          \* addresses the caller holds
          stream,        \* the last registry written out
          fault          \* the registry in whose calls the first key of an empty map was read

vars == <<allContexts, allocated, privateKeys, registry, heap, held, stream, fault>>

\* `by' tells apart the keys that different calls make for one index.
EvalKey == [tag : Tags, context : Contexts, by : Kinds \cup {"caller"}]

SavedKey == [tag : Tags, params : Params, by : Kinds \cup {"caller"}]

\* f is a std::map from D to R: a function on some of D.
IsMap(f, D, R) == f \in [DOMAIN f -> R] /\ DOMAIN f \subseteq D

Overlay(f, g) ==
  [x \in DOMAIN f \cup DOMAIN g |-> IF x \in DOMAIN f THEN f[x] ELSE g[x]]

Put(f, x, v) == [y \in DOMAIN f \cup {x} |-> IF y = x THEN v ELSE f[y]]

Without(f, S) == [x \in DOMAIN f \ S |-> f[x]]

Image(f) == {f[x] : x \in DOMAIN f}

First(f) == f[CHOOSE x \in DOMAIN f : \A y \in DOMAIN f : x <= y]

----------------------------------------------------------------------------
(* Heap cells live as long as the program or a registry points to them.    *)

Live(reg, hold) == hold \cup UNION {Image(reg[kind]) : kind \in Kinds}

Collected(cells, reg, hold) == [a \in Live(reg, hold) \cap DOMAIN cells |-> cells[a]]

Free(a) == a \in Maps \ DOMAIN heap /\ \A b \in Maps \ DOMAIN heap : a <= b

Store(reg, cells, hold) == /\ registry' = reg
                           /\ held' = hold
                           /\ heap' = Collected(cells, reg, hold)

Entry(kind, tag) == heap[registry[kind][tag]]

----------------------------------------------------------------------------
(* The context factory.                                                    *)

FindContext(p) == {c \in allContexts : ParamsOf[c] = p}

NewContext(p) == {c \in Contexts \ allocated : ParamsOf[c] = p}

\* Mutant: an object of the same parameters is not looked for first.
GetContextCreates(p) == IF NewContext(p) # {} THEN {CHOOSE c \in NewContext(p) : TRUE}
                        ELSE FindContext(p)

\* The object GetContext returns: the one found, else a new one.  Nothing
\* stands here when the bound on Contexts is reached.
GetContext(p) == IF FindContext(p) # {} THEN FindContext(p)
                 ELSE IF NewContext(p) # {} THEN {CHOOSE c \in NewContext(p) : TRUE}
                 ELSE {}

Available(ps) == \A p \in ps : GetContext(p) # {}

ContextFor(p) == CHOOSE c \in GetContext(p) : TRUE

\* GetContext for every member of ps, as a load does object by object.
GetContexts(ps) ==
  LET found == {ContextFor(p) : p \in ps}
  IN  /\ Available(ps)
      /\ allContexts' = allContexts \cup found
      /\ allocated' = allocated \cup found

\* The maps hold values of their types, no registry points to a cell that is
\* gone, and no secret key to a context object that is.
TypeOK ==
  /\ allContexts \subseteq allocated
  /\ allocated \subseteq Contexts
  /\ privateKeys \subseteq [tag : Tags, context : allocated]
  /\ DOMAIN registry = Kinds
  /\ \A kind \in Kinds : IsMap(registry[kind], Tags, Maps)
  /\ DOMAIN heap \subseteq Maps
  /\ \A a \in DOMAIN heap : IsMap(heap[a], Indices, EvalKey)
  /\ DOMAIN heap = Live(registry, held)
  /\ held \subseteq Maps
  /\ \/ stream = NoStream
     \/ /\ stream.kind \in Kinds
        /\ DOMAIN stream.entries \subseteq Tags
        /\ \A tag \in DOMAIN stream.entries : IsMap(stream.entries[tag], Indices, SavedKey)
  /\ fault \in Kinds \cup {NoneFailed}

Init ==
  /\ allContexts = {}
  /\ allocated = {}
  /\ privateKeys = {}
  /\ registry = [kind \in Kinds |-> <<>>]
  /\ heap = <<>>
  /\ held = {}
  /\ stream = NoStream
  /\ fault = NoneFailed

----------------------------------------------------------------------------
(* Contexts and secret keys.                                               *)

GenCryptoContext(p) ==
  /\ GetContexts({p})
  /\ UNCHANGED <<privateKeys, registry, heap, held, stream, fault>>

\* Mutant: the release frees the objects that keys still point to.
ReleaseFreesContexts ==
  /\ Releases
  /\ allContexts' = {}
  /\ allocated' = {}
  /\ UNCHANGED <<privateKeys, registry, heap, held, stream, fault>>

ReleaseAllContexts ==
  /\ Releases
  /\ allContexts' = {}
  /\ UNCHANGED <<allocated, privateKeys, registry, heap, held, stream, fault>>

\* Mutant: tags may repeat.
KeyGenRepeatsTag(c, tag) ==
  /\ c \in allocated
  /\ privateKeys' = privateKeys \cup {[tag |-> tag, context |-> c]}
  /\ UNCHANGED <<allContexts, allocated, registry, heap, held, stream, fault>>

\* KeyGen draws a tag nobody has.
KeyGen(c, tag) ==
  /\ c \in allocated
  /\ \A k \in privateKeys : k.tag # tag
  /\ privateKeys' = privateKeys \cup {[tag |-> tag, context |-> c]}
  /\ UNCHANGED <<allContexts, allocated, registry, heap, held, stream, fault>>

\* A secret key written out and read back: its tag, and the context that the
\* factory has for its parameters.
LoadPrivateKey(k) ==
  LET p == ParamsOf[k.context]
  IN  /\ GetContexts({p})
      /\ privateKeys' = privateKeys \cup {[tag |-> k.tag, context |-> ContextFor(p)]}
      /\ UNCHANGED <<registry, heap, held, stream, fault>>

----------------------------------------------------------------------------
(* Making and inserting evaluation keys.  Every key of a call carries the  *)
(* tag of its secret key, and the call is refused unless that key is of    *)
(* the context it is made on.                                              *)

\* Mutant: the keys carry another tag.
KeyMapForeignTag(k, I, by) ==
  [i \in I |-> [tag |-> CHOOSE tag \in Tags : tag # k.tag, context |-> k.context, by |-> by]]

KeyMap(k, I, by) == [i \in I |-> [tag |-> k.tag, context |-> k.context, by |-> by]]

SetEntry(kind, tag, a) == [registry EXCEPT ![kind] = Put(registry[kind], tag, a)]

Replace(kind, k, I) ==
  \E a \in Maps :
    /\ Free(a)
    /\ Store(SetEntry(kind, k.tag, a), Put(heap, a, KeyMap(k, I, kind)), held)

EvalMultKeyGen(k) ==
  /\ Replace("mult", k, {0})
  /\ UNCHANGED <<allContexts, allocated, privateKeys, stream, fault>>

EvalMultKeysGen(k) ==
  /\ Replace("mult", k, Indices)
  /\ UNCHANGED <<allContexts, allocated, privateKeys, stream, fault>>

EvalSumKeyGen(k) ==
  /\ Replace("sum", k, SumIndices[ParamsOf[k.context]])
  /\ UNCHANGED <<allContexts, allocated, privateKeys, stream, fault>>

\* Mutant: the new key wins.
MergeOverwrites(k, I) ==
  IF k.tag \in DOMAIN registry["automorphism"]
  THEN LET a == registry["automorphism"][k.tag]
       IN  Store(registry, [heap EXCEPT ![a] = Overlay(KeyMap(k, I, "automorphism"), heap[a])], held)
  ELSE Replace("automorphism", k, I)

\* Only the indices the registered map lacks are added, in place.
MergeRotationKeys(k, I) ==
  IF k.tag \in DOMAIN registry["automorphism"]
  THEN LET a == registry["automorphism"][k.tag]
       IN  Store(registry, [heap EXCEPT ![a] = Overlay(heap[a], KeyMap(k, I, "automorphism"))], held)
  ELSE Replace("automorphism", k, I)

\* EvalAtIndexKeyGen and EvalBootstrapKeyGen: the same code after the keys
\* are made.
EvalAtIndexKeyGen(k, I) ==
  /\ MergeRotationKeys(k, I)
  /\ UNCHANGED <<allContexts, allocated, privateKeys, stream, fault>>

\* EvalAutomorphismKeyGen and the threshold variants return a map to the
\* caller and register nothing.
MakeKeyMap(k, I) ==
  /\ held = {}
  /\ \E a \in Maps :
       /\ Free(a)
       /\ Store(registry, Put(heap, a, KeyMap(k, I, "caller")), {a})
  /\ UNCHANGED <<allContexts, allocated, privateKeys, stream, fault>>

DropKeyMap ==
  /\ held # {}
  /\ Store(registry, heap, {})
  /\ UNCHANGED <<allContexts, allocated, privateKeys, stream, fault>>

\* begin() of an empty map, or the first element of an empty vector, is read:
\* undefined behaviour, at which the model stops.
Fail(kind) == fault' = kind /\ UNCHANGED <<registry, heap, held>>

InsertEvalMultKey(a) ==
  /\ IF heap[a] # <<>>
     THEN /\ \E b \in Maps :
               /\ Free(b)
               /\ Store(SetEntry("mult", First(heap[a]).tag, b), Put(heap, b, heap[a]), held)
          /\ UNCHANGED fault
     ELSE Fail("mult")
  /\ UNCHANGED <<allContexts, allocated, privateKeys, stream>>

\* Mutant: the check for an empty map is missing.
InsertEvalSumKeyUnchecked(a) ==
  /\ IF heap[a] # <<>>
     THEN /\ Store(SetEntry("sum", First(heap[a]).tag, a), heap, held)
          /\ UNCHANGED fault
     ELSE Fail("sum")
  /\ UNCHANGED <<allContexts, allocated, privateKeys, stream>>

InsertEvalSumKey(a) ==
  /\ IF heap[a] # <<>>
     THEN Store(SetEntry("sum", First(heap[a]).tag, a), heap, held)
     ELSE UNCHANGED <<registry, heap, held>>
  /\ UNCHANGED <<allContexts, allocated, privateKeys, stream, fault>>

\* No check here.
InsertEvalAutomorphismKey(a) ==
  /\ IF heap[a] # <<>>
     THEN /\ Store(SetEntry("automorphism", First(heap[a]).tag, a), heap, held)
          /\ UNCHANGED fault
     ELSE Fail("automorphism")
  /\ UNCHANGED <<allContexts, allocated, privateKeys, stream>>

----------------------------------------------------------------------------
(* Clearing, for one tag, for one context, or altogether.                  *)

Erase(kind, tags) ==
  Store([registry EXCEPT ![kind] = Without(registry[kind], tags)], heap, held)

ClearAll(kind) ==
  /\ Erase(kind, Tags)
  /\ UNCHANGED <<allContexts, allocated, privateKeys, stream, fault>>

ClearForTag(kind, tag) ==
  /\ Erase(kind, {tag})
  /\ UNCHANGED <<allContexts, allocated, privateKeys, stream, fault>>

HasEmptyEntry(kind) == \E tag \in DOMAIN registry[kind] : Entry(kind, tag) = <<>>

\* An entry is taken for the context of its first key.  The loops ask every
\* entry for one.
EntriesOf(kind, c) ==
  {tag \in DOMAIN registry[kind] :
     Entry(kind, tag) # <<>> /\ First(Entry(kind, tag)).context = c}

ClearForContext(kind, c) ==
  /\ IF HasEmptyEntry(kind)
     THEN Fail(kind)
     ELSE Erase(kind, EntriesOf(kind, c)) /\ UNCHANGED fault
  /\ UNCHANGED <<allContexts, allocated, privateKeys, stream>>

----------------------------------------------------------------------------
(* Serialisation of a registry.                                            *)

SaveEntry(e) ==
  [i \in DOMAIN e |-> [tag |-> e[i].tag, params |-> ParamsOf[e[i].context], by |-> e[i].by]]

Save(kind, tags) == stream' = [kind |-> kind, entries |-> [tag \in tags |-> SaveEntry(Entry(kind, tag))]]

SerializeAll(kind) ==
  /\ Save(kind, DOMAIN registry[kind])
  /\ UNCHANGED <<allContexts, allocated, privateKeys, registry, heap, held, fault>>

SerializeForTag(kind, tag) ==
  /\ tag \in DOMAIN registry[kind]
  /\ Save(kind, {tag})
  /\ UNCHANGED <<allContexts, allocated, privateKeys, registry, heap, held, fault>>

SerializeForContext(kind, c) ==
  /\ IF HasEmptyEntry(kind)
     THEN Fail(kind) /\ UNCHANGED stream
     ELSE /\ EntriesOf(kind, c) # {}
          /\ Save(kind, EntriesOf(kind, c))
          /\ UNCHANGED <<registry, heap, held, fault>>
  /\ UNCHANGED <<allContexts, allocated, privateKeys>>

\* Mutant: one context for all the keys.
LoadEntryFirstContext(e) ==
  [i \in DOMAIN e |-> [tag |-> e[i].tag, context |-> CHOOSE c \in allContexts' : TRUE, by |-> e[i].by]]

LoadEntry(e) ==
  [i \in DOMAIN e |-> [tag |-> e[i].tag, context |-> ContextFor(e[i].params), by |-> e[i].by]]

\* Mutant: every load empties the registry.
SurvivingNone(kind) == <<>>

\* The entries that are still there when the loaded ones are put in.
\* DeserializeEvalMultKey loads straight into the registry, and loading a map
\* empties it first; the other two load a local map and then copy it.
Surviving(kind) == IF kind = "mult" THEN <<>> ELSE registry[kind]

\* Every loaded entry gets a heap cell of its own.
Deserialize(kind) ==
  /\ stream # NoStream
  /\ stream.kind = kind
  /\ GetContexts({k.params : k \in UNION {Image(e) : e \in Image(stream.entries)}})
  /\ \E at \in [DOMAIN stream.entries -> Maps \ DOMAIN heap] :
       /\ \A s, t \in DOMAIN at : at[s] = at[t] => s = t
       /\ \A a \in Image(at) : \A b \in Maps \ (DOMAIN heap \cup Image(at)) : a <= b
       /\ Store([registry EXCEPT ![kind] = Overlay(at, Surviving(kind))],
                Overlay([a \in Image(at) |->
                           LoadEntry(stream.entries[CHOOSE tag \in DOMAIN at : at[tag] = a])], heap),
                held)
  /\ UNCHANGED <<privateKeys, stream, fault>>

----------------------------------------------------------------------------
Call ==
  \/ \E p \in Params : GenCryptoContext(p)
  \/ ReleaseAllContexts
  \/ \E c \in Contexts, tag \in Tags : KeyGen(c, tag)
  \/ \E k \in privateKeys : LoadPrivateKey(k)
  \/ \E k \in privateKeys :
       \/ "mult" \in UsedKinds /\ EvalMultKeyGen(k)
       \/ "mult" \in UsedKinds /\ EvalMultKeysGen(k)
       \/ "sum" \in UsedKinds /\ EvalSumKeyGen(k)
       \/ "automorphism" \in UsedKinds /\ \E I \in RotationLists : EvalAtIndexKeyGen(k, I)
       \/ \E I \in HeldIndices : MakeKeyMap(k, I)
  \/ DropKeyMap
  \/ \E a \in held : \/ "mult" \in UsedKinds /\ InsertEvalMultKey(a)
                     \/ "sum" \in UsedKinds /\ InsertEvalSumKey(a)
                     \/ "automorphism" \in UsedKinds /\ InsertEvalAutomorphismKey(a)
  \/ \E kind \in UsedKinds :
       \/ ClearAll(kind)
       \/ SerializeAll(kind)
       \/ Deserialize(kind)
       \/ \E tag \in Tags : ClearForTag(kind, tag) \/ SerializeForTag(kind, tag)
       \/ \E c \in allocated : ClearForContext(kind, c) \/ SerializeForContext(kind, c)

\* Nothing is said of what follows undefined behaviour.
Next == fault = NoneFailed /\ Call

Spec == Init /\ [][Next]_vars
----------------------------------------------------------------------------
(* Properties.                                                             *)

\* A key stored under a tag is a key of the secret key with that tag, so that
\* the look-ups by the tag of a ciphertext (GetEvalMultKeyVector,
\* GetEvalSumKeyMap, GetEvalAutomorphismKeyMap) find keys that fit it.
KeysUnderTheirTag ==
  \A kind \in Kinds : \A tag \in DOMAIN registry[kind] :
    \A key \in Image(Entry(kind, tag)) : key.tag = tag

\* "identical CryptoContextImpls are not duplicated in memory": the factory
\* never lists two objects of equal parameters, whether they were generated or
\* came in with a key that was loaded, before or after a release.
ContextsNotDuplicated ==
  \A c, d \in allContexts : ParamsOf[c] = ParamsOf[d] => c = d

\* The two ways for a map without keys into a registry: EvalSumKeyGen for a
\* secret key on a context of batch size 1, and EvalAtIndexKeyGen for no index.
MayBeEmpty(kind, tag, keys) ==
  \E k \in keys :
    /\ k.tag = tag
    /\ \/ kind = "sum" /\ SumIndices[ParamsOf[k.context]] = {}
       \/ kind = "automorphism" /\ {} \in RotationLists

\* ClearEval*Keys(cc) and SerializeEval*Key(cc) look at the first key of an
\* entry only.  All the keys of the entries they select are of cc's parameters,
\* also when releases have left objects of equal parameters behind.  The
\* registered maps that have no first key are those of the two calls above, and
\* no others: no load and no insertion makes one.  Reading the first key of such
\* a map, or inserting an empty one other than with InsertEvalSumKey, is all
\* that leads to undefined behaviour.
ContextSelectionSound ==
  \A kind \in Kinds :
    /\ \A c \in allocated : \A tag \in EntriesOf(kind, c) :
         \A key \in Image(Entry(kind, tag)) : ParamsOf[key.context] = ParamsOf[c]
    /\ \A tag \in DOMAIN registry[kind] :
         Entry(kind, tag) = <<>> => MayBeEmpty(kind, tag, privateKeys)
    /\ fault = kind => \/ HasEmptyEntry(kind)
                       \/ kind # "sum" /\ \E a \in held : heap[a] = <<>>

\* "add key only if it doesn't exist": EvalAtIndexKeyGen and
\* EvalBootstrapKeyGen leave every registered key of every registry in place,
\* also where registries and caller share a map.
KeyGenOnlyAdds ==
  [][(\E k \in privateKeys, I \in RotationLists : EvalAtIndexKeyGen(k, I)) =>
       \A kind \in Kinds : \A tag \in DOMAIN registry[kind] :
         /\ tag \in DOMAIN registry'[kind]
         /\ \A i \in DOMAIN Entry(kind, tag) :
              /\ i \in DOMAIN heap'[registry'[kind][tag]]
              /\ heap'[registry'[kind][tag]][i] = Entry(kind, tag)[i]]_vars

\* The keys of a tag that is not in the stream are still there after the load.
LoadKeepsOthers(kind) ==
  Deserialize(kind) =>
    \A tag \in DOMAIN registry[kind] \ DOMAIN stream.entries :
      /\ tag \in DOMAIN registry'[kind]
      /\ heap'[registry'[kind][tag]] = Entry(kind, tag)

\* "deserialized keys silently replace any existing matching keys", and no
\* others: DeserializeEvalSumKey and DeserializeEvalAutomorphismKey.
DeserializeReplacesMatchingOnly ==
  [][LoadKeepsOthers("sum") /\ LoadKeepsOthers("automorphism")]_vars

\* The comment of DeserializeEvalMultKey promises the same.
DeserializeMultReplacesMatchingOnly == [][LoadKeepsOthers("mult")]_vars

\* What a load puts under a tag is what was saved under it, every key with
\* the context object the factory then has for its parameters.
DeserializeRestores ==
  [][\A kind \in Kinds : Deserialize(kind) =>
       \A tag \in DOMAIN stream.entries :
         LET saved == stream.entries[tag]
             loaded == heap'[registry'[kind][tag]]
         IN  /\ DOMAIN loaded = DOMAIN saved
             /\ \A i \in DOMAIN saved :
                  /\ loaded[i].tag = saved[i].tag
                  /\ loaded[i].by = saved[i].by
                  /\ loaded[i].context \in allContexts'
                  /\ ParamsOf[loaded[i].context] = saved[i].params]_vars
=============================================================================
