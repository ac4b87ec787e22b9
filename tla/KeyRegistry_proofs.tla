------------------------- MODULE KeyRegistry_proofs -------------------------
(***************************************************************************)
(* For every number of contexts, parameter sets, tags, indices and heap    *)
(* cells: a key is registered under its own tag, the factory does not      *)
(* duplicate a context, the selection of entries by context is sound, and  *)
(* generation and loading of keys keep the keys they must not touch.       *)
(***************************************************************************)
EXTENDS KeyRegistry, TLAPS, WellFoundedInduction, NaturalsInduction

\* The program has a secret key of this tag, on a context of parameters p.
Owned(keys, tag, p) ==
  \E k \in keys : k.tag = tag /\ ParamsOf[k.context] = p

\* One heap cell: its keys are of one tag, and each of them is of parameters
\* on which that tag was drawn.
CellOK(e, keys) ==
  /\ IsMap(e, Indices, EvalKey)
  /\ \A i, j \in DOMAIN e : e[i].tag = e[j].tag
  /\ \A i \in DOMAIN e : Owned(keys, e[i].tag, ParamsOf[e[i].context])

EntryOK(kind, tag, e, keys) ==
  /\ \A i \in DOMAIN e : e[i].tag = tag
  /\ DOMAIN e = {} => MayBeEmpty(kind, tag, keys)

\* A cell is shared under one tag only, also one without keys to tell it by.
OneTag(reg) ==
  \A x, y \in Kinds : \A s \in DOMAIN reg[x], t \in DOMAIN reg[y] :
    reg[x][s] = reg[y][t] => s = t

\* The registries and the heap they point into.
HeapOK(reg, cells, hold, keys) ==
  /\ DOMAIN reg = Kinds
  /\ \A kind \in Kinds : IsMap(reg[kind], Tags, Maps)
  /\ DOMAIN cells \subseteq Maps
  /\ hold \subseteq DOMAIN cells
  /\ \A a \in DOMAIN cells : CellOK(cells[a], keys)
  /\ \A kind \in Kinds : \A tag \in DOMAIN reg[kind] :
       /\ reg[kind][tag] \in DOMAIN cells
       /\ EntryOK(kind, tag, cells[reg[kind][tag]], keys)
  /\ OneTag(reg)

\* The factory and the secret keys.  A tag is drawn once, and a secret key
\* read back is on a context of the same parameters.
ContextsOK ==
  /\ allContexts \subseteq allocated
  /\ allocated \subseteq Contexts
  /\ privateKeys \subseteq [tag : Tags, context : allocated]
  /\ \A c, d \in allContexts : ParamsOf[c] = ParamsOf[d] => c = d
  /\ \A k, l \in privateKeys :
       k.tag = l.tag => ParamsOf[k.context] = ParamsOf[l.context]

SavedOK(kind, tag, e, keys) ==
  /\ IsMap(e, Indices, SavedKey)
  /\ \A i \in DOMAIN e : e[i].tag = tag /\ Owned(keys, tag, e[i].params)
  /\ DOMAIN e = {} => MayBeEmpty(kind, tag, keys)

StreamOK ==
  stream # NoStream =>
    /\ stream.kind \in Kinds
    /\ DOMAIN stream.entries \subseteq Tags
    /\ \A tag \in DOMAIN stream.entries :
         SavedOK(stream.kind, tag, stream.entries[tag], privateKeys)

\* The inductive invariant of the registries.
IInv ==
  /\ ContextsOK
  /\ HeapOK(registry, heap, held, privateKeys)
  /\ DOMAIN heap = Live(registry, held)
  /\ StreamOK

\* What a fault is due to, while the state is still the one it came about in.
FaultOK ==
  /\ fault \in Kinds \cup {NoneFailed}
  /\ fault # NoneFailed => \/ HasEmptyEntry(fault)
                           \/ fault # "sum" /\ \E a \in held : heap[a] = <<>>

-----------------------------------------------------------------------------
(* Maps.                                                                   *)

\* A map is empty exactly when it has no index.
LEMMA EmptyMap ==
  ASSUME NEW f, NEW D, NEW R, IsMap(f, D, R)
  PROVE  f = <<>> <=> DOMAIN f = {}
BY DEF IsMap

\* A set of naturals that has a member has a least one.
LEMMA LeastNat ==
  ASSUME NEW T, T \subseteq Nat, T # {}
  PROVE  \E x \in T : \A y \in T : x <= y
<1>1. PICK x \in T : \A y \in T : ~(<<y, x>> \in OpToRel(<, Nat))
  BY NatLessThanWellFounded, WFMin, Zenon
<1>2. \A y \in T : ~(y < x)
  BY <1>1, Zenon DEF OpToRel
<1> QED  BY <1>2

\* begin() of a map that has a key is one of its keys.
LEMMA FirstIsKey ==
  ASSUME NEW e, DOMAIN e \subseteq Nat, DOMAIN e # {}
  PROVE  \E i \in DOMAIN e : First(e) = e[i]
<1>1. \E x \in DOMAIN e : \A y \in DOMAIN e : x <= y
  BY LeastNat, Zenon
<1> QED  BY <1>1, Zenon DEF First

\* The first key of an entry carries the tag of all its keys.
LEMMA FirstTag ==
  ASSUME NEW e, NEW keys, CellOK(e, keys), e # <<>>
  PROVE  /\ First(e) \in EvalKey
         /\ DOMAIN e # {}
         /\ \A i \in DOMAIN e : e[i].tag = First(e).tag
<1>1. DOMAIN e # {}
  BY EmptyMap, Zenon DEF CellOK
<1>2. DOMAIN e \subseteq Nat
  BY IndexAssumption, Zenon DEF CellOK, IsMap
<1>3. PICK i \in DOMAIN e : First(e) = e[i]
  BY <1>1, <1>2, FirstIsKey, Zenon
<1> QED  BY <1>1, <1>3, Zenon DEF CellOK, IsMap

LEMMA OverlayMap ==
  ASSUME NEW f, NEW g, NEW D, NEW R, IsMap(f, D, R), IsMap(g, D, R)
  PROVE  /\ IsMap(Overlay(f, g), D, R)
         /\ DOMAIN Overlay(f, g) = DOMAIN f \cup DOMAIN g
         /\ \A y \in DOMAIN f : Overlay(f, g)[y] = f[y]
         /\ \A y \in DOMAIN g \ DOMAIN f : Overlay(f, g)[y] = g[y]
BY Zenon DEF IsMap, Overlay

-----------------------------------------------------------------------------
(* The heap.                                                               *)

\* What a registry or the caller points to is not collected, and nothing else
\* is left.
LEMMA CollectedOK ==
  ASSUME NEW reg, NEW cells, NEW hold, NEW keys, HeapOK(reg, cells, hold, keys)
  PROVE  /\ HeapOK(reg, Collected(cells, reg, hold), hold, keys)
         /\ DOMAIN Collected(cells, reg, hold) = Live(reg, hold)
         /\ \A kind \in Kinds : \A tag \in DOMAIN reg[kind] :
              Collected(cells, reg, hold)[reg[kind][tag]] = cells[reg[kind][tag]]
<1> DEFINE col == Collected(cells, reg, hold)
<1>1. \A kind \in Kinds : \A tag \in DOMAIN reg[kind] : reg[kind][tag] \in Live(reg, hold)
  BY DEF Live, Image
<1>2. Live(reg, hold) \subseteq DOMAIN cells
  BY DEF Live, Image, HeapOK
<1>3. DOMAIN col = Live(reg, hold)
  BY <1>2, Zenon DEF Collected
<1>4. \A a \in Live(reg, hold) : col[a] = cells[a]
  BY <1>2, Zenon DEF Collected
<1>5. hold \subseteq Live(reg, hold)
  BY Zenon DEF Live
<1>6. HeapOK(reg, col, hold, keys)
  <2> HIDE DEF col
  <2> QED  BY <1>1, <1>2, <1>3, <1>4, <1>5, Zenon DEF HeapOK
<1> QED  BY <1>1, <1>3, <1>4, <1>6, Zenon

\* A step that stores a good heap leaves a good heap.
LEMMA StoreOK ==
  ASSUME NEW reg, NEW cells, NEW hold, HeapOK(reg, cells, hold, privateKeys),
         Store(reg, cells, hold), UNCHANGED privateKeys
  PROVE  /\ HeapOK(registry, heap, held, privateKeys)'
         /\ (DOMAIN heap = Live(registry, held))'
         /\ \A kind \in Kinds : \A tag \in DOMAIN reg[kind] :
              heap'[registry'[kind][tag]] = cells[reg[kind][tag]]
<1>1. registry' = reg /\ held' = hold /\ heap' = Collected(cells, reg, hold)
  BY Zenon DEF Store
<1>2. /\ HeapOK(registry', heap', held', privateKeys)
      /\ DOMAIN heap' = Live(registry', held')
      /\ \A kind \in Kinds : \A tag \in DOMAIN reg[kind] :
           heap'[registry'[kind][tag]] = cells[reg[kind][tag]]
  BY <1>1, CollectedOK
<1> QED  BY <1>2, Zenon

-----------------------------------------------------------------------------
(* The factory.                                                            *)

\* GetContext returns an object of the parameters asked for.
LEMMA ContextForParams ==
  ASSUME ContextsOK, NEW p, GetContext(p) # {}
  PROVE  /\ ContextFor(p) \in Contexts
         /\ ParamsOf[ContextFor(p)] = p
         /\ FindContext(p) # {} => ContextFor(p) \in allContexts
<1>1. ContextFor(p) \in GetContext(p)
  BY Zenon DEF ContextFor
<1>2. CASE FindContext(p) # {}
  BY <1>1, <1>2, Zenon DEF GetContext, FindContext, ContextsOK
<1>3. CASE FindContext(p) = {} /\ NewContext(p) # {}
  <2>1. ContextFor(p) \in NewContext(p)
    BY <1>1, <1>3, Zenon DEF GetContext
  <2> QED  BY <2>1, <1>3, Zenon DEF NewContext
<1> QED  BY <1>1, <1>2, <1>3, Zenon DEF GetContext

\* Whatever contexts a call asks for, the factory lists no duplicate.
LEMMA GetContextsOK ==
  ASSUME ContextsOK, NEW ps, GetContexts(ps)
  PROVE  /\ allContexts' \subseteq allocated'
         /\ allocated \subseteq allocated'
         /\ allocated' \subseteq Contexts
         /\ \A c, d \in allContexts' : ParamsOf[c] = ParamsOf[d] => c = d
         /\ \A p \in ps : /\ ContextFor(p) \in allContexts'
                          /\ ContextFor(p) \in Contexts
                          /\ ParamsOf[ContextFor(p)] = p
<1>1. /\ allContexts' = allContexts \cup {ContextFor(p) : p \in ps}
      /\ allocated' = allocated \cup {ContextFor(p) : p \in ps}
      /\ \A p \in ps : GetContext(p) # {}
  BY Zenon DEF GetContexts, Available
<1>2. \A p \in ps : /\ ContextFor(p) \in Contexts
                    /\ ParamsOf[ContextFor(p)] = p
                    /\ FindContext(p) # {} => ContextFor(p) \in allContexts
  BY <1>1, ContextForParams, Zenon
<1>3. ASSUME NEW c \in allContexts', NEW d \in allContexts', ParamsOf[c] = ParamsOf[d]
      PROVE  c = d
  <2>1. CASE c \in allContexts /\ d \in allContexts
    BY <2>1, <1>3, Zenon DEF ContextsOK
  <2>2. ASSUME NEW x \in allContexts, NEW p \in ps, ParamsOf[x] = ParamsOf[ContextFor(p)]
        PROVE  x = ContextFor(p)
    <3>1. x \in FindContext(p)
      BY <2>2, <1>2, Zenon DEF FindContext
    <3>2. ContextFor(p) \in allContexts
      BY <3>1, <1>2, Zenon
    <3> QED  BY <3>2, <2>2, Zenon DEF ContextsOK
  <2>3. CASE c \notin allContexts /\ d \notin allContexts
    <3>1. PICK p \in ps, q \in ps : c = ContextFor(p) /\ d = ContextFor(q)
      BY <2>3, <1>1, <1>3, Zenon
    <3> QED  BY <3>1, <1>2, <1>3, Zenon
  <2> QED  BY <2>1, <2>2, <2>3, <1>1, <1>3
<1> QED  BY <1>1, <1>2, <1>3 DEF ContextsOK

\* A key that was owned still is when the program has more secret keys.
LEMMA MoreKeys ==
  ASSUME NEW reg, NEW cells, NEW hold, NEW keys, NEW more, keys \subseteq more,
         HeapOK(reg, cells, hold, keys)
  PROVE  HeapOK(reg, cells, hold, more)
<1>1. \A tag, p : Owned(keys, tag, p) => Owned(more, tag, p)
  BY Zenon DEF Owned
<1>2. \A e : CellOK(e, keys) => CellOK(e, more)
  BY <1>1, Zenon DEF CellOK
<1>3. \A kind, tag : MayBeEmpty(kind, tag, keys) => MayBeEmpty(kind, tag, more)
  BY Zenon DEF MayBeEmpty
<1>4. \A kind, tag, e : EntryOK(kind, tag, e, keys) => EntryOK(kind, tag, e, more)
  BY <1>3, Zenon DEF EntryOK
<1> QED  BY <1>2, <1>4, Zenon DEF HeapOK

LEMMA StreamKept ==
  ASSUME StreamOK, UNCHANGED stream, privateKeys \subseteq privateKeys'
  PROVE  StreamOK'
<1>1. \A tag, p : Owned(privateKeys, tag, p) => Owned(privateKeys', tag, p)
  BY Zenon DEF Owned
<1>2. \A kind, tag : MayBeEmpty(kind, tag, privateKeys) => MayBeEmpty(kind, tag, privateKeys')
  BY Zenon DEF MayBeEmpty
<1>3. \A kind, tag, e : SavedOK(kind, tag, e, privateKeys) => SavedOK(kind, tag, e, privateKeys')
  BY <1>1, <1>2, Zenon DEF SavedOK
<1> QED  BY <1>3, Zenon DEF StreamOK

\* The steps that change contexts and secret keys only.
LEMMA HeapKept ==
  ASSUME IInv, UNCHANGED <<registry, heap, held, stream>>,
         privateKeys \subseteq privateKeys', ContextsOK'
  PROVE  IInv'
<1>1. HeapOK(registry', heap', held', privateKeys')
  BY MoreKeys, Zenon DEF IInv
<1>2. StreamOK'
  BY StreamKept, Zenon DEF IInv
<1>3. Live(registry, held)' = Live(registry, held)
  BY Zenon DEF Live
<1> QED  BY <1>1, <1>2, <1>3, Zenon DEF IInv

-----------------------------------------------------------------------------
(* The changes of registries and heap that the calls are made of.          *)

\* A new cell.
LEMMA NewCell ==
  ASSUME NEW reg, NEW cells, NEW hold, NEW keys, HeapOK(reg, cells, hold, keys),
         NEW a \in Maps \ DOMAIN cells, NEW e, CellOK(e, keys),
         NEW h, h \subseteq DOMAIN cells \cup {a}
  PROVE  /\ HeapOK(reg, Put(cells, a, e), h, keys)
         /\ a \in DOMAIN Put(cells, a, e)
         /\ Put(cells, a, e)[a] = e
         /\ \A b \in DOMAIN cells : Put(cells, a, e)[b] = cells[b]
<1> DEFINE new == Put(cells, a, e)
<1>1. /\ DOMAIN new = DOMAIN cells \cup {a}
      /\ new[a] = e
      /\ \A b \in DOMAIN cells : new[b] = cells[b]
  BY Zenon DEF Put
<1> HIDE DEF new
<1>2. HeapOK(reg, new, h, keys)
  BY <1>1, Zenon DEF HeapOK
<1> QED  BY <1>1, <1>2, Zenon DEF new

\* A cell registered under a tag.
LEMMA NewEntry ==
  ASSUME NEW reg, NEW cells, NEW hold, NEW keys, HeapOK(reg, cells, hold, keys),
         NEW kind \in Kinds, NEW tag \in Tags, NEW a \in DOMAIN cells,
         EntryOK(kind, tag, cells[a], keys),
         \A x \in Kinds : \A t \in DOMAIN reg[x] : reg[x][t] = a => t = tag
  PROVE  HeapOK([reg EXCEPT ![kind] = Put(reg[kind], tag, a)], cells, hold, keys)
<1> DEFINE new == [reg EXCEPT ![kind] = Put(reg[kind], tag, a)]
           map == Put(reg[kind], tag, a)
<1>1. IsMap(reg[kind], Tags, Maps) /\ a \in Maps
  BY Zenon DEF HeapOK
<1>2. /\ IsMap(map, Tags, Maps)
      /\ DOMAIN map = DOMAIN reg[kind] \cup {tag}
      /\ map[tag] = a
      /\ \A y \in DOMAIN reg[kind] \ {tag} : map[y] = reg[kind][y]
  BY <1>1, Zenon DEF Put, IsMap
<1> HIDE DEF map
<1>3. /\ DOMAIN new = Kinds
      /\ new[kind] = map
      /\ \A other \in Kinds \ {kind} : new[other] = reg[other]
  BY Zenon DEF HeapOK, map
<1> HIDE DEF new
<1>4. OneTag(new)
  <2>1. \A x \in Kinds : \A t \in DOMAIN new[x] :
           \/ new[x][t] = a /\ t = tag
           \/ t \in DOMAIN reg[x] /\ new[x][t] = reg[x][t]
    BY <1>2, <1>3, Zenon
  <2>2. OneTag(reg)
    BY Zenon DEF HeapOK
  <2> QED  BY <2>1, <2>2 DEF OneTag
<1>5. HeapOK(new, cells, hold, keys)
  BY <1>1, <1>2, <1>3, <1>4 DEF HeapOK
<1> QED  BY <1>5, Zenon DEF new

\* A cell changed in place, through whichever pointers it is reached.
LEMMA ChangedCell ==
  ASSUME NEW reg, NEW cells, NEW hold, NEW keys, HeapOK(reg, cells, hold, keys),
         NEW a \in DOMAIN cells, NEW e, CellOK(e, keys),
         \A kind \in Kinds : \A tag \in DOMAIN reg[kind] :
           reg[kind][tag] = a => EntryOK(kind, tag, e, keys)
  PROVE  HeapOK(reg, [cells EXCEPT ![a] = e], hold, keys)
<1> DEFINE new == [cells EXCEPT ![a] = e]
<1>1. /\ DOMAIN new = DOMAIN cells
      /\ new[a] = e
      /\ \A b \in DOMAIN cells \ {a} : new[b] = cells[b]
  BY Zenon
<1> HIDE DEF new
<1>2. HeapOK(reg, new, hold, keys)
  BY <1>1, Zenon DEF HeapOK
<1> QED  BY <1>2, Zenon DEF new

\* Entries erased.
LEMMA ErasedEntries ==
  ASSUME NEW reg, NEW cells, NEW hold, NEW keys, HeapOK(reg, cells, hold, keys),
         NEW kind \in Kinds, NEW tags
  PROVE  HeapOK([reg EXCEPT ![kind] = Without(reg[kind], tags)], cells, hold, keys)
<1> DEFINE new == [reg EXCEPT ![kind] = Without(reg[kind], tags)]
           map == Without(reg[kind], tags)
<1>1. IsMap(reg[kind], Tags, Maps)
  BY Zenon DEF HeapOK
<1>2. /\ DOMAIN map = DOMAIN reg[kind] \ tags
      /\ \A y \in DOMAIN map : map[y] = reg[kind][y]
      /\ IsMap(map, Tags, Maps)
  BY <1>1, Zenon DEF Without, IsMap
<1> HIDE DEF map
<1>3. /\ DOMAIN new = Kinds
      /\ new[kind] = map
      /\ \A other \in Kinds \ {kind} : new[other] = reg[other]
  BY Zenon DEF HeapOK, map
<1> HIDE DEF new
<1>4. \A x \in Kinds : \A t \in DOMAIN new[x] : t \in DOMAIN reg[x] /\ new[x][t] = reg[x][t]
  BY <1>2, <1>3, Zenon
<1>5. OneTag(new)
  <2>1. OneTag(reg)
    BY Zenon DEF HeapOK
  <2> QED  BY <1>4, <2>1 DEF OneTag
<1>6. HeapOK(new, cells, hold, keys)
  BY <1>2, <1>3, <1>5, Zenon DEF HeapOK
<1> QED  BY <1>6, Zenon DEF new

\* The keys a call makes fit the secret key it makes them for.
LEMMA KeyMapOK ==
  ASSUME ContextsOK, NEW k \in privateKeys, NEW I \in SUBSET Indices,
         NEW by \in Kinds \cup {"caller"}
  PROVE  /\ k.tag \in Tags
         /\ CellOK(KeyMap(k, I, by), privateKeys)
         /\ DOMAIN KeyMap(k, I, by) = I
         /\ \A i \in I : KeyMap(k, I, by)[i].tag = k.tag
<1> DEFINE e == KeyMap(k, I, by)
<1>1. k.tag \in Tags /\ k.context \in Contexts
  BY Zenon DEF ContextsOK
<1>2. [tag |-> k.tag, context |-> k.context, by |-> by] \in EvalKey
  BY <1>1, Zenon DEF EvalKey
<1>3. /\ DOMAIN e = I
      /\ \A i \in I : e[i] = [tag |-> k.tag, context |-> k.context, by |-> by]
      /\ IsMap(e, Indices, EvalKey)
  BY <1>2, Zenon DEF KeyMap, IsMap
<1>4. Owned(privateKeys, k.tag, ParamsOf[k.context])
  BY Zenon DEF Owned
<1> HIDE DEF e
<1>5. CellOK(e, privateKeys)
  BY <1>3, <1>4 DEF CellOK
<1> QED  BY <1>1, <1>3, <1>5 DEF e

-----------------------------------------------------------------------------
(* One lemma for each call: it keeps the invariant.                        *)

\* The calls that change registries and heap only.
LEMMA StoreStep ==
  ASSUME IInv, NEW reg, NEW cells, NEW hold, HeapOK(reg, cells, hold, privateKeys),
         Store(reg, cells, hold),
         UNCHANGED <<allContexts, allocated, privateKeys, stream>>
  PROVE  IInv'
<1>1. HeapOK(registry, heap, held, privateKeys)' /\ (DOMAIN heap = Live(registry, held))'
  BY StoreOK, Zenon
<1>2. StreamOK'
  BY StreamKept, Zenon DEF IInv
<1> QED  BY <1>1, <1>2, Zenon DEF IInv, ContextsOK

\* A call that reads the first key of an empty map changes nothing else.
LEMMA FailStep ==
  ASSUME IInv, NEW kind, Fail(kind), UNCHANGED <<allContexts, allocated, privateKeys, stream>>
  PROVE  IInv'
BY HeapKept, Zenon DEF Fail, IInv, ContextsOK

LEMMA GenCryptoContextStep ==
  ASSUME IInv, NEW p, GenCryptoContext(p)
  PROVE  IInv'
<1>1. GetContexts({p}) /\ UNCHANGED <<privateKeys, registry, heap, held, stream>>
  BY Zenon DEF GenCryptoContext
<1>2. ContextsOK'
  BY <1>1, GetContextsOK, Zenon DEF IInv, ContextsOK
<1> QED  BY <1>1, <1>2, HeapKept, Zenon

LEMMA ReleaseStep ==
  ASSUME IInv, ReleaseAllContexts
  PROVE  IInv'
<1>1. ContextsOK'
  BY Zenon DEF ReleaseAllContexts, IInv, ContextsOK
<1> QED  BY <1>1, HeapKept, Zenon DEF ReleaseAllContexts

LEMMA KeyGenStep ==
  ASSUME IInv, NEW c, NEW tag \in Tags, KeyGen(c, tag)
  PROVE  IInv'
<1>1. ContextsOK'
  BY DEF KeyGen, IInv, ContextsOK
<1> QED  BY <1>1, HeapKept, Zenon DEF KeyGen

LEMMA LoadPrivateKeyStep ==
  ASSUME IInv, NEW k \in privateKeys, LoadPrivateKey(k)
  PROVE  IInv'
<1> DEFINE p == ParamsOf[k.context]
           new == [tag |-> k.tag, context |-> ContextFor(p)]
<1>1. /\ GetContexts({p})
      /\ privateKeys' = privateKeys \cup {new}
      /\ UNCHANGED <<registry, heap, held, stream>>
  BY Zenon DEF LoadPrivateKey
<1>2. ContextsOK
  BY Zenon DEF IInv
<1>3. /\ allContexts' \subseteq allocated'
      /\ allocated \subseteq allocated'
      /\ allocated' \subseteq Contexts
      /\ \A c, d \in allContexts' : ParamsOf[c] = ParamsOf[d] => c = d
      /\ ContextFor(p) \in allContexts'
      /\ ParamsOf[ContextFor(p)] = p
  BY <1>1, <1>2, GetContextsOK, Zenon
<1>4. new \in [tag : Tags, context : allocated']
  BY <1>2, <1>3, Zenon DEF ContextsOK
<1>5. privateKeys' \subseteq [tag : Tags, context : allocated']
  BY <1>1, <1>2, <1>3, <1>4, Zenon DEF ContextsOK
<1>6. \A l \in privateKeys' : \E m \in privateKeys :
        l.tag = m.tag /\ ParamsOf[l.context] = ParamsOf[m.context]
  BY <1>1, <1>3
<1>7. ContextsOK'
  BY <1>2, <1>3, <1>5, <1>6 DEF ContextsOK
<1> QED  BY <1>1, <1>7, HeapKept, Zenon

\* EvalMultKeyGen, EvalMultKeysGen, EvalSumKeyGen, and EvalAtIndexKeyGen for
\* a tag without rotation keys.
LEMMA ReplaceOK ==
  ASSUME IInv, NEW k \in privateKeys, NEW kind \in Kinds, NEW I \in SUBSET Indices,
         I = {} => MayBeEmpty(kind, k.tag, privateKeys), NEW a \in Maps, Free(a)
  PROVE  HeapOK(SetEntry(kind, k.tag, a), Put(heap, a, KeyMap(k, I, kind)), held, privateKeys)
<1> DEFINE e == KeyMap(k, I, kind)
<1>1. /\ k.tag \in Tags
      /\ CellOK(e, privateKeys)
      /\ DOMAIN e = I
      /\ \A i \in I : e[i].tag = k.tag
  BY KeyMapOK DEF IInv
<1>2. a \in Maps \ DOMAIN heap
  BY Zenon DEF Free
<1> HIDE DEF e
<1>3. /\ HeapOK(registry, heap, held, privateKeys)
      /\ held \subseteq DOMAIN heap \cup {a}
  BY Zenon DEF IInv, HeapOK
<1>4. /\ HeapOK(registry, Put(heap, a, e), held, privateKeys)
      /\ a \in DOMAIN Put(heap, a, e)
      /\ Put(heap, a, e)[a] = e
  BY <1>1, <1>2, <1>3, NewCell
<1>5. EntryOK(kind, k.tag, e, privateKeys)
  BY <1>1, Zenon DEF EntryOK
<1>6. \A x \in Kinds : \A t \in DOMAIN registry[x] : registry[x][t] = a => t = k.tag
  BY <1>2, <1>3, Zenon DEF HeapOK
<1> QED  BY <1>1, <1>4, <1>5, <1>6, NewEntry, ZenonT(40) DEF SetEntry, e

LEMMA ReplaceStep ==
  ASSUME IInv, NEW k \in privateKeys, NEW kind \in Kinds, NEW I \in SUBSET Indices,
         I = {} => MayBeEmpty(kind, k.tag, privateKeys), Replace(kind, k, I),
         UNCHANGED <<allContexts, allocated, privateKeys, stream>>
  PROVE  IInv'
BY ReplaceOK, StoreStep, Zenon DEF Replace

\* The registered map that EvalAtIndexKeyGen adds keys to, in place: whoever
\* else points to it has it under the same tag.
LEMMA MergedCell ==
  ASSUME IInv, NEW k \in privateKeys, NEW I \in SUBSET Indices,
         k.tag \in DOMAIN registry["automorphism"]
  PROVE  LET a == registry["automorphism"][k.tag]
             e == Overlay(heap[a], KeyMap(k, I, "automorphism"))
         IN  /\ a \in DOMAIN heap
             /\ \A i \in DOMAIN heap[a] : i \in DOMAIN e /\ e[i] = heap[a][i]
             /\ HeapOK(registry, [heap EXCEPT ![a] = e], held, privateKeys)
<1> DEFINE a == registry["automorphism"][k.tag]
           made == KeyMap(k, I, "automorphism")
           e == Overlay(heap[a], made)
<1>1. /\ CellOK(made, privateKeys)
      /\ \A i \in DOMAIN made : made[i].tag = k.tag
  BY KeyMapOK DEF IInv, Kinds
<1>2. /\ a \in DOMAIN heap
      /\ CellOK(heap[a], privateKeys)
      /\ EntryOK("automorphism", k.tag, heap[a], privateKeys)
  BY Zenon DEF IInv, HeapOK, Kinds
<1> HIDE DEF made
<1>3. /\ IsMap(e, Indices, EvalKey)
      /\ DOMAIN e = DOMAIN heap[a] \cup DOMAIN made
      /\ \A y \in DOMAIN heap[a] : e[y] = heap[a][y]
      /\ \A y \in DOMAIN made \ DOMAIN heap[a] : e[y] = made[y]
  <2>1. IsMap(heap[a], Indices, EvalKey) /\ IsMap(made, Indices, EvalKey)
    BY <1>1, <1>2, Zenon DEF CellOK
  <2> QED  BY <2>1, OverlayMap, ZenonT(60)
<1> HIDE DEF e
<1>4. \A i \in DOMAIN e : e[i].tag = k.tag /\ Owned(privateKeys, e[i].tag, ParamsOf[e[i].context])
  <2>1. \A i \in DOMAIN made :
           made[i].tag = k.tag /\ Owned(privateKeys, made[i].tag, ParamsOf[made[i].context])
    BY <1>1, ZenonT(60) DEF CellOK
  <2>2. \A i \in DOMAIN heap[a] :
           heap[a][i].tag = k.tag /\ Owned(privateKeys, heap[a][i].tag, ParamsOf[heap[a][i].context])
    BY <1>2, ZenonT(60) DEF EntryOK, CellOK
  <2> HIDE DEF a
  <2> TAKE i \in DOMAIN e
  <2>3. CASE i \in DOMAIN heap[a]
    BY <1>3, <2>2, <2>3, ZenonT(60)
  <2>4. CASE i \in DOMAIN made \ DOMAIN heap[a]
    BY <1>3, <2>1, <2>4, ZenonT(60)
  <2> QED BY <1>3, <2>3, <2>4, ZenonT(60)
<1>5. CellOK(e, privateKeys)
  BY <1>3, <1>4, Zenon DEF CellOK
<1>6. ASSUME NEW kind \in Kinds, NEW tag \in DOMAIN registry[kind], registry[kind][tag] = a
      PROVE  EntryOK(kind, tag, e, privateKeys)
  <2>1. EntryOK(kind, tag, heap[a], privateKeys)
    BY <1>6, Zenon DEF IInv, HeapOK
  <2>2. tag = k.tag
    <3>1. OneTag(registry) /\ "automorphism" \in Kinds
      BY Zenon DEF IInv, HeapOK, Kinds
    <3> QED  BY <1>6, <3>1 DEF OneTag
  <2>3. DOMAIN e = {} => DOMAIN heap[a] = {}
    BY <1>3, Zenon
  <2> QED  BY <2>1, <2>2, <2>3, <1>4, Zenon DEF EntryOK
<1>7. HeapOK(registry, [heap EXCEPT ![a] = e], held, privateKeys)
  <2>1. HeapOK(registry, heap, held, privateKeys)
    BY Zenon DEF IInv
  <2> HIDE DEF a
  <2> QED  BY <2>1, <1>2, <1>5, <1>6, ChangedCell, Zenon
<1> QED  BY <1>2, <1>3, <1>7, Zenon DEF e, made

LEMMA EvalAtIndexKeyGenStep ==
  ASSUME IInv, NEW k \in privateKeys, NEW I \in RotationLists, EvalAtIndexKeyGen(k, I)
  PROVE  IInv'
<1>1. I \in SUBSET Indices /\ (I = {} => MayBeEmpty("automorphism", k.tag, privateKeys))
  BY IndexAssumption, Zenon DEF MayBeEmpty
<1>2. UNCHANGED <<allContexts, allocated, privateKeys, stream>> /\ MergeRotationKeys(k, I)
  BY Zenon DEF EvalAtIndexKeyGen
<1>3. CASE k.tag \in DOMAIN registry["automorphism"]
  BY <1>1, <1>2, <1>3, MergedCell, StoreStep, Zenon DEF MergeRotationKeys
<1>4. CASE k.tag \notin DOMAIN registry["automorphism"]
  BY <1>1, <1>2, <1>4, ReplaceStep, Zenon DEF MergeRotationKeys, Kinds
<1> QED  BY <1>3, <1>4, Zenon

LEMMA MakeKeyMapStep ==
  ASSUME IInv, NEW k \in privateKeys, NEW I \in HeldIndices, MakeKeyMap(k, I)
  PROVE  IInv'
<1>1. I \in SUBSET Indices
  BY IndexAssumption, Zenon
<1>2. CellOK(KeyMap(k, I, "caller"), privateKeys)
  BY <1>1, KeyMapOK, Zenon DEF IInv
<1>3. PICK a \in Maps : Free(a) /\ Store(registry, Put(heap, a, KeyMap(k, I, "caller")), {a})
  BY Zenon DEF MakeKeyMap
<1>4. HeapOK(registry, Put(heap, a, KeyMap(k, I, "caller")), {a}, privateKeys)
  BY <1>2, <1>3, NewCell, Zenon DEF IInv, Free
<1> QED  BY <1>3, <1>4, StoreStep, Zenon DEF MakeKeyMap

LEMMA DropKeyMapStep ==
  ASSUME IInv, DropKeyMap
  PROVE  IInv'
<1>1. HeapOK(registry, heap, {}, privateKeys)
  BY Zenon DEF IInv, HeapOK
<1> QED  BY <1>1, StoreStep, Zenon DEF DropKeyMap

\* A map that the caller holds, put under the tag of its first key.
LEMMA InsertedEntry ==
  ASSUME IInv, NEW a \in held, heap[a] # <<>>, NEW kind \in Kinds
  PROVE  /\ a \in DOMAIN heap
         /\ CellOK(heap[a], privateKeys)
         /\ First(heap[a]).tag \in Tags
         /\ EntryOK(kind, First(heap[a]).tag, heap[a], privateKeys)
         /\ \A x \in Kinds : \A t \in DOMAIN registry[x] :
              registry[x][t] = a => t = First(heap[a]).tag
<1>1. a \in DOMAIN heap /\ CellOK(heap[a], privateKeys)
  BY Zenon DEF IInv, HeapOK
<1>2. /\ First(heap[a]) \in EvalKey
      /\ DOMAIN heap[a] # {}
      /\ \A i \in DOMAIN heap[a] : heap[a][i].tag = First(heap[a]).tag
  BY <1>1, FirstTag, Zenon
<1>3. ASSUME NEW x \in Kinds, NEW t \in DOMAIN registry[x], registry[x][t] = a
      PROVE  t = First(heap[a]).tag
  <2>1. EntryOK(x, t, heap[a], privateKeys)
    BY <1>3, Zenon DEF IInv, HeapOK
  <2> QED  BY <1>2, <2>1, Zenon DEF EntryOK
<1>4. EntryOK(kind, First(heap[a]).tag, heap[a], privateKeys)
  BY <1>2, Zenon DEF EntryOK
<1> QED  BY <1>1, <1>2, <1>3, <1>4, Zenon DEF EvalKey

LEMMA InsertEvalMultKeyStep ==
  ASSUME IInv, NEW a \in held, InsertEvalMultKey(a)
  PROVE  IInv'
<1>e. CASE heap[a] = <<>>
  BY <1>e, FailStep, Zenon DEF InsertEvalMultKey
<1> SUFFICES ASSUME heap[a] # <<>> PROVE IInv'
  BY <1>e, Zenon
<1> DEFINE tag == First(heap[a]).tag
<1>1. PICK b \in Maps : Free(b) /\ Store(SetEntry("mult", tag, b), Put(heap, b, heap[a]), held)
  BY Zenon DEF InsertEvalMultKey
<1>2. /\ a \in DOMAIN heap
      /\ CellOK(heap[a], privateKeys)
      /\ tag \in Tags
      /\ EntryOK("mult", tag, heap[a], privateKeys)
  BY InsertedEntry, Zenon DEF Kinds
<1>3. HeapOK(registry, heap, held, privateKeys) /\ held \subseteq DOMAIN heap \cup {b}
  BY Zenon DEF IInv, HeapOK
<1>4. /\ HeapOK(registry, Put(heap, b, heap[a]), held, privateKeys)
      /\ b \in DOMAIN Put(heap, b, heap[a])
      /\ Put(heap, b, heap[a])[b] = heap[a]
  BY <1>1, <1>2, <1>3, NewCell DEF Free
<1>5. \A x \in Kinds : \A t \in DOMAIN registry[x] : registry[x][t] = b => t = tag
  BY <1>1, <1>3, Zenon DEF HeapOK, Free
<1>6. HeapOK(SetEntry("mult", tag, b), Put(heap, b, heap[a]), held, privateKeys)
  BY <1>2, <1>4, <1>5, NewEntry, Zenon DEF SetEntry, Kinds
<1> QED  BY <1>1, <1>6, StoreStep, Zenon DEF InsertEvalMultKey

\* InsertEvalSumKey and InsertEvalAutomorphismKey register the map itself.
LEMMA ShareStep ==
  ASSUME IInv, NEW a \in held, NEW kind \in Kinds, heap[a] # <<>>,
         Store(SetEntry(kind, First(heap[a]).tag, a), heap, held),
         UNCHANGED <<allContexts, allocated, privateKeys, stream>>
  PROVE  IInv'
<1>1. HeapOK(SetEntry(kind, First(heap[a]).tag, a), heap, held, privateKeys)
  BY InsertedEntry, NewEntry, Zenon DEF SetEntry, IInv
<1> QED  BY <1>1, StoreStep, Zenon

LEMMA InsertEvalSumKeyStep ==
  ASSUME IInv, NEW a \in held, InsertEvalSumKey(a)
  PROVE  IInv'
<1>1. CASE heap[a] # <<>>
  BY <1>1, ShareStep, Zenon DEF InsertEvalSumKey, Kinds
<1>2. CASE heap[a] = <<>>
  <2>1. UNCHANGED vars
    BY <1>2, Zenon DEF InsertEvalSumKey, vars
  <2> QED  BY <2>1, HeapKept, Zenon DEF vars, IInv, ContextsOK
<1> QED  BY <1>1, <1>2, Zenon

LEMMA InsertEvalAutomorphismKeyStep ==
  ASSUME IInv, NEW a \in held, InsertEvalAutomorphismKey(a)
  PROVE  IInv'
<1>1. CASE heap[a] # <<>>
  BY <1>1, ShareStep, Zenon DEF InsertEvalAutomorphismKey, Kinds
<1>2. CASE heap[a] = <<>>
  BY <1>2, FailStep, Zenon DEF InsertEvalAutomorphismKey
<1> QED  BY <1>1, <1>2, Zenon

LEMMA EraseStep ==
  ASSUME IInv, NEW kind \in Kinds, NEW tags, Erase(kind, tags),
         UNCHANGED <<allContexts, allocated, privateKeys, stream>>
  PROVE  IInv'
<1>1. HeapOK([registry EXCEPT ![kind] = Without(registry[kind], tags)], heap, held, privateKeys)
  BY ErasedEntries, Zenon DEF IInv
<1> QED  BY <1>1, StoreStep, Zenon DEF Erase

LEMMA ClearForContextStep ==
  ASSUME IInv, NEW kind \in Kinds, NEW c, ClearForContext(kind, c)
  PROVE  IInv'
<1>1. CASE HasEmptyEntry(kind)
  BY <1>1, FailStep, Zenon DEF ClearForContext
<1>2. CASE ~HasEmptyEntry(kind)
  BY <1>2, EraseStep, Zenon DEF ClearForContext
<1> QED  BY <1>1, <1>2, Zenon

\* What is written out carries the tag and the parameters of what is registered.
LEMMA SavedEntryOK ==
  ASSUME IInv, NEW kind \in Kinds, NEW tag \in DOMAIN registry[kind]
  PROVE  SavedOK(kind, tag, SaveEntry(Entry(kind, tag)), privateKeys)
<1> DEFINE e == Entry(kind, tag)
           s == SaveEntry(e)
<1>1. EntryOK(kind, tag, e, privateKeys) /\ CellOK(e, privateKeys)
  BY Zenon DEF IInv, HeapOK, Entry
<1> HIDE DEF e
<1>2. \A i \in DOMAIN e : /\ e[i] \in EvalKey
                          /\ i \in Indices
                          /\ e[i].tag = tag
                          /\ Owned(privateKeys, tag, ParamsOf[e[i].context])
  BY <1>1, Zenon DEF EntryOK, CellOK, IsMap
<1>3. /\ DOMAIN s = DOMAIN e
      /\ \A i \in DOMAIN e :
           s[i] = [tag |-> e[i].tag, params |-> ParamsOf[e[i].context], by |-> e[i].by]
      /\ s = [i \in DOMAIN s |-> s[i]]
  BY Zenon DEF SaveEntry
<1> HIDE DEF s
<1>4. \A i \in DOMAIN s : /\ s[i].tag = tag
                          /\ s[i].params = ParamsOf[e[i].context]
                          /\ s[i] \in SavedKey
  BY <1>2, <1>3, ContextAssumption DEF EvalKey, SavedKey
<1>5. IsMap(s, Indices, SavedKey)
  BY <1>2, <1>3, <1>4, Zenon DEF IsMap
<1> QED  BY <1>1, <1>2, <1>3, <1>4, <1>5, Zenon DEF SavedOK, EntryOK, e, s

LEMMA SaveStep ==
  ASSUME IInv, NEW kind \in Kinds, NEW tags \in SUBSET DOMAIN registry[kind], Save(kind, tags),
         UNCHANGED <<allContexts, allocated, privateKeys, registry, heap, held>>
  PROVE  IInv'
<1>1. /\ stream'.kind = kind
      /\ DOMAIN stream'.entries = tags
      /\ \A tag \in tags : stream'.entries[tag] = SaveEntry(Entry(kind, tag))
  BY Zenon DEF Save
<1>2. \A tag \in tags : SavedOK(kind, tag, stream'.entries[tag], privateKeys)
  BY <1>1, SavedEntryOK, Zenon
<1>3. tags \subseteq Tags
  BY Zenon DEF IInv, HeapOK, IsMap
<1>4. StreamOK'
  BY <1>1, <1>2, <1>3, Zenon DEF StreamOK
<1>5. Live(registry, held)' = Live(registry, held)
  BY Zenon DEF Live
<1> QED  BY <1>4, <1>5, Zenon DEF IInv, ContextsOK

LEMMA SerializeForContextStep ==
  ASSUME IInv, NEW kind \in Kinds, NEW c, SerializeForContext(kind, c)
  PROVE  IInv'
<1>1. CASE HasEmptyEntry(kind)
  BY <1>1, FailStep, Zenon DEF SerializeForContext
<1>2. CASE ~HasEmptyEntry(kind)
  <2>1. EntriesOf(kind, c) \in SUBSET DOMAIN registry[kind]
    BY Zenon DEF EntriesOf
  <2> QED  BY <1>2, <2>1, SaveStep, Zenon DEF SerializeForContext
<1> QED  BY <1>1, <1>2, Zenon

-----------------------------------------------------------------------------
(* Loading.                                                                *)

\* A loaded entry: every key as it was saved, on a context of its parameters.
LEMMA LoadedEntryOK ==
  ASSUME IInv, stream # NoStream, NEW tag \in DOMAIN stream.entries,
         \A i \in DOMAIN stream.entries[tag] :
           LET p == stream.entries[tag][i].params
           IN  ContextFor(p) \in Contexts /\ ParamsOf[ContextFor(p)] = p
  PROVE  LET e == stream.entries[tag]
             l == LoadEntry(e)
         IN  /\ CellOK(l, privateKeys)
             /\ EntryOK(stream.kind, tag, l, privateKeys)
             /\ DOMAIN l = DOMAIN e
             /\ \A i \in DOMAIN e : /\ l[i].tag = e[i].tag
                                    /\ l[i].by = e[i].by
                                    /\ l[i].context = ContextFor(e[i].params)
<1> DEFINE e == stream.entries[tag]
           l == LoadEntry(e)
<1>1. SavedOK(stream.kind, tag, e, privateKeys)
  BY Zenon DEF IInv, StreamOK
<1>2. \A i \in DOMAIN e : /\ ContextFor(e[i].params) \in Contexts
                          /\ ParamsOf[ContextFor(e[i].params)] = e[i].params
  BY Zenon
<1> HIDE DEF e
<1>3. /\ DOMAIN l = DOMAIN e
      /\ \A i \in DOMAIN e :
           l[i] = [tag |-> e[i].tag, context |-> ContextFor(e[i].params), by |-> e[i].by]
      /\ l = [i \in DOMAIN l |-> l[i]]
  BY Zenon DEF LoadEntry
<1> HIDE DEF l
<1>4. \A i \in DOMAIN e : /\ e[i] \in SavedKey
                          /\ i \in Indices
                          /\ e[i].tag = tag
                          /\ Owned(privateKeys, tag, e[i].params)
  BY <1>1, Zenon DEF SavedOK, IsMap
<1>5. \A i \in DOMAIN l : /\ l[i] \in EvalKey
                          /\ l[i].tag = tag
                          /\ l[i].by = e[i].by
                          /\ l[i].context = ContextFor(e[i].params)
                          /\ ParamsOf[l[i].context] = e[i].params
  BY <1>2, <1>3, <1>4 DEF EvalKey, SavedKey
<1>6. IsMap(l, Indices, EvalKey)
  BY <1>3, <1>4, <1>5, Zenon DEF IsMap
<1>7. CellOK(l, privateKeys)
  BY <1>3, <1>4, <1>5, <1>6, Zenon DEF CellOK
<1>8. EntryOK(stream.kind, tag, l, privateKeys)
  BY <1>1, <1>3, <1>5, Zenon DEF EntryOK, SavedOK
<1> QED  BY <1>3, <1>4, <1>5, <1>7, <1>8, Zenon DEF e, l

\* The contexts of the keys in the stream.
LEMMA LoadedContexts ==
  ASSUME IInv, stream # NoStream,
         GetContexts({k.params : k \in UNION {Image(e) : e \in Image(stream.entries)}})
  PROVE  \A tag \in DOMAIN stream.entries : \A i \in DOMAIN stream.entries[tag] :
           LET p == stream.entries[tag][i].params
           IN  /\ ContextFor(p) \in allContexts'
               /\ ContextFor(p) \in Contexts
               /\ ParamsOf[ContextFor(p)] = p
<1> DEFINE ps == {k.params : k \in UNION {Image(e) : e \in Image(stream.entries)}}
<1>1. \A tag \in DOMAIN stream.entries : \A i \in DOMAIN stream.entries[tag] :
        stream.entries[tag][i].params \in ps
  BY DEF Image
<1> HIDE DEF ps
<1>2. \A p \in ps : /\ ContextFor(p) \in allContexts'
                    /\ ContextFor(p) \in Contexts
                    /\ ParamsOf[ContextFor(p)] = p
  BY GetContextsOK, Zenon DEF IInv, ps
<1> QED  BY <1>1, <1>2, Zenon

\* The registry and the heap that a load stores, for the cells it picks.
LoadedRegistry(kind, at) == [registry EXCEPT ![kind] = Overlay(at, Surviving(kind))]

LoadedHeap(at) ==
  Overlay([a \in Image(at) |->
             LoadEntry(stream.entries[CHOOSE tag \in DOMAIN at : at[tag] = a])], heap)

LEMMA LoadedHeapIs ==
  ASSUME NEW at \in [DOMAIN stream.entries -> Maps \ DOMAIN heap],
         \A s, t \in DOMAIN at : at[s] = at[t] => s = t
  PROVE  /\ DOMAIN LoadedHeap(at) = DOMAIN heap \cup Image(at)
         /\ \A tag \in DOMAIN stream.entries :
              LoadedHeap(at)[at[tag]] = LoadEntry(stream.entries[tag])
         /\ \A b \in DOMAIN heap : LoadedHeap(at)[b] = heap[b]
<1> DEFINE cell == [a \in Image(at) |->
                      LoadEntry(stream.entries[CHOOSE tag \in DOMAIN at : at[tag] = a])]
<1>1. DOMAIN at = DOMAIN stream.entries /\ Image(at) \cap DOMAIN heap = {}
  BY Zenon DEF Image
<1>2. ASSUME NEW tag \in DOMAIN stream.entries
      PROVE  at[tag] \in Image(at) /\ cell[at[tag]] = LoadEntry(stream.entries[tag])
  <2>1. (CHOOSE s \in DOMAIN at : at[s] = at[tag]) = tag
    BY <1>1, Zenon
  <2> QED  BY <1>1, <2>1, Zenon DEF Image
<1>3. DOMAIN cell = Image(at)
  BY Zenon
<1> HIDE DEF cell
<1>4. LoadedHeap(at) = Overlay(cell, heap)
  BY Zenon DEF LoadedHeap, cell
<1> QED  BY <1>1, <1>2, <1>3, <1>4, Zenon DEF Overlay

LEMMA LoadedRegistryIs ==
  ASSUME IInv, NEW kind \in Kinds, NEW at, IsMap(at, Tags, Maps)
  PROVE  LET reg == LoadedRegistry(kind, at)
         IN  /\ DOMAIN reg = Kinds
             /\ \A other \in Kinds \ {kind} : reg[other] = registry[other]
             /\ IsMap(reg[kind], Tags, Maps)
             /\ DOMAIN at \subseteq DOMAIN reg[kind]
             /\ \A tag \in DOMAIN at : reg[kind][tag] = at[tag]
             /\ \A tag \in DOMAIN reg[kind] \ DOMAIN at :
                  tag \in DOMAIN registry[kind] /\ reg[kind][tag] = registry[kind][tag]
             /\ kind # "mult" => DOMAIN registry[kind] \subseteq DOMAIN reg[kind]
<1> DEFINE new == Overlay(at, Surviving(kind))
<1>1. IsMap(registry[kind], Tags, Maps) /\ DOMAIN registry = Kinds
  BY Zenon DEF IInv, HeapOK
<1>2. IsMap(Surviving(kind), Tags, Maps)
  BY <1>1 DEF Surviving, IsMap
<1>3. /\ DOMAIN Surviving(kind) \subseteq DOMAIN registry[kind]
      /\ kind # "mult" => DOMAIN Surviving(kind) = DOMAIN registry[kind]
      /\ \A tag \in DOMAIN Surviving(kind) : Surviving(kind)[tag] = registry[kind][tag]
  BY DEF Surviving
<1>4. /\ IsMap(new, Tags, Maps)
      /\ DOMAIN new = DOMAIN at \cup DOMAIN Surviving(kind)
      /\ \A tag \in DOMAIN at : new[tag] = at[tag]
      /\ \A tag \in DOMAIN Surviving(kind) \ DOMAIN at : new[tag] = Surviving(kind)[tag]
  BY <1>2, OverlayMap, Zenon
<1> HIDE DEF new
<1>5. LoadedRegistry(kind, at) = [registry EXCEPT ![kind] = new]
  BY Zenon DEF LoadedRegistry, new
<1> QED  BY <1>1, <1>3, <1>4, <1>5, Zenon

LEMMA LoadedOK ==
  ASSUME IInv, NEW kind \in Kinds, stream # NoStream, stream.kind = kind,
         GetContexts({k.params : k \in UNION {Image(e) : e \in Image(stream.entries)}}),
         NEW at \in [DOMAIN stream.entries -> Maps \ DOMAIN heap],
         \A s, t \in DOMAIN at : at[s] = at[t] => s = t
  PROVE  HeapOK(LoadedRegistry(kind, at), LoadedHeap(at), held, privateKeys)
<1> DEFINE reg == LoadedRegistry(kind, at)
           cells == LoadedHeap(at)
<1>1. HeapOK(registry, heap, held, privateKeys)
  BY Zenon DEF IInv
<1>2. DOMAIN at = DOMAIN stream.entries /\ IsMap(at, Tags, Maps)
  BY Zenon DEF IInv, StreamOK, IsMap
<1>3. /\ DOMAIN cells = DOMAIN heap \cup Image(at)
      /\ \A tag \in DOMAIN stream.entries : cells[at[tag]] = LoadEntry(stream.entries[tag])
      /\ \A b \in DOMAIN heap : cells[b] = heap[b]
  BY LoadedHeapIs, Zenon
<1>4. /\ DOMAIN reg = Kinds
      /\ \A other \in Kinds \ {kind} : reg[other] = registry[other]
      /\ IsMap(reg[kind], Tags, Maps)
      /\ \A tag \in DOMAIN at : reg[kind][tag] = at[tag]
      /\ \A tag \in DOMAIN reg[kind] \ DOMAIN at :
           tag \in DOMAIN registry[kind] /\ reg[kind][tag] = registry[kind][tag]
  BY <1>2, LoadedRegistryIs
<1>5. ASSUME NEW tag \in DOMAIN stream.entries
      PROVE  /\ at[tag] \in DOMAIN cells
             /\ CellOK(cells[at[tag]], privateKeys)
             /\ EntryOK(kind, tag, cells[at[tag]], privateKeys)
  <2>1. \A i \in DOMAIN stream.entries[tag] :
           LET p == stream.entries[tag][i].params
           IN  ContextFor(p) \in Contexts /\ ParamsOf[ContextFor(p)] = p
    BY LoadedContexts, Zenon
  <2>2. /\ CellOK(LoadEntry(stream.entries[tag]), privateKeys)
        /\ EntryOK(kind, tag, LoadEntry(stream.entries[tag]), privateKeys)
    BY <2>1, LoadedEntryOK, Zenon
  <2>3. at[tag] \in Image(at)
    BY <1>2, Zenon DEF Image
  <2> QED  BY <2>2, <2>3, <1>3, Zenon
<1> HIDE DEF reg, cells
<1>6. ASSUME NEW a \in DOMAIN cells
      PROVE  a \in Maps /\ CellOK(cells[a], privateKeys)
  <2>1. CASE a \in DOMAIN heap
    BY <2>1, <1>1, <1>3, Zenon DEF HeapOK
  <2>2. CASE a \in Image(at)
    BY <2>2, <1>2, <1>5 DEF Image
  <2> QED  BY <2>1, <2>2, <1>3, Zenon
<1>7. ASSUME NEW other \in Kinds, NEW tag \in DOMAIN reg[other]
      PROVE  /\ reg[other][tag] \in DOMAIN cells
             /\ EntryOK(other, tag, cells[reg[other][tag]], privateKeys)
  <2>1. CASE other # kind
    BY <2>1, <1>1, <1>3, <1>4 DEF HeapOK
  <2>2. CASE other = kind /\ tag \in DOMAIN at
    BY <2>2, <1>2, <1>4, <1>5, Zenon
  <2>3. CASE other = kind /\ tag \notin DOMAIN at
    <3>1. tag \in DOMAIN registry[kind] /\ reg[kind][tag] = registry[kind][tag]
      BY <2>3, <1>4, Zenon
    <3>2. /\ registry[kind][tag] \in DOMAIN heap
          /\ EntryOK(kind, tag, heap[registry[kind][tag]], privateKeys)
      BY <3>1, <1>1, Zenon DEF HeapOK
    <3> QED  BY <2>3, <3>1, <3>2, <1>3, Zenon
  <2> QED  BY <2>1, <2>2, <2>3, Zenon
<1>8. \A other \in Kinds : IsMap(reg[other], Tags, Maps)
  BY <1>1, <1>4, Zenon DEF HeapOK
<1>9. held \subseteq DOMAIN cells
  BY <1>1, <1>3, Zenon DEF HeapOK
<1>10. OneTag(reg)
  <2>1. \A x \in Kinds : \A t \in DOMAIN reg[x] :
           \/ t \in DOMAIN at /\ reg[x][t] = at[t]
           \/ /\ t \in DOMAIN registry[x] /\ reg[x][t] = registry[x][t]
              /\ registry[x][t] \in DOMAIN heap
    BY <1>1, <1>4 DEF HeapOK
  <2>2. \A t \in DOMAIN at : at[t] \notin DOMAIN heap
    BY <1>2, Zenon
  <2>3. OneTag(registry)
    BY <1>1, Zenon DEF HeapOK
  <2> QED  BY <2>1, <2>2, <2>3 DEF OneTag
<1>11. HeapOK(reg, cells, held, privateKeys)
  BY <1>4, <1>6, <1>7, <1>8, <1>9, <1>10, Zenon DEF HeapOK
<1> QED  BY <1>11, Zenon DEF reg, cells

\* A load keeps the invariant; it puts under every tag of the stream what was
\* saved under it, and the other entries stay unless the registry is "mult".
LEMMA DeserializeStep ==
  ASSUME IInv, NEW kind \in Kinds, Deserialize(kind)
  PROVE  /\ IInv'
         /\ \A tag \in DOMAIN stream.entries :
              heap'[registry'[kind][tag]] = LoadEntry(stream.entries[tag])
         /\ kind # "mult" =>
              \A tag \in DOMAIN registry[kind] \ DOMAIN stream.entries :
                /\ tag \in DOMAIN registry'[kind]
                /\ heap'[registry'[kind][tag]] = Entry(kind, tag)
<1>1. /\ stream # NoStream
      /\ stream.kind = kind
      /\ GetContexts({k.params : k \in UNION {Image(e) : e \in Image(stream.entries)}})
      /\ UNCHANGED <<privateKeys, stream>>
  BY Zenon DEF Deserialize
<1>2. PICK at \in [DOMAIN stream.entries -> Maps \ DOMAIN heap] :
        /\ \A s, t \in DOMAIN at : at[s] = at[t] => s = t
        /\ Store(LoadedRegistry(kind, at), LoadedHeap(at), held)
  BY Zenon DEF Deserialize, LoadedRegistry, LoadedHeap
<1>3. HeapOK(LoadedRegistry(kind, at), LoadedHeap(at), held, privateKeys)
  BY <1>1, <1>2, LoadedOK, Zenon
<1>4. /\ HeapOK(registry, heap, held, privateKeys)'
      /\ (DOMAIN heap = Live(registry, held))'
      /\ \A k \in Kinds : \A tag \in DOMAIN LoadedRegistry(kind, at)[k] :
           heap'[registry'[k][tag]] = LoadedHeap(at)[LoadedRegistry(kind, at)[k][tag]]
  BY <1>1, <1>2, <1>3, StoreOK
<1>5. registry' = LoadedRegistry(kind, at)
  BY <1>2, Zenon DEF Store
<1>6. DOMAIN at = DOMAIN stream.entries /\ IsMap(at, Tags, Maps)
  BY <1>1, Zenon DEF IInv, StreamOK, IsMap
<1>7. /\ DOMAIN at \subseteq DOMAIN registry'[kind]
      /\ \A tag \in DOMAIN at : registry'[kind][tag] = at[tag]
      /\ \A tag \in DOMAIN registry'[kind] \ DOMAIN at :
           registry'[kind][tag] = registry[kind][tag]
      /\ kind # "mult" => DOMAIN registry[kind] \subseteq DOMAIN registry'[kind]
  BY <1>5, <1>6, LoadedRegistryIs
<1>8. /\ \A tag \in DOMAIN stream.entries :
           LoadedHeap(at)[at[tag]] = LoadEntry(stream.entries[tag])
      /\ \A b \in DOMAIN heap : LoadedHeap(at)[b] = heap[b]
  BY <1>2, LoadedHeapIs, Zenon
<1>9. \A tag \in DOMAIN registry[kind] : registry[kind][tag] \in DOMAIN heap
  BY Zenon DEF IInv, HeapOK
<1>10. ContextsOK'
  BY <1>1, GetContextsOK, Zenon DEF IInv, ContextsOK
<1>11. StreamOK'
  BY <1>1, StreamKept, Zenon DEF IInv
<1>12. IInv'
  BY <1>4, <1>10, <1>11, Zenon DEF IInv
<1>13. \A tag \in DOMAIN stream.entries :
         heap'[registry'[kind][tag]] = LoadEntry(stream.entries[tag])
  <2> SUFFICES ASSUME NEW tag \in DOMAIN stream.entries
               PROVE  heap'[registry'[kind][tag]] = LoadEntry(stream.entries[tag])
    BY Zenon
  <2>1. tag \in DOMAIN registry'[kind] /\ registry'[kind][tag] = at[tag]
    BY <1>6, <1>7, Zenon
  <2>2. heap'[registry'[kind][tag]] = LoadedHeap(at)[registry'[kind][tag]]
    BY <1>4, <1>5, <2>1, Zenon
  <2>3. LoadedHeap(at)[at[tag]] = LoadEntry(stream.entries[tag])
    BY <1>8, Zenon
  <2> QED  BY <2>1, <2>2, <2>3, Zenon
<1>14. ASSUME kind # "mult", NEW tag \in DOMAIN registry[kind] \ DOMAIN stream.entries
       PROVE  /\ tag \in DOMAIN registry'[kind]
              /\ heap'[registry'[kind][tag]] = Entry(kind, tag)
  <2>1. tag \in DOMAIN registry'[kind] /\ registry'[kind][tag] = registry[kind][tag]
    BY <1>14, <1>6, <1>7, Zenon
  <2> QED  BY <2>1, <1>4, <1>5, <1>8, <1>9, Zenon DEF Entry
<1> QED  BY <1>12, <1>13, <1>14, Zenon

-----------------------------------------------------------------------------
(* The theorems.                                                           *)

LEMMA InitIInv == Init => IInv
<1> SUFFICES ASSUME Init PROVE IInv
  BY Zenon
<1>1. \A kind \in Kinds : registry[kind] = <<>> /\ DOMAIN registry[kind] = {}
  BY DEF Init
<1>2. DOMAIN heap = {} /\ DOMAIN registry = Kinds
  BY DEF Init
<1>3. HeapOK(registry, heap, held, privateKeys)
  BY <1>1, <1>2 DEF Init, HeapOK, IsMap, OneTag
<1>4. Live(registry, held) = {}
  BY <1>1, ZenonT(60) DEF Init, Live, Image
<1> QED  BY <1>2, <1>3, <1>4, Zenon DEF Init, IInv, ContextsOK, StreamOK

LEMMA NextIInv == IInv /\ [Next]_vars => IInv'
<1> SUFFICES ASSUME IInv, [Next]_vars PROVE IInv'
  BY Zenon
<1> USE ProgramAssumption
<1>1. CASE UNCHANGED vars
  BY <1>1, HeapKept, Zenon DEF vars, IInv, ContextsOK
<1>2. CASE \E p \in Params : GenCryptoContext(p)
  BY <1>2, GenCryptoContextStep, Zenon
<1>3. CASE ReleaseAllContexts
  BY <1>3, ReleaseStep, Zenon
<1>4. CASE \E c \in Contexts, tag \in Tags : KeyGen(c, tag)
  BY <1>4, KeyGenStep, Zenon
<1>5. CASE \E k \in privateKeys : LoadPrivateKey(k)
  BY <1>5, LoadPrivateKeyStep, Zenon
<1>6. ASSUME NEW k \in privateKeys, EvalMultKeyGen(k) \/ EvalMultKeysGen(k) \/ EvalSumKeyGen(k)
      PROVE  IInv'
  <2>1. /\ SumIndices[ParamsOf[k.context]] \in SUBSET Indices
        /\ SumIndices[ParamsOf[k.context]] = {} => MayBeEmpty("sum", k.tag, privateKeys)
    BY IndexAssumption, ContextAssumption DEF MayBeEmpty, IInv, ContextsOK
  <2>2. {0} \in SUBSET Indices /\ Indices # {}
    BY IndexAssumption
  <2> QED  BY <1>6, <2>1, <2>2, ReplaceStep
              DEF EvalMultKeyGen, EvalMultKeysGen, EvalSumKeyGen, Kinds
<1>7. CASE \E k \in privateKeys, I \in RotationLists : EvalAtIndexKeyGen(k, I)
  BY <1>7, EvalAtIndexKeyGenStep, Zenon
<1>8. CASE \E k \in privateKeys, I \in HeldIndices : MakeKeyMap(k, I)
  BY <1>8, MakeKeyMapStep, Zenon
<1>9. CASE DropKeyMap
  BY <1>9, DropKeyMapStep, Zenon
<1>10. ASSUME NEW a \in held,
              InsertEvalMultKey(a) \/ InsertEvalSumKey(a) \/ InsertEvalAutomorphismKey(a)
       PROVE  IInv'
  BY <1>10, InsertEvalMultKeyStep, InsertEvalSumKeyStep, InsertEvalAutomorphismKeyStep, Zenon
<1>11. ASSUME NEW kind \in UsedKinds,
              \/ ClearAll(kind)
              \/ \E tag \in Tags : ClearForTag(kind, tag)
              \/ \E c \in allocated : ClearForContext(kind, c)
       PROVE  IInv'
  BY <1>11, EraseStep, ClearForContextStep, Zenon DEF ClearAll, ClearForTag
<1>12. ASSUME NEW kind \in UsedKinds,
              \/ SerializeAll(kind)
              \/ \E tag \in Tags : SerializeForTag(kind, tag)
              \/ \E c \in allocated : SerializeForContext(kind, c)
       PROVE  IInv'
  BY <1>12, SaveStep, SerializeForContextStep, Zenon DEF SerializeAll, SerializeForTag
<1>13. ASSUME NEW kind \in UsedKinds, Deserialize(kind)
       PROVE  IInv'
  BY <1>13, DeserializeStep, Zenon
<1> QED
  BY <1>1, <1>2, <1>3, <1>4, <1>5, <1>6, <1>7, <1>8, <1>9, <1>10, <1>11, <1>12, <1>13, Zenon DEF Next, Call

LEMMA AlwaysIInv == Spec => []IInv
BY InitIInv, NextIInv, PTL DEF Spec

\* The only calls that raise a fault are those of Fail, which change no map.
LEMMA NextFaultOK == FaultOK /\ [Next]_vars => FaultOK'
<1>1. ASSUME FaultOK, UNCHANGED vars
      PROVE  FaultOK'
  BY <1>1, Zenon DEF vars, FaultOK, HasEmptyEntry, Entry
<1>2. ASSUME fault = NoneFailed, UNCHANGED fault
      PROVE  FaultOK'
  BY <1>2, Zenon DEF FaultOK
<1>3. ASSUME NEW kind \in Kinds, Fail(kind),
             HasEmptyEntry(kind) \/ (kind # "sum" /\ \E a \in held : heap[a] = <<>>)
      PROVE  FaultOK'
  BY <1>3, Zenon DEF Fail, FaultOK, HasEmptyEntry, Entry
<1>4. ASSUME Call
      PROVE  \/ UNCHANGED fault
             \/ \E kind \in Kinds :
                  /\ Fail(kind)
                  /\ HasEmptyEntry(kind) \/ (kind # "sum" /\ \E a \in held : heap[a] = <<>>)
  <2>1. ASSUME NEW a \in held, InsertEvalMultKey(a)
        PROVE  UNCHANGED fault \/ (Fail("mult") /\ heap[a] = <<>>)
    BY <2>1, Zenon DEF InsertEvalMultKey
  <2>2. ASSUME NEW a \in held, InsertEvalAutomorphismKey(a)
        PROVE  UNCHANGED fault \/ (Fail("automorphism") /\ heap[a] = <<>>)
    BY <2>2, Zenon DEF InsertEvalAutomorphismKey
  <2>3. ASSUME NEW kind, NEW c, ClearForContext(kind, c) \/ SerializeForContext(kind, c)
        PROVE  UNCHANGED fault \/ (Fail(kind) /\ HasEmptyEntry(kind))
    BY <2>3, Zenon DEF ClearForContext, SerializeForContext
  <2>4. ASSUME \/ \E p \in Params : GenCryptoContext(p)
               \/ ReleaseAllContexts
               \/ \E c \in Contexts, tag \in Tags : KeyGen(c, tag)
               \/ \E k \in privateKeys :
                    \/ LoadPrivateKey(k) \/ EvalMultKeyGen(k) \/ EvalMultKeysGen(k)
                    \/ EvalSumKeyGen(k)
                    \/ \E I \in RotationLists : EvalAtIndexKeyGen(k, I)
                    \/ \E I \in HeldIndices : MakeKeyMap(k, I)
               \/ DropKeyMap
               \/ \E a \in held : InsertEvalSumKey(a)
               \/ \E kind \in UsedKinds :
                    \/ ClearAll(kind) \/ SerializeAll(kind) \/ Deserialize(kind)
                    \/ \E tag \in Tags : ClearForTag(kind, tag) \/ SerializeForTag(kind, tag)
        PROVE  UNCHANGED fault
    BY <2>4, Zenon
       DEF GenCryptoContext, ReleaseAllContexts, KeyGen, LoadPrivateKey, EvalMultKeyGen,
           EvalMultKeysGen, EvalSumKeyGen, EvalAtIndexKeyGen, MakeKeyMap, DropKeyMap,
           InsertEvalSumKey, ClearAll, SerializeAll, Deserialize, ClearForTag, SerializeForTag
  <2>5. "mult" \in Kinds /\ "automorphism" \in Kinds /\ "mult" # "sum" /\ "automorphism" # "sum"
    BY DEF Kinds
  <2> QED  BY <1>4, <2>1, <2>2, <2>3, <2>4, <2>5, ProgramAssumption, Zenon DEF Call
<1> QED  BY <1>1, <1>2, <1>3, <1>4, Zenon DEF Next

LEMMA AlwaysFaultOK == Spec => []FaultOK
<1>1. Init => FaultOK
  BY Zenon DEF Init, FaultOK
<1> QED  BY <1>1, NextFaultOK, PTL DEF Spec

\* The registries, the heap and the factory hold values of their types, and
\* the heap holds exactly what a registry or the caller points to.
THEOREM TypeCorrect == Spec => []TypeOK
<1>1. IInv /\ FaultOK => TypeOK
  BY Zenon DEF IInv, HeapOK, CellOK, ContextsOK, StreamOK, SavedOK, FaultOK, TypeOK
<1> QED  BY <1>1, AlwaysIInv, AlwaysFaultOK, PTL

\* Whatever is generated, inserted, merged, cleared and loaded in whatever
\* order: the keys under a tag in eval*KeyMap are keys of that tag.
THEOREM KeysStayUnderTheirTag == Spec => []KeysUnderTheirTag
<1>1. IInv => KeysUnderTheirTag
  BY DEF IInv, HeapOK, EntryOK, KeysUnderTheirTag, Entry, Image
<1> QED  BY <1>1, AlwaysIInv, PTL

\* CryptoContextFactory never lists two contexts of equal parameters.
THEOREM FactoryDoesNotDuplicate == Spec => []ContextsNotDuplicated
<1>1. IInv => ContextsNotDuplicated
  BY Zenon DEF IInv, ContextsOK, ContextsNotDuplicated
<1> QED  BY <1>1, AlwaysIInv, PTL

\* ClearEval*Keys(cc) and SerializeEval*Key(cc) take entries of cc's
\* parameters only.  They read the first key of an empty map only when
\* EvalSumKeyGen registered it for a context of batch size 1 or
\* EvalAtIndexKeyGen for an empty list; InsertEvalSumKey never does.
THEOREM SelectionByContextSound == Spec => []ContextSelectionSound
<1>1. ASSUME IInv, FaultOK
      PROVE  ContextSelectionSound
  <2>1. ASSUME NEW kind \in Kinds, fault = kind
        PROVE  HasEmptyEntry(kind) \/ (kind # "sum" /\ \E a \in held : heap[a] = <<>>)
    <3>1. kind # NoneFailed
      BY DEF Kinds, NoneFailed
    <3> QED  BY <1>1, <2>1, <3>1, Zenon DEF FaultOK
  <2>2. ASSUME NEW kind \in Kinds, NEW tag \in DOMAIN registry[kind], Entry(kind, tag) = <<>>
        PROVE  MayBeEmpty(kind, tag, privateKeys)
    <3>1. /\ EntryOK(kind, tag, Entry(kind, tag), privateKeys)
          /\ CellOK(Entry(kind, tag), privateKeys)
      BY <1>1, Zenon DEF IInv, HeapOK, Entry
    <3> QED  BY <2>2, <3>1, EmptyMap, Zenon DEF EntryOK, CellOK
  <2>3. ASSUME NEW kind \in Kinds, NEW c \in allocated, NEW tag \in EntriesOf(kind, c),
               NEW key \in Image(Entry(kind, tag))
        PROVE  ParamsOf[key.context] = ParamsOf[c]
    <3> DEFINE e == Entry(kind, tag)
    <3>1. tag \in DOMAIN registry[kind] /\ e # <<>> /\ First(e).context = c
      BY Zenon DEF EntriesOf
    <3>2. CellOK(e, privateKeys) /\ EntryOK(kind, tag, e, privateKeys)
      BY <1>1, <3>1, Zenon DEF IInv, HeapOK, Entry
    <3> HIDE DEF e
    <3>3. DOMAIN e \subseteq Nat /\ DOMAIN e # {}
      <4>1. DOMAIN e # {}
        BY <3>1, <3>2, EmptyMap, Zenon DEF CellOK
      <4> QED  BY <4>1, <3>2, IndexAssumption, Zenon DEF CellOK, IsMap
    <3>4. PICK i \in DOMAIN e : First(e) = e[i]
      BY <3>3, FirstIsKey, Zenon
    <3>5. PICK j \in DOMAIN e : key = e[j]
      BY Zenon DEF Image, e
    <3>6. /\ Owned(privateKeys, tag, ParamsOf[e[i].context])
          /\ Owned(privateKeys, tag, ParamsOf[e[j].context])
      BY <3>2, Zenon DEF CellOK, EntryOK
    <3> QED  BY <1>1, <3>1, <3>4, <3>5, <3>6 DEF Owned, IInv, ContextsOK
  <2> QED  BY <2>1, <2>2, <2>3, Zenon DEF ContextSelectionSound
<1> QED  BY <1>1, AlwaysIInv, AlwaysFaultOK, PTL

\* EvalAtIndexKeyGen takes no registered key away and changes none, in any
\* registry, although it writes into a map that others may point to.
THEOREM KeyGenKeepsKeys == Spec => KeyGenOnlyAdds
<1>1. ASSUME IInv, NEW k \in privateKeys, NEW I \in RotationLists, EvalAtIndexKeyGen(k, I),
             NEW kind \in Kinds, NEW tag \in DOMAIN registry[kind]
      PROVE  /\ tag \in DOMAIN registry'[kind]
             /\ \A i \in DOMAIN Entry(kind, tag) :
                  /\ i \in DOMAIN heap'[registry'[kind][tag]]
                  /\ heap'[registry'[kind][tag]][i] = Entry(kind, tag)[i]
  <2>1. I \in SUBSET Indices /\ (I = {} => MayBeEmpty("automorphism", k.tag, privateKeys))
    BY IndexAssumption, Zenon DEF MayBeEmpty
  <2>2. UNCHANGED privateKeys /\ MergeRotationKeys(k, I)
    BY <1>1, Zenon DEF EvalAtIndexKeyGen
  <2>3. registry[kind][tag] \in DOMAIN heap
    BY <1>1, Zenon DEF IInv, HeapOK
  <2>4. CASE k.tag \in DOMAIN registry["automorphism"]
    <3> DEFINE a == registry["automorphism"][k.tag]
               e == Overlay(heap[a], KeyMap(k, I, "automorphism"))
               cells == [heap EXCEPT ![a] = e]
    <3>1. /\ a \in DOMAIN heap
          /\ \A i \in DOMAIN heap[a] : i \in DOMAIN e /\ e[i] = heap[a][i]
          /\ HeapOK(registry, cells, held, privateKeys)
      BY <1>1, <2>1, <2>4, MergedCell, Zenon
    <3>2. Store(registry, cells, held)
      BY <2>2, <2>4, Zenon DEF MergeRotationKeys
    <3> HIDE DEF e
    <3>3. \A b \in DOMAIN heap : \A i \in DOMAIN heap[b] :
            i \in DOMAIN cells[b] /\ cells[b][i] = heap[b][i]
      BY <3>1, Zenon
    <3> HIDE DEF cells
    <3>4. \A l \in Kinds : \A t \in DOMAIN registry[l] :
            heap'[registry'[l][t]] = cells[registry[l][t]]
      BY <2>2, <3>1, <3>2, StoreOK
    <3>5. registry' = registry
      BY <3>2, Zenon DEF Store
    <3>6. heap'[registry'[kind][tag]] = cells[registry[kind][tag]]
      BY <1>1, <3>4, Zenon
    <3> QED  BY <1>1, <2>3, <3>3, <3>5, <3>6, Zenon DEF Entry
  <2>5. CASE k.tag \notin DOMAIN registry["automorphism"]
    <3> DEFINE made == KeyMap(k, I, "automorphism")
    <3>1. PICK b \in Maps :
            Free(b) /\ Store(SetEntry("automorphism", k.tag, b), Put(heap, b, made), held)
      BY <2>2, <2>5, Zenon DEF MergeRotationKeys, Replace
    <3> DEFINE reg == SetEntry("automorphism", k.tag, b)
    <3>2. HeapOK(reg, Put(heap, b, made), held, privateKeys)
      BY <1>1, <2>1, <3>1, ReplaceOK, Zenon DEF Kinds
    <3> HIDE DEF made
    <3>3. tag \in DOMAIN reg[kind] /\ reg[kind][tag] = registry[kind][tag]
      BY <1>1, <2>5, Zenon DEF SetEntry, Put, IInv, HeapOK
    <3>4. heap'[registry'[kind][tag]] = Put(heap, b, made)[reg[kind][tag]]
      <4> DEFINE cells == Put(heap, b, made)
      <4>1. Store(reg, cells, held) /\ HeapOK(reg, cells, held, privateKeys) /\ UNCHANGED privateKeys
        BY <2>2, <3>1, <3>2, Zenon
      <4> HIDE DEF cells, reg
      <4>2. \A x \in Kinds : \A y \in DOMAIN reg[x] : heap'[registry'[x][y]] = cells[reg[x][y]]
        BY <4>1, StoreOK
      <4>3. heap'[registry'[kind][tag]] = cells[reg[kind][tag]]
        BY <1>1, <3>3, <4>2, Zenon
      <4> QED  BY <4>3, Zenon DEF cells, reg
    <3> HIDE DEF reg
    <3>5. Put(heap, b, made)[registry[kind][tag]] = heap[registry[kind][tag]]
      BY <2>3, <3>1, Zenon DEF Put, Free
    <3>6. registry' = reg
      BY <3>1, Zenon DEF Store, reg
    <3> QED  BY <3>3, <3>4, <3>5, <3>6, Zenon DEF Entry
  <2> QED  BY <2>4, <2>5, Zenon
<1>2. IInv => ((\E k \in privateKeys, I \in RotationLists : EvalAtIndexKeyGen(k, I)) =>
       \A kind \in Kinds : \A tag \in DOMAIN registry[kind] :
         /\ tag \in DOMAIN registry'[kind]
         /\ \A i \in DOMAIN Entry(kind, tag) :
              /\ i \in DOMAIN heap'[registry'[kind][tag]]
              /\ heap'[registry'[kind][tag]][i] = Entry(kind, tag)[i])
  BY <1>1, Zenon
<1> QED  BY <1>2, AlwaysIInv, PTL DEF KeyGenOnlyAdds

\* DeserializeEvalSumKey and DeserializeEvalAutomorphismKey leave the entries
\* of the tags that are not in the stream as they were.
THEOREM LoadReplacesMatchingOnly == Spec => DeserializeReplacesMatchingOnly
<1>1. IInv => LoadKeepsOthers("sum") /\ LoadKeepsOthers("automorphism")
  BY DeserializeStep, Zenon DEF LoadKeepsOthers, Kinds
<1> QED  BY <1>1, AlwaysIInv, PTL DEF DeserializeReplacesMatchingOnly

\* Saving and loading a registry, with any calls between them, gives back
\* every key, on a context object that the factory lists and that has the
\* parameters of the one it was made on.
THEOREM LoadRestoresSaved == Spec => DeserializeRestores
<1> DEFINE Restored(kind) ==
      \A tag \in DOMAIN stream.entries :
         LET saved == stream.entries[tag]
             loaded == heap'[registry'[kind][tag]]
         IN  /\ DOMAIN loaded = DOMAIN saved
             /\ \A i \in DOMAIN saved :
                  /\ loaded[i].tag = saved[i].tag
                  /\ loaded[i].by = saved[i].by
                  /\ loaded[i].context \in allContexts'
                  /\ ParamsOf[loaded[i].context] = saved[i].params
<1>1. ASSUME IInv, NEW kind \in Kinds, Deserialize(kind)
      PROVE  Restored(kind)
  <2>1. \A tag \in DOMAIN stream.entries :
          heap'[registry'[kind][tag]] = LoadEntry(stream.entries[tag])
    BY <1>1, DeserializeStep, Zenon
  <2>2. \A tag \in DOMAIN stream.entries : \A i \in DOMAIN stream.entries[tag] :
           LET p == stream.entries[tag][i].params
           IN  /\ ContextFor(p) \in allContexts'
               /\ ContextFor(p) \in Contexts
               /\ ParamsOf[ContextFor(p)] = p
    BY <1>1, LoadedContexts, ZenonT(60) DEF Deserialize
  <2> SUFFICES ASSUME NEW tag \in DOMAIN stream.entries
               PROVE  LET saved == stream.entries[tag]
                          loaded == LoadEntry(saved)
                      IN  /\ DOMAIN loaded = DOMAIN saved
                          /\ \A i \in DOMAIN saved :
                               /\ loaded[i].tag = saved[i].tag
                               /\ loaded[i].by = saved[i].by
                               /\ loaded[i].context \in allContexts'
                               /\ ParamsOf[loaded[i].context] = saved[i].params
    BY <2>1, ZenonT(60)
  <2> DEFINE saved == stream.entries[tag]
             loaded == LoadEntry(saved)
  <2>3. /\ DOMAIN loaded = DOMAIN saved
        /\ \A i \in DOMAIN saved : /\ loaded[i].tag = saved[i].tag
                                   /\ loaded[i].by = saved[i].by
                                   /\ loaded[i].context = ContextFor(saved[i].params)
    BY Zenon DEF LoadEntry
  <2> HIDE DEF loaded
  <2>4. \A i \in DOMAIN saved : /\ ContextFor(saved[i].params) \in allContexts'
                                /\ ParamsOf[ContextFor(saved[i].params)] = saved[i].params
    BY <2>2, Zenon
  <2> QED  BY <2>3, <2>4, Zenon DEF loaded
<1>2. IInv => \A kind \in Kinds : Deserialize(kind) => Restored(kind)
  BY <1>1, Zenon
<1> QED  BY <1>2, AlwaysIInv, PTL DEF DeserializeRestores
=============================================================================
