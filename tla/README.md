# A TLA+ model of OpenFHE

OpenFHE is a C++ library for fully homomorphic encryption. Three kinds of things
can go wrong in it that tests hardly reach. The bookkeeping around the arithmetic:
which primes a ciphertext still has, what scale its message is at, which key belongs
to which tag and context. The state that contexts and threads share: key registries,
transform tables, the block allocator. And the arithmetic itself at its boundaries:
quotient estimates, base conversions, roundings. The modules here model all three,
TLC checks them on small instances, and TLAPS proves the first two, and the algebra
of keys and ciphertexts, for instances of every size.

## The system and its parts

The source has three layers: `core` (integers, ring elements, transforms,
utilities), `pke` (the BFV, BGV and CKKS schemes behind a crypto context) and
`binfhe` (Boolean circuits on LWE ciphertexts, not modelled).

A crypto context, made by a factory, owns a scheme and its parameters. A call of the
context checks its arguments and goes to the scheme, which reads the tables of the
parameters and the keys of static registries. Ciphertexts and keys are ring elements,
kept as residues modulo a chain of primes; ring elements compute with native or
multi-limb integers, get their transforms from static tables filled on first use, and
their memory from the block allocator.

| Part | Module | State |
|---|---|---|
| Leveled SHE of CKKS, its scaling factors | `CKKSLeveledSHE` | towers, level, degree and scale of ciphertexts |
| Leveled SHE of BGV, its scaling factors | `BGVLeveledSHE` | the same, with a residue modulo t as scale |
| BFV with four multiplication, two encryption and two key switching techniques | `BFVRNS`, `RNS` | keys and ciphertexts as residues |
| Evaluation key registries, context factory | `KeyRegistry` | static maps, heap, list of contexts, a stream |
| Facade of the context: the operations on ciphertexts and their keys | `HomomorphicStore`, over `RLWE` | ciphertext variables, key maps, hoisted digits |
| What the facade promises | `PlaintextStore` | message variables |
| Threshold encryption | `Threshold`, over `RLWE` | published key shares, ciphertexts, partial decryptions |
| Block allocator | `BlockAllocator` | table, allocators, blocks, calls of the threads |
| Static transform tables | `TransformTables` | tables, lock, calls of the threads |
| Transforms of orders that are not powers of two | `ArbTransform` | tables by modulus |
| Ring elements of a power-of-two ring | `Poly` | an element and the polynomial it stands for |
| Number theory | `NumberTheory` | the outcomes of the last call |
| Native and multi-limb integers | `NativeInteger`, `BigInteger` | a number and the natural number it stands for |

`PROJECT.json` lists every part with its sources, maps each definition to the lines
it models, and lists under `hazards` the places where the code is exposed to
something a test would hardly reach, with the properties that cover them.

## Modules

### Levels and scales: `CKKSLeveledSHE`, `BGVLeveledSHE`

They model `LeveledSHERNS` with `LeveledSHECKKSRNS` and `LeveledSHEBGVRNS`
(`pke/lib/schemerns/rns-leveledshe.cpp`, `ckksrns-leveledshe.cpp`,
`bgvrns-leveledshe.cpp`), the scaling factor tables of the parameters and the scales
of the encodings.

*State.* `ct` maps the variables of a program (`Regs`) to ciphertexts, `sent` is the
last compressed ciphertext. A ciphertext is a record: `towers` (the length of its ring
elements), `level`, `deg` (`GetNoiseScaleDeg`), `sf` (the recorded scaling factor),
and three ghost fields the code does not have: `scale`, the factor the message really
is multiplied by, `depth`, the multiplicative depth of the circuit that computed it,
and `fault`, what went wrong on the way.

*Scales.* In CKKS a scale is a product of primes and powers of two, written as an
integer logarithm: products are sums, and only equality matters. The floating point
error is abstracted away. In BGV it is a residue modulo the plaintext modulus `T`:
rescaling by a prime multiplies the message by the inverse of the prime.

*Actions.* One per call of the API: encryption, sums and products with ciphertexts,
plaintexts and constants, their mutable forms, `EvalSquare`, `ModReduce`,
`LevelReduce`, `Compress`. Subtractions adjust their operands as additions do and share
their actions. A mutable call changes the variables its operands come from. Negation,
rotation and relinearisation leave this state alone.

*Caller's duties.* `WithinDepth` keeps a program within the depth the context was
generated for (automatic rescaling) or the towers it has (manual rescaling).
`Addable` keeps a manual program from adding unequal degrees, which the code
neither checks nor repairs.

### BFV on residues: `RNS`, `BFVRNS`

`RNS` has the base conversions, scalings and roundings of `DCRTPoly`
(`core/lib/lattice/dcrtpoly.cpp`) on one coefficient, with the precomputed tables as
arguments. A sum of doubles is the exact sum plus a `drift` of up to a quarter, chosen
nondeterministically. `BFVRNS` computes the tables as `bfvrns-cryptoparameters.cpp`
does and has one action for each of context generation, key generation, encryption
with either key, sums, products with and without relinearisation, squares, plaintext
operands, monomials and automorphisms, for HPS, HPSPOVERQ, HPSPOVERQLEVELED and BEHZ,
STANDARD and EXTENDED encryption, BV and HYBRID key switching. `cts[i].msg` is the
message the ciphertext should decrypt to. Samples are drawn from small sets.

### Key registries and factory: `KeyRegistry`

Models the static maps of `CryptoContextImpl` (`pke/lib/cryptocontext.cpp`,
`pke/include/cryptocontext.h`) and `CryptoContextFactory`. `registry[kind]` maps tags
to heap addresses and `heap` maps addresses to maps from indices to keys: the sum and
automorphism registries hold `shared_ptr`s a caller may hold too (`held`).
`allContexts` is the factory's list, `allocated` the context objects that
exist, `stream` the last serialization. A key carries its tag, the context object it
points to and the kind of call that made it; serialization keeps the parameters of the
context, not the object. The actions are `GenCryptoContext`, `ReleaseAllContexts`,
`KeyGen`, `LoadPrivateKey`, and generation, insertion, clearing, saving and loading for
each registry. `SumIndices` gives the rotations `EvalSum` needs with given parameters,
none for a batch size of 1. A call that reads the first key of an empty map has
undefined behaviour: it sets `fault` to its registry, and the behaviour ends.

### The facade: `RLWE`, `PlaintextStore`, `HomomorphicStore`

`RLWE` is the algebra that `PKEBase`, `KeySwitchBV`, `LeveledSHEBase`, `PREBase` and
`MultipartyBase` compute on elements: key generation, encryption, key switching,
relinearisation with a vector of keys, automorphisms, convolution of ciphertexts of
any length, re-encryption, decryption. Scalars form any commutative ring, an
element is a function from slots to scalars, an automorphism permutes slots. The noise
terms and the digits of key switching are left out; `BFVRNS` has both.

`PlaintextStore` is what a context promises: variables hold messages, each under the
key of an owner, and an operation computes on messages. `HomomorphicStore` is what
the code does: variables hold ciphertexts, operations look up keys by tag, products
may stay unrelinearised, rotations may use digits computed earlier
(`EvalFastRotationPrecompute`), `ReEncrypt` may blind with a public key. A call that
throws changes nothing, so its condition is a guard; what the code leaves to its caller
is a guard too, marked "caller". The refinement mapping decrypts:
`store <- Messages`, where `Messages[x]` is the tag of `ct[x]` and what `DecryptCore`
gives with the secret key of that tag.

### Threshold encryption: `Threshold`

Models `base-multiparty.cpp` and its callers. Everything the parties publish (`pub`,
`round1`, `round2`, `autoShares`, `parts`) is a set of messages that anyone may use in
any order. A key names the coalition `who` whose shares it is made of, which stands
for its tag. Actions: the ways to make and add public keys, the two rounds of the
relinearisation key, automorphism keys, inserting joint keys, operations on
ciphertexts, lead and main partial decryptions, and fusion as the loop it is
(`fusing`). Callers never combine two objects that already share a party; the code does
not check that.

### Shared state of the process: `BlockAllocator`, `TransformTables`, `ArbTransform`

`BlockAllocator` models `xallocator.cpp` and the heap mode of `blockAllocator.cpp`.
`table` is `_allocators`, `allocator` the allocator objects with their counters and
list heads, `mem` the raw blocks with their first word (a header while in use, a link
while free), `clients` what threads believe they own, `call` the program counter of
each thread. `xmalloc` holds the lock from start to end and is one action; `xfree`
reads the header before it takes the lock and is two; `xrealloc` is an allocation, a
copy and a free. Sizes are real byte counts and the size class is computed with the
header, as in `xallocator_get_allocator`.

`TransformTables` models the static tables of `dftransform.cpp`,
`transformnat-impl.h` and `packedencoding.cpp`. `table` maps a key (which table,
modulus, order) to the order its content was computed for. A parallel region (`Fork`)
gives each thread of a team a call, a sequence of parts; a team of one is the serial
part of a program. A thread tests whether a table is there (`Check`, `Reread`, `Find`,
all outside the lock), enters a critical section (`Enter`; unnamed sections are one
lock), makes its assignments one by one (`Write`) and reads the tables (`Transform`,
outside the lock). A thread that reads while another writes may read anything: its `ok`
becomes FALSE. A region is *cold* when it has several threads and some table is
missing. What threads of a cold region compute is not claimed to be right, except for
the transform of Field2n. The model follows the first cold region to its end and does
not fork after it: a race on a map there is undefined behaviour, and nothing is claimed
of what a program does afterwards.

`ArbTransform` models the Bluestein transform and the reduction by a cyclotomic
polynomial, whose tables are kept by modulus alone, for programs that use several rings.

### Arithmetic: `Poly`, `NumberTheory`, `NativeInteger`, `BigInteger`

Each has a program that works on one value next to the mathematical value it stands
for, with one action per operation, so a sequence of operations is checked as well as
each of them. `Poly` is `PolyImpl` with its transforms in bit-reversed order,
automorphisms, digit decompositions and the conversions of its values. `NumberTheory`
is `nbtheory.cpp`; a randomised function is the set of its outcomes. `NativeInteger`
(`ubintnat.h`) has Barrett and Shoup multiplication in words of `WordBits` bits,
`BigInteger` (`ubintdyn.cpp`) limbs, normalisation, long division, shifts and Euclid
with limbs of `LimbBits` bits. The build defines `NO_BARRETT` (`ubintdyn.h:42`), so the
operations of `ubint` that take a `mu` are those without one.

### MC modules

`MCCKKSLeveledSHE` and `MCBGVLeveledSHE` instantiate the component once for each
scaling technique and let a variable `tech` choose, so one run covers several
techniques; `MCBGVLeveledSHE` has BFV as one more choice. `MCTransformTables` and
`MCCoreLibrary` do the same with a variable `part`. `MCHomomorphicStore` and
`MCThreshold` fix the ring, the fifth cyclotomic ring modulo 11, with elements
in which no two slots or samples are alike. `MCKeyRegistry` adds the parameters of
contexts and the constraint `Bounds`.

## Runs

| Run | Question | Properties | Result |
|---|---|---|---|
| `ckks_techniques` | Do sums and products of any operands meet at one scale and modulus, with FLEXIBLEAUTO, FLEXIBLEAUTOEXT, FIXEDMANUAL? | `TypeOK`, `DecodesAtTrueScale`, `ManualDecodesAtTrueScale`, `NoFault`, `RescaleHeadroom`, `SentDecodes` | hold |
| `bgv_techniques` | The same for BGV with all four techniques, and does BFV decrypt what was computed? | `DecryptsToMessage`, `NoFault`, `RescaleHeadroom`; `BFVDecrypts`, `NoiseWithinEstimate`, `ConversionsExact` | hold |
| `key_registry` | Do keys stay under their tag and with their context, and does a load or merge change only what it names? | `TypeOK`, `KeysUnderTheirTag`, `ContextsNotDuplicated`, `ContextSelectionSound`, `KeyGenOnlyAdds`, `DeserializeReplacesMatchingOnly`, `DeserializeRestores` | hold |
| `homomorphic_store` | Does a program on ciphertexts implement the program on messages? | `Implements` | holds |
| `threshold` | Are joint keys keys of the sum of the shares, and is a fusion the message? | `PublicKeysJoint`, `RelinKeysJoint`, `AutoKeysJoint`, `CiphertextsRight`, `FusionRight` | hold |
| `transform_tables` | Do calls compute with the right tables, do regions end, and are number theory, ring elements and transforms of other orders right? | `TablesCoherent`, `SerialAndWarmCallsRight`, `FieldTransformsRight`, `WarmRegionsReadOnly`, `RegionsJoin`; `RightAnswers`, `ElementRepresents`, `ArbitraryTransformsRight` | hold |
| `core_library` | Does the allocator keep blocks apart, and do integers compute what natural numbers do? | `BlockInOnePlace`, `UsedBlocksHold`, `CountersExact`, `OneAllocatorPerSize`, `DestroyLeavesUnfreed`; `Exact`, `WordExact` | hold |
| `ckks_fixedauto_scale` | FIXEDAUTO | `DecodesAtTrueScale` | violated |
| `bgv_plaintext_level` | FLEXIBLEAUTO with plaintexts made at level 1 | `NoFault` | violated |
| `keys_mult_load` | loading multiplication keys | `DeserializeMultReplacesMatchingOnly` | violated |
| `reencrypt_recipient` | re-encryption blinded with the recipient's key | `ReEncryptKeepsMessage` | violated |
| `native_barrett` | Barrett reduction of any word | `WordExact` | violated |

`Implements` is a refinement: the specification of `PlaintextStore` as a property of
`HomomorphicStore`. `KeyGenOnlyAdds`, `DeserializeReplacesMatchingOnly`,
`DeserializeRestores` and `WarmRegionsReadOnly` are action properties, `RegionsJoin` is
a liveness property, the others are invariants.

### Bounds

* *Levels and scales.* A call reads at most two ciphertexts, so two variables give every
  pair of operands. Five primes give every branch of the adjustment room: gaps of
  one, two and more levels, and both ends of the chain. The weights of the primes
  (CKKS) and their residues (BGV, powers of a generator modulo 17) are chosen so that
  no two short products coincide, and an adjustment with the wrong prime shows.
* *BFV.* Dimension 2, three primes of seven bits, eleven contexts that pair each
  multiplication technique with the encryption and key switching techniques, depth two,
  two operations after encryption, one message and one sample each: large enough for
  HPSPOVERQLEVELED to drop a modulus, small enough for every product to fit TLC's
  integers. The cushion of `FindLevelsToDrop` is 0 where the code has 16 bits, so the
  estimate itself is checked.
* *Registries.* Two tags, contexts of equal and of different parameters, and two indices,
  so that a merge meets a new and an old one. `Bounds` fills the multiplication registry
  while the others are empty, since it shares no map with them, and lets a stream wait
  only for a registry it can be loaded into. One set of parameters has a batch size of 1,
  and a rotation list may be empty, so that registered maps without keys come about.
* *Facade.* Two variables, two owners, up to four elements (a product of an
  unrelinearised product) and four calls, keys first.
* *Threshold.* Three parties, the least for which groupings differ. A behaviour pursues
  one goal (public, relinearisation or automorphism keys, each up to fusion), and later
  stages are not interleaved with earlier ones: nothing published is ever changed.
* *Tables.* Two threads, a CKKS and a smaller BGV ring that share a modulus, a plaintext
  modulus that is not prime, and one size of Field2n.
* *Allocator.* Two threads, four blocks and three size classes for a table of two slots,
  so that the table fills.
* *Integers and number theory.* Words of 8 bits, limbs of 3 bits and up to three of them,
  operands at both ends of the range and moduli of each shape; number theory in
  words of 12 bits, for arguments up to 45 and near the largest word.
* *Ring elements.* Dimension 4, two moduli, programs of three operations. *Arbitrary
  orders:* five rings, some of which share a convolution modulus or an order.

Deadlock is not checked where the program may simply stop calling. A thread that waits
for ever is what `RegionsJoin` excludes.

### Fairness

Only `RegionsJoin` needs it. `TransformTables` assumes weak fairness of each thread's
`Step`: a thread that can go on does, and one that waits for a critical section that
stays free enters it. OpenMP threads are operating system threads, each region is
finite, and no holder of the lock waits for anything, so weak fairness is enough.

### Mutants

For each property `PROJECT.json` names an operator that changes one definition as a slip
in the code would (a dropped guard, an off-by-one, a swapped order), under which the
property fails in the same run.

### What the violated runs show

* `ckks_fixedauto_scale`. `GetScalingFactorRealBig` returns `m_approxSF` and not its
  square in the FIXED techniques (`rns-cryptoparameters.h:601`). Adding operands of
  degree 1 whose levels differ by one multiplies one of them by 1 instead of 2^p
  before it is rescaled.
* `bgv_plaintext_level`. `MakePlaintext` encodes with all the towers whatever the
  level, in the FLEXIBLE techniques (`cryptocontext.h:230`). The level it records
  equals that of a ciphertext with fewer towers, no adjustment is made, and
  `operator+=` adds ring elements of different length.
* `keys_mult_load`. `DeserializeEvalMultKey` loads into the registry itself, which
  empties it first (`cryptocontext.h:605`); the comment above it promises that
  matching keys are replaced.
* `reencrypt_recipient`. `PREBase::ReEncrypt` adds an encryption of zero under
  `publicKey` before it switches the key (`base-pre.cpp:54`), so `publicKey` has to be
  the key the ciphertext is under. The documentation asks for that of the recipient
  (`cryptocontext.h:2461`); the unit tests pass the original key.
* `native_barrett`. The last correction of the native Barrett reductions compares with
  `>` (`ubintnat.h:783`), so a multiple of the modulus whose quotient is
  estimated one too small is reduced to the modulus and not to 0.

## Proofs

Eight modules hold theorems. Each invariant below is proved in three steps: it holds
initially, each action preserves it, and it implies the properties. The theorems hold for every value of the constants that
satisfies the named assumptions of the module, which TLC evaluates in the runs.
Where a proof needs induction over naturals (powers, sums, lengths of ciphertexts, the
table of factors), it takes the least counterexample (`LeastNat`).

### `CKKSLeveledSHE_proofs`

For every number of primes, all weights, every depth and every set of variables:

| Theorem | Statement |
|---|---|
| `FlexibleInvariant`, `FlexibleTyped`, `FlexibleDecodesAtTrueScale`, `FlexibleNoFault`, `FlexibleRescaleHeadroom`, `FlexibleSentDecodes` | with FLEXIBLEAUTO and FLEXIBLEAUTOEXT, the invariant and each of the run's properties |
| `ManualInvariant`, `ManualDecodes`, `ManualNoFault` | the same with FIXEDMANUAL |

*Assumptions.* `SizeAssumption`: one prime for each level of depth, one for the message
and one more for FLEXIBLEAUTOEXT. `TableAssumption`: the recurrence of the factors.
`FixedAssumption`: with the FIXED techniques each prime above the first weighs 2^p. The
flexible theorems also assume that no object is passed twice to a mutable product.

*Argument.* `DecodesAtTrueScale` is not inductive: after a sum the recorded factor is
that of one operand, so both must have had the same true scale. The invariant says that
each ciphertext is `Good`: its recorded and true scale are both `Canon(level, degree)`,
the one scale that its level and degree prescribe, so operands brought to one level and
degree have one scale. Two more conjuncts make this inductive. A level is paid for by
depth (`level + deg <= depth + ExtraPrime + 1`), so no adjustment reads the table past
its exact part. And with FLEXIBLEAUTOEXT no ciphertext of level 0 has degree 1, since
the extra prime is dropped first. The central lemma, `AdjustDownMeets`, goes through
the branches of `AdjustLevelsAndDepthInPlace`. With FIXEDMANUAL the scale is the degree
times 2^p (`GoodManual`), and the degree never exceeds the towers.

### `BGVLeveledSHE_proofs`

`BGVTyped`, `BGVDecryptsToMessage`, `BGVNoFault`, `BGVRescaleHeadroom`: for every prime
plaintext modulus, all residues of the primes and all four techniques.

*Assumptions.* The plaintext modulus is a prime above 2; no prime of the chain is a
multiple of it, and with the FIXED techniques each is 1 modulo it, as `getCyclicOrder`
makes them. With the FLEXIBLE techniques plaintexts are made at level 0: the run
`bgv_plaintext_level` shows that this is needed.

*Argument.* The invariant has the shape of the one for CKKS, but a scale is a residue.
The module first proves that the residues modulo a prime that are not 0 form a group
under `ModMul` and that `ModInverse`, a search, finds the inverse. `Canon` then follows
the table of factors through products and inverses of the dropped primes. The last
factor of FLEXIBLEAUTOEXT, which the code leaves 0, is never read:
`level <= MultDepth`.

### `KeyRegistry_proofs`

`TypeCorrect`, `KeysStayUnderTheirTag`, `FactoryDoesNotDuplicate`,
`SelectionByContextSound` (invariants), `KeyGenKeepsKeys`, `LoadReplacesMatchingOnly`,
`LoadRestoresSaved` (action properties): for every number of contexts, parameter
sets, tags, indices and heap cells.

*Argument.* An insertion may put a map that the caller holds under a tag, and a later
generation writes into that map through either pointer. So the invariant speaks of heap
cells and not of registries: the keys of a cell have one tag, and each is of parameters
on which that tag was drawn; an entry points to a live cell of its tag; the cells alive
are those somebody points to; a stream holds keys of the tags it lists them under. A
tag is drawn once, so a secret key read back is on a context of the same parameters.
A map without keys has no tag of its own; that all pointers to one cell are under one
tag covers it too. An empty map under a tag stays accounted for (`MayBeEmpty`) through
saving and loading. Why a fault came about is a second invariant, `FaultOK`: only calls
that leave the maps as they are raise one, and the behaviour ends there.

### `BlockAllocator_proofs`

`BlocksAlwaysInOnePlace`, `UsedBlocksAlwaysHold`, `CountersAlwaysExact`,
`OneAllocatorPerSizeAlways`, `DestroyLeavesTheUnfreed`: for every number of threads,
blocks, allocators, sizes and slots of the table.

*Assumptions.* A request with its header is positive and at most the largest block.

*Argument.* A free list exists only as links in the first words of blocks. The invariant
says that there are stacks, one for each allocator, whose members the links
connect in order (`\E st : Core(st, ...)`); each action pushes, pops or leaves them. On
top of that: each block is on one stack, once, or in one hand (`Heap`); a block that is
out names an allocator of its size, and `inUse` counts it (`Out`); the blocks that
clients own and that calls have in hand are disjoint, large enough and hold what was
written, and the owner a freeing call read before it took the lock is still the block's
word (`Hands`); there is one allocator for each size, and all are in the table while it
has room (`Tables`). After `xalloc_destroy` no call is under way.

### `RLWE_proofs`, `HomomorphicStore_proofs`, `Threshold_proofs`

`RLWE_proofs` has the lemmas the other two rest on. Elements form a commutative ring on
which automorphisms act. Key switching, relinearisation, automorphism and encryption
do to the phase (what `DecryptCore` computes) what they should. For ciphertexts of any
length, the phase of a sum, a difference and a convolution is the sum, difference and
product of the phases.

`ComputesOnMessages` states that `HomomorphicStore` implements `PlaintextStore`, for
every commutative ring, set of variables, owners, keys and samples and every length of
ciphertext. It assumes that `ReEncrypt` is not blinded with the recipient's key, the
case of the violated run. The invariant says that every registered vector of
relinearisation keys switches the powers of its owner's secret, every automorphism key
switches the image of the secret, and digits are those of the ciphertext they were
computed from. Each action is then shown to be a step of the plaintext store or a
stutter.

`IInvHolds`, `PublicKeysJointHolds`, `RelinKeysJointHolds`, `AutoKeysJointHolds`,
`CiphertextsRightHolds`, `FusionRightHolds`: the threshold protocol for every number of
parties, all shares and samples. The properties speak of finished keys; the invariant
adds what the partial ones satisfy: a round-one key of coalition W switches from the sum
of its shares to itself, a round-two key from the product of two sums, a fusion under
way is the sum of the partial decryptions added so far. `PartyAssumption` defines the
sum of the shares of a coalition; ciphertexts have up to three elements.

### `TransformTables_proofs`

`TablesInvariant`, `CoherentTables`, `SerialAndWarmRight`, `FieldRight` (invariants) and
`WarmReadOnly` (an action property): for every number of threads, contexts, rings and
moduli. `TablesAssumption`: orders are positive multiples of 4.

*Argument.* In the middle of a critical section the tables of a modulus are of
different rings. The invariant therefore speaks of what a table will hold when the
section under way has ended (`Settled`: the content, or the last pending write). That
does not change while the section writes, and with the lock free it is the content.
Settled tables are coherent, only the holder of the lock has pending writes, and what a
thread is about to write is a whole section for one ring. As long as no region was cold
(`Calm`), a thread alone in its region finds, at each step, the tables that its test
found or its section made, and the threads of a warm region only read. That needs the
history: the order of the DFT tables is that of the last context generated
(`LastKept`), for `Initialize` replaces the only set there is. The guard on `Fork`
that ends a behaviour with its first cold region is part of what is proved about.

### Only model-checked

* `RegionsJoin` is a liveness property; the prover does not support fairness.
* `BFVDecrypts`, `NoiseWithinEstimate`, `ConversionsExact`, `Exact`, `WordExact`,
  `RightAnswers`, `ElementRepresents` and `ArbitraryTransformsRight` are about
  algorithms on data (long division, Barrett estimates, transforms, base conversion with
  rounding), written with recursive operators and folds that the prover cannot unfold.
* FIXEDAUTO of CKKS has no theorem: its `DecodesAtTrueScale` is violated.

## Remarks on the code that no run asserts

Met while modelling; unless said otherwise, constants or guards keep them out of the
passing runs.

*Leveled SHE and keys.*
* A mutable product called with the same object twice rescales it twice
  (`ckksrns-leveledshe.cpp:609`). The constant `AliasedOperands` turns the call on.
* Relinearisation after HPSPOVERQLEVELED drops moduli by an estimate of its rounding and
  not of the noise of BV key switching (`bfvrns-leveledshe.cpp:866`).
  `UncountedNoise` excludes these ciphertexts; the 16 bits in reserve hide it.
* `ScaleAndRoundPOverQ` takes a floor where `dcrtpoly-interface.h:1190` documents
  rounding; the noise of EXTENDED encryption is within twice the estimate, as
  `NoiseWithinEstimate` states.
* `RelinearizeCore` of BFV keeps elements 0 to 2 only. Rotations of ciphertexts of three
  elements are wrong, and so are hoisted rotations with digits of an older value of the
  variable: both are caller's duties in `HomomorphicStore`.
* `KeySwitch` of the context does not change the key tag. `EvalMultKeyGen` after
  `EvalMultKeysGen` replaces the longer vector of keys.
* After `ReleaseAllContexts` two context objects of equal parameters can be in use.
  Selection by context compares objects, so it finds fewer keys than equality of
  parameters would. `ContextSelectionSound` states what remains true.
* `EvalSumKeyGen` with a batch size of 1 (`base-advancedshe.cpp:450`) and
  `EvalAtIndexKeyGen` with an empty list register a map without keys. From then on
  `ClearEvalSumKeys(cc)` (`cryptocontext.cpp:238`), its automorphism twin and
  `SerializeEval*Key` for a context read `begin()` of that map, whichever context they
  are called for. `InsertEvalMultKey` and `InsertEvalAutomorphismKey` do so with an
  empty argument. The run `key_registry` reaches all of these.

*Tables and memory.*
* When the allocator table is full, each further allocation of a new size makes an
  allocator that no later call finds; its blocks still return to it.
* The tables of the reduction by a cyclotomic polynomial are kept by the convolution
  modulus alone and filled outside a critical section; for orders 9, 25 and 49 the
  length of the division transform is less than the order.
* A plaintext modulus that is not prime makes `PackedEncoding::SetParams` throw out of
  an OpenMP critical section (`packedencoding.cpp:241`), which OpenMP leaves undefined.
  `TransformTables` follows the build in which the exception reaches the `catch`.

*Arithmetic.*
* `NativeInteger`: `ModMulEq` with `mu` does not reduce its operand; the overflow check
  of products is incomplete and off in the build (`ubintnat.h:77`).
* `ubint`: a right shift in place past the end removes the only limb; `ModMul` returns
  the other factor unreduced when one is 1.
* `nbtheory`: `FindGenerator(3)`, `FindGeneratorCyclic(6)` and `RootOfUnity` of order 1
  do not end; `ModInverse` of `usint` is wrong for some coprime pairs such as (3, 7);
  `FindAutomorphismIndexCyclic` gives one index for 1 and 2 (no callers).
* `PolyImpl`: some operations leave the modulus where a zero belongs, which later ones
  cope with (`ElementRepresents`); `Minus(Integer)` subtracts from all entries while
  `Plus(Integer)` adds to the first, as documented; adding elements of different format
  is not checked.

## Not modelled

* CKKS bootstrapping, the samplers, matrices and trapdoors: numerical, their
  correctness is an error bound over large rings.
* BinFHE: a library beside this one that shares the integers, elements and transforms.
* The secret sharing that recovers the share of an absent party; the pool modes of the
  allocator, which `xallocator` does not use; the fixed-size integer back end, an
  alternative build; the security tables of parameter generation; byte formats of
  serialization.
* The evaluation trees of the advanced SHE are fixed sequences of calls that
  `CKKSLeveledSHE` and `HomomorphicStore` let happen in any order.
