# Specifications of PageBloomFilter

PageBloomFilter is a Bloom filter whose probes for one key all fall into one
page of the bitmap. The repository holds one native core (C++), a C API over raw
buffers, and bindings or ports for Go, Java, .NET, Python, Rust and
TypeScript/WebAssembly that share the bitmap layout, so that a filter saved by
one can be restored by another.

## 1. Inventory

### 1.1 Native core: `include/pbf.h`, `src/pbf.cc`, `src/pbf-internal.h`
State: `m_page_level`, `m_page_num` (a `Divisor`), `m_unique_cnt`, `m_space` (owned
buffer, null when construction was refused or the object was moved from).
Operations: the constructor (refuses a bad layout by leaving `m_space` null), the
two restore overloads of `New`, `set`, `test`, `clear`, move into `BloomFilterImp`.
Hard: `set` reads and writes its probes one at a time, and two probes of a key may
coincide; `unique_cnt` is a count of bitmap changes, not of keys; restoring trusts
the caller's way, level and count; a moved-from object keeps its page number.
Correct when: no key that was set is ever reported absent; the bitmap is the union
of the probes of the keys, whatever their order; the count moves exactly when the
bitmap does; a probe never leaves the page of its key.

### 1.2 `Divisor` (pbf.h:55-117)
State: the divisor and a precomputed factor of twice the word's width. Operations:
assign, `div`, `mod`. Hard: wrap-around at divisor 1 (the factor is 0), divisor 0, the
boundary values. Correct when `div`/`mod` equal the exact quotient and remainder.

### 1.3 Sizing: `BestWay`, `Create` (pbf.h:177-224) and its six ports
Pure. Input: items and false-positive rate; output: way, page level, page number.
Hard: two different selectors of the way (bit checks in C++ and Rust, rounding in
the others), the level bumped once for ways 5-8, the exclusive page limit, and the sum that rounds
a request up to pages, which is one of machine words: of 32 or 64 bits, with or without a sign.
Correct when every accepted layout is one the constructor accepts, holds the bytes
asked for, and wastes less than a page.

### 1.4 Hashes: `src/hash.cc`, `src/aesni-hash.h` and four ports
Pure. The standard hash must agree bit for bit in all languages; they end their loops
and gather the last bytes of a key differently. The AES-NI hash of the native core
has two tails, of which the address of the key picks one: it reads a whole block
beyond the key ("greedy"), or exactly the key's bytes.
Correct when every port gives the same hash, wherever the key is in memory.

### 1.5 Probes: scalar and AVX2 (pbf-internal.h:33-75)
Pure. Two implementations of `Test` that must agree on every bitmap of a filter. The C API and the
raw calls of Python pass on levels that no filter has. Hard: the loop masks in sixteen bits and loads bytes,
the gather masks in thirty-two and loads words.

### 1.6 C API: `src/pbf-c.cc`, `include/pbf-c.h`
`PBFn_Set`/`PBFn_Test` over a caller-owned buffer; no state and no checks of its own.

### 1.7 Python: `python/bind.c`, `python/pbf.py`
State: a bytearray, layout and count per object; reference counts; the memory views the
program holds. Operations: `__new__`/`__init__` (which may run again), `restore`, `set`,
`test`, `clear`, `export_state`, `capacity`, the getters, the view of `data`, and the raw
functions on a buffer of the caller's.
Hard: asking an argument for its buffer runs code of the program in the middle of a call,
which may initialise, drop or read the same object; `__init__` may fail on a live object;
the 32-bit narrowing of lengths; shifts by levels that nothing checked; the references of views.
Nothing in a method checks that there is a bitmap.
Correct when a filter is as `__new__` left it or has exactly the bitmap of its layout, whatever
calls nest and fail; no bytearray is lost or shared; references balance; no view outlives its
bitmap; an error changes nothing.

### 1.8 TypeScript/WebAssembly: `typescript/src/api.ts`, `wasm.ts`
State: one `WasmContext` per module instance with a bump pointer (`#heapTop`), a
sorted and coalesced free list, and one allocation group per filter (its bitmap and
its scratch buffer); per filter a scratch pointer, capacity and a cached view, a
count and a disposed flag. Operations: create, restore, set/test (which may grow
the scratch), clear, dispose, the finalizer of the `FinalizationRegistry`.
Hard: growing the memory detaches every cached view; growing can fail half way
through an operation; the finalizer runs between any two jobs; a scratch is
replaced while its group lists it; loading is asynchronous and its promise cached.
Correct when no two blocks overlap, no byte of the heap is lost or handed out twice,
no view is used after it is detached, and a failure leaves the filter usable.

### 1.9 Go, Java, .NET, Rust ports
Same state and operations as the core; Go also has an assembly path generated from
the C API. They differ in what a restore copies (Java's `byte[]` overload adopts
the array), in how they refuse a layout and in integer widths.

### 1.10 Not program logic
Build scripts, benchmarks, workflows, `go/wash-asm.py`, `go/go-inject.py`,
`python/build_backend.py`, the generated `go/inject_amd64.s`.

## 2. Modules

| Module | Models | State | Actions |
|---|---|---|---|
| `BloomFilter` | what a filter promises a caller, abstractly | the keys each filter vouches for and those it reports | set, test, move, save, restore, clear |
| `TravellingFilter` | what a program may expect of a filter that is handed from language to language, abstractly | the keys the filter and its file vouch for and report, how the two are linked | set, clear, save, a zeroed buffer, the restores |
| `Layout` | sizes of pages, `MinLevel`, valid layouts, the checks of `New` | none | none |
| `Halfwords` | sixteen-bit words and their exclusive or, for `Exchange` and `StandardHash` | none | none |
| `PageFilter` | the native core (1.1) | objects with bitmap and count, one saved snapshot | one per call |
| `ProbeLoop` | calls of `set` and `test` by several threads, byte by byte (1.1) | bitmap, count, and each thread's place in its loop | the read, the write, the increment |
| `Divisor` | `Divisor` (1.2) | divisor, factor, results | assign, div, mod |
| `Estimate` | the sizing of all ports in words of their widths (1.3) | the layout each port chose | one per port and build |
| `StandardHash` | the standard hash, five renderings (1.4) | the four words and the offset | a block of 32 bytes, the rest |
| `AesHash` | which bytes the AES-NI hash reads (1.4) | the blocks mixed in, the bytes read | the two loops, the three tails |
| `ProbeLanes` | both bodies of `Test` (1.5) | a page, and what each body said of it | set, test, test by AVX2 |
| `Exchange` | a filter that travels between seven ports (1.6 - 1.9) | the filter, the file, whether they share a buffer | set, clear, save, the restores |
| `WasmHeap` | the loading of the default context, the heap of a `WasmContext` and its filters (1.8) | the promise, memory, top, free list, filters | request, load, create, reject, use of a key, dispose, forget, finalize |
| `PyFilter` | the objects of the Python module (1.7) | objects, bytearrays, views, the stack of waiting calls | one per call, two where a call asks the program for bytes |

`Layout` is extended by `PageFilter`, `Estimate`, `Exchange`, `ProbeLanes` and `PyFilter`.
`PageFilter` instantiates `BloomFilter` and implements it, `Exchange` does so with `TravellingFilter`. `ProbeLoop` justifies the one
step that `PageFilter` takes for a call (`LoopIsOneStep`). `Exchange` and `StandardHash` extend
`Halfwords`. Each `MC` module holds the values of the constants of its runs, each `Proofs` module
the theorems; those of `Divisor`, `ProbeLanes` and `AesHash` are in `CoreProofs`.

### 2.1 How the models read the code
* A bitmap is the set of the numbers of its one-bits, from the start of the buffer, so
  layouts have their real sizes and the same buffer can be read at another level.
* A hash is a constant in `PageFilter`, `ProbeLoop`, `ProbeLanes` and `Exchange`: whatever it
  yields, the properties must hold. `StandardHash` is about its value.
* `PageFilter` takes a call as one step; that is sound for the single thread the filter
  is meant for, and `ProbeLoop` shows what remains true when readers and writers run at once.
* In `PageFilter` and `ProbeLoop` a few variables are history: which keys an object vouches
  for, what it started from, what a thread saw when its call began. No guard reads them.
* In `TravellingFilter` a filter and its file are `apart`, `one` (Java adopted the file's array and reads it
  as it was saved) or an `alias` (adopted under another way or level: a set may change what the file reports, a
  clear empties both). `Exchange` computes the link and the answers from its buffers.
* In `Exchange`, words of 32 bits are pairs of halfwords and words of 64 bits in
  `StandardHash` are four of them, as TLC's integers have 32 bits. Exclusive or is computed
  bit by bit and without recursion, so that it can be proved about. A remainder of a word of 32 bits is taken
  in two products that stay within TLC's integers. That these read the code's integers rightly is proved:
  `AddIsSum`, `RotIsRotation`, `XorIsBitwise`, `Rot32IsRotation`, `PageIsRemainder`.
* In `WasmHeap` a call of the TypeScript API is one action, since a job of the engine runs to
  its end; the finalizer is a job of its own. What the engine may do (grow, or refuse to)
  is a choice.
* A promise reaction is a job too, so `create` is two actions: the request, which starts or shares
  the loading, and what follows once the promise settles.
* In `PyFilter` a call that asks the program for bytes is a frame on a stack: the interpreter lock
  lets nothing run beside it but what it calls. What is in a bitmap is left to `Exchange`; here
  a bitmap is memory of some size that is there or not. A use of memory that is not there, a division by zero
  or an undefined shift is recorded with the object, the buffer or the level it came from (`fault`), and nothing
  more is said after it. `Py_ssize_t` has 64 bits.
* In `Estimate` each integer has the width of the port's type, as a constant: a sum of unsigned words wraps, one of
  Java and C# turns negative, and of a number that does not fit the conversion yields the last value (Rust,
  Java) or any value of the type (where the language says nothing).
* In `AesHash` a block is sixteen byte numbers. The AES rounds are left out: they are
  the same whichever way a block was loaded.

## 3. Runs

| Run | Module and configuration | Shows |
|---|---|---|
| `filter_edges` | `MCPageFilter`, `PageFilterEdges.cfg` | at the edges of every check no accepted buffer lets a probe out; the bitmap is what was given plus the keys' probes; keys restored at fewer, more and other ways and levels are found where they must be; the count follows the bits |
| `filter_pair` | `MCPageFilter`, `PageFilterPair.cfg` | two filters moved and restored into each other, at fewer ways, a lower and a higher level: every call is one the abstract filter allows |
| `divisor_8bit` | `MCDivisor`, `Divisor8.cfg` | all divisors with all operands at eight bits |
| `probe_loop` | `MCProbeLoop`, `ProbeLoop.cfg` | two writers and a reader: the loop of a set that ran alone is one step, and what it set is seen for good; races lose bits, but invent none |
| `wasm_heap` | `WasmHeap`, `WasmHeapTwo.cfg` | the heap stays tiled and coalesced, and keys reach the module, through growth, failure and finalizers; calls that overlap the loading share one instance, and all settle |
| `py_filter` | `MCPyFilter`, `PyFilter.cfg` | Python filters that are initialised again, restored, dropped and read while calls on them wait for code of the program stay whole, owned and counted |
| `estimate` | `MCEstimate`, `Estimate.cfg` | every chosen layout is constructible; a request whose pages the port can count is held or refused at the limit, and the ports agree on it; one whose sum wraps gets one page |
| `exchange` | `MCExchange`, `Exchange.cfg` | a file means the same to seven ports, and all accept the same files; whatever a program does with it in turn is what one filter would do |
| `standard_hash` | `MCStandardHash`, `StandardHash.cfg` | the ports give one hash, and the hashes the tests pin; mixing loses nothing |
| `aes_hash` | `MCAesHash`, `AesHash.cfg` | both tails fill the same blocks; reads stay within a load of the key |
| `aes_hash_comment` | `MCAesHash`, `AesHashComment.cfg` | a violation: see 6 |
| `probe_lanes` | `MCProbeLanes`, `ProbeLanes.cfg` | the loop and the gather agree up to level 13, and above it the gather finds nothing that the loop does not; no word it loads ends outside of a page of a word or more |

### 3.1 Bounds, and why they are enough
* `MCPageFilter`: one or two variables, two keys. A property here relates at most
  two keys (whose probes coincide) and two objects (one restored from, or moved to, the
  other). The hashes put two probes of one key on one bit, share bits between the keys, and
  have halfwords that fold onto others at small levels. The layouts are the edges of
  what is accepted and one past them: a mutant that accepts 64-byte pages at every way breaks `TypeOK`. In
  `filter_pair` filters of one page of 128 bytes are restored at four ways, as such a page or as two of 64, and what was
  saved from two of 64 as one of 128, in which a key that was set may be
  absent; `<<5, 6, 1>>` is refused. Its view leaves out the counts, the
  last reply, the bits a filter began with and what an object without a buffer holds, on which no answer
  depends; the two variables are symmetric. The count is bounded by the number of bits the keys
  can turn on. `Claims` is empty: the runs restore with the saved count only, and wrong
  counts, which the code takes as they are, are left to `CountCorrect`, which holds for
  any claims.
* `ProbeLoop`: `MaxCalls` = 3 sets are started, so the count and the history stay finite: two that race
  and one before, between or after them. Two keys of three probes in two bytes give every overlap of
  bit and byte, one key with coincident probes and covered by the other. A bit can be lost by two
  writers, and a reader only matters through what it saw, so one is enough.
* `Divisor`: `Base` is 256, the word of `Divisor<uint8_t>`; the theorems cover every `Base`.
* `WasmHeap`: a memory page is `WasmPage` = 64 bytes in place of 65,536, the memory grows
  from 128 to at most 320 bytes and a heap starts at 12, so that exhaustion, the alignment
  of the start, splits and merges on both sides happen with two filters. Nothing in the
  code depends on the size of a page but the rounding of a growth, and the theorems cover every size.
* `Estimate`: rates are in units of 1/10,000 and lie on both sides of every threshold of either
  selector and of the clamp; sizes lie on both sides of every level and of the limit of
  pages, and around the last values of the words. Those are `TheSizeMax` = 3 * 2^29 - 1 for the core and Rust,
  `TheUint64Max` = 7 * 2^28 - 1 for Go, `LongMax` = `TheSizeMax` for Java and C#, and `TheIntValues` = 3 * 2^17 values of the int they
  cast to: wider than the page limit, as the real ones are, and within TLC's integers. The theorems cover
  every width (`WidthAssumption`). The bytes that a rate and a number of items come to are computed in floating
  point by the code and are an input here.
* `PyFilter`: two filters, so that one can be restored from the other's view or take the bytearray it
  gave back, and three bytearrays, as an `__init__` holds the old and the new one at a time. Calls nest
  two deep (`MaxNesting`): one inside another on the same object. `MaxPins` = 1 reading of `data` per
  object. `Unsigned` = 4 stands for 2^32, so that a buffer of 512 bytes has as many pages of 128
  as it cannot count. The levels are those of filters, one that is refused, 1 (a page shorter than a word), 29 (a buffer
  passes, the shift does not; one length is a page of it) and 63 (the layout's own shift leaves its type). The theorems cover all values of these.
* `Exchange`: a file is restored under its own reading and two others, with fewer ways and with another level,
  and zeroed buffers stand at the edges of the checks; `AcceptedAlike` covers every way, level and size.
  `MaxCount` = 2 bounds the count a file is restored with; the count is not
  part of what the ports read from the bits. One key's page word has the top bit set.
* `StandardHash`: keys of every length up to 70 pass every loop none, once and twice and take
  every one of the sixteen tails after each; half of their bytes have the top bit set, as
  none of the pinned keys' have.
* `AesHash`: every tail after none, one and two rounds of the loop of 64; keys at the start,
  around the end and across the end of a memory page.
* `ProbeLanes`: every subset of the eight bits a key probes, for a hash without and one with
  coincident probes, at the levels 6, 7 and 13 of filters and at 0, 1, 2, 14 and 20, which only raw calls have. The
  theorems cover 0 to 28, all that the shift is defined for.

`CHECK_DEADLOCK FALSE` stands only in the configurations of `Estimate`, `StandardHash` and
`AesHash`, whose computations end, and of `PyFilter`, which ends where the code has no defined outcome.

### 3.2 Fairness
Only `WasmHeap` assumes any: weak fairness of `Load` (reading, fetching and instantiating the module
succeeds or fails, and the engine settles the promise) and of each filter's `Create` and `Reject`
(the engine runs every reaction to a settled promise; once enabled they stay so, as a promise settles
once). Nothing is assumed of the program, and nothing of finalizers, which the language does
not promise to run: no property says that memory of a forgotten filter comes back.
Everything else is a call that runs to its end in one thread, or steps of threads whose
safety alone is at stake.

## 4. Properties

`PageFilter`. `NoFalseNegatives` is what a Bloom filter is for: a key survives sets of other
keys, moves, and a restore at the same level with no more ways. `Canonical` says that nothing
else is in the bitmap, `CountBound` ties `unique_cnt` to the bits turned on even when a
restore was given a wrong count, `ProbesInside` is memory safety of the probes under every
accepted reading. `ImplementsBloomFilter` states all of this as one refinement: a filter seen
through its answers only gains keys, and `set` answers "new" for every key that was absent.

`ProbeLoop`. `LoopIsOneStep` is the step `PageFilter` takes, also after other sets raced.
`Published` is what a program that sets a key before it starts readers relies on, whatever writers do
later to the same bytes. `SeenTogether` and `CountBelowBits` hold until two writers race, where a byte
written back undoes the other's bit; `NothingInvented` is what is left, and is why such sharing
costs keys, not false alarms.

`WasmHeap`. `Tiled` (no overlap, no leak), `Coalesced`, `HoldsItsBlocks` (the scratch in use is
always listed, an old one never) and `KeyReachesModule` (a detached view is never written).
`OneInstance` says that overlapping calls share one module, `CreateSettles` that none of them waits for
ever. `setMany` is a sequence of sets that ends at the first that throws, so that each of its
prefixes is a behaviour of the model.

`PyFilter`. `Consistent` is what the unchecked methods rely on; `Owned` and `Balanced` are the two ledgers
of `bind.c`, its bytearrays and its references; `ViewsReadable` follows from neither alone.
`CallsDefined` names the only calls whose outcome C leaves undefined, and says of the very object, buffer or level of
the call what is wrong with it: a mutant that lets an empty buffer pass breaks it. `ErrorsChangeNothing` is an
action property; its one exception is the getter of `data`, which keeps a reference when it fails.

`Exchange`. `AnswersAgree` and `KeysTravel` compare seven renderings of page and probes,
`SameAcceptance` seven renderings of the restore's checks, of every file under every reading. `TravelsAsOne` is the
refinement of `TravellingFilter`: no answer depends on the language that gives it, a file restored as it was
saved answers as it did, and a set or a clear reaches the file exactly when the restore adopted its array,
which is the difference between Java's overload and all others (1.9).

`Estimate`. `RefusedOrValid` and `HoldsRequest` separate the requests whose pages a port counts (`Counted`), of
which they say that exactly the ones above the limit are refused and the others held, from those where
its sum wraps (`Wrapped`), which get a single page. `SameShape` compares each port with the core where both count.

`StandardHash`. `SameHash` compares every port with the word layout all of them promise,
`KnownHashes` with the 37 pinned values, `MixLosesNothing` shows that the mixing is a bijection on
every state met.

`AesHash`. `PlacementIndependent` and `ReadsNearKey`.

`ProbeLanes`. `BodiesAgree` asks for the same answer up to level 13 and, above, only that the gather reports
nothing that the loop does not: there it does miss keys. `GatherInPage` is memory safety of the gather from level 2.

Every property has a mutant: a definition of the model changed the way a slip in the code
would change it (`...Unmasked`, `...Over`, `...Early`, beside the definition), under which
its run fails.

## 5. Proofs

TLAPS proves the following for all values of the constants that satisfy the assumptions
named in the modules.

`PageFilterProofs`, under `HashAssumption` (a hash is any word and halfwords) and
`ArgumentAssumption` (arguments are natural numbers):
* `TypeCorrect`, `ProbesStayInside`, `NeverFalseNegative`, `BitmapCanonical`, `CountCorrect` and `Refinement`,
  for any handles, keys, hashes, layouts, readings and claimed counts.
* The inductive invariant `IInv` is the type, `NoFalseNegatives`, `Canonical` and
  `SnapshotSound`. The last is what makes it inductive: a restore reads a snapshot that may be
  older than anything in the variables, so what it promises (whole pages, bits inside, its keys found
  under its own reading) has to be carried along. `Restore` is the hard step: the
  page number is recomputed from the size and equals the one saved from only at the
  same level (`CopiedWhole`). `CountCorrect` adds that bitmaps are finite and bounds
  the bits a set turns on by the number of ways (`ProbeCount`).
* `BloomPromise` closes the argument: the abstract filter, whatever implements it, reports no key absent that it
  vouches for, as its snapshot reports every key it vouches for.
* `Refinement` maps every step to an abstract one or a stutter. A set may make further
  keys positive; `Compatible` readings keep every positive of the snapshot.

`CoreProofs` holds three modules' theorems.
* `Divisor`, for a word of any number of values (`BaseAssumption`): `DivisorExact`, that `div` and `mod` are
  the exact quotient and remainder for every divisor but zero, also for 1, whose factor wraps to zero.
  `Fraction` is the argument: the factor times the divisor exceeds a double word by less than the
  divisor (`FactorRoundsUp`), so the error of a product never reaches the next quotient. With the divisor
  0 only the type is claimed (`DivisorTypeCorrect`).
* `ProbeLanes`, for every level with a defined shift, 0 to 28 (`LanesAssumption`): `WideIsScalar`, that up to level 13 the
  gather computes the loop for every hash, page and number of ways; `WideInventsNone`, that at the others a yes of
  the gather is one of the loop, of a page only the loop has written: all its bits are below 65,536, where the wider
  mask changes nothing; from the two `BodiesAlwaysAgree`, through the invariant `AnswersCurrent` (an answer on record
  is the answer of the page as it is); `GatherStaysInPage`, `LanesTypeCorrect`.
* `AesHash`: `AlwaysPlacementIndependent`, `AlwaysReadsNearKey` and `AesTypeCorrect`, for keys of any length
  at any address. The invariant `Progress` says that whole blocks were consumed, mixed in as they lie
  and alone read; the properties themselves say nothing of a key half consumed. `WithTail` and `TailsAgree`
  are the argument.

`ExchangeProofs`, under `ExchangeAssumption` (hashes are four words of 32 bits, layouts are ones that a
constructor accepts, a reading and a buffer are any natural numbers): `AlwaysInside`, `AnswersAlike`,
`KeysAlwaysTravel`, `AcceptedAlike` and `TravelsAlike`, for any keys, hashes, ports, layouts, readings and any number of journeys.
* `AnswersAgree` follows from the types alone: `SamePlaces` shows that the seven
  renderings of page and probes place a key alike, whatever its words and whatever the layout, also where one
  works on signed, masked or shifted integers. `Rot32IsRotation` and `PageIsRemainder` say what page that is,
  and `PortsProbeAsCore` ties the module to `PageFilter`: the bits are the ones `PageFilter` probes for
  the hash made of the same words, so that what is proved there of any hash holds for what the ports share. `SlotsInside`
  is part of the invariant, of the filter and of the file.
* `KeysTravel` is not inductive. The invariant adds that every key vouched for has its bits where the core
  would put them, in the filter and, opened at its own layout, in the file (`KeysPlaced`), and that a filter
  which works on the file's own buffer is the whole of it (`SharedWhole`): otherwise a set through one of
  the two would be missing from the other. While both are read alike they also vouch for the same keys, which
  `TravelsAlike` needs: otherwise a clear through one would leave the other vouching for keys that are gone.
* `TravelsAlike` maps each operation of a port to one of `TravellingFilter`. Before and after a step the answers
  are those of the core (`SeenBefore`, `SeenAfter`); a set adds bits, and at the same level fewer ways ask for
  fewer of them (`PresentGrows`). `TravelPromise` says what the abstract filter is worth: no key that it or its
  file vouches for is reported absent, and a filter that is one with its file answers as the file does.

`StandardHashProofs`, under `HashAssumption` (a key is a sequence of bytes, of any length): `AlwaysSameHash`,
`MixAlwaysLosesNothing` and the invariant they rest on, `LayoutKept`.
* The invariant says that the four words are words, that what was consumed is whole blocks of 32 bytes, and that
  the words are those the layout has after as many (`Absorbing`). The property compares finished hashes only.
* A tail adds its bytes in parts that run down from some length, the layout adds one padded word. The parts are
  disjoint bytes of that word, so adding them one by one has no carries between them (`NoCarry`), and
  addition of words is commutative and associative; so every fall through the sixteen cases ends with the word
  (`TailsSum`). Blocks, halves and remainders of the five loops are matched with the layout's by the length
  (`HashFinish`). The recursive functions of the model are shown to exist by a least counterexample over the naturals.
* A line of `Mix` is undone by a subtraction, a rotation by the rest of 64 bits and the same exclusive or
  (`MixUndone`); hence `MixInjective`, for all words.
* The model's operators on words are the integers' operations: `AddIsSum`, adding four halfwords with carries is
  adding modulo 2^64; `RotIsRotation`, turning the halfwords and the bits in them is multiplying by a power
  of two modulo 2^64 and adding the bits that left at the top, for all 64 distances; `XorIsBitwise`, the sum of
  bits that `Xor16` is has the bits of an exclusive or. The argument for the rotation cuts the integer in two
  (`Parted`): the low part, shifted, has no bits in common with the high one.

`ProbeLoopProofs`: `AlwaysPublished`, `AlwaysSeenTogether`, `LoopRefinesSet`, `CountsBits` and `NeverInvents`, for any
number of threads, calls, keys, ways and positions. The invariant says of a set that has met no other that
it is the only one (`OneAlone`) and has added exactly the probes it is done with (`Progress`);
of a key it set, that the bits are in the page and in every byte any writer is about
to write back (`KeptBits`), without which a later write could undo them; and of the time before the first race, that
what was seen is there and every count is of a bit (`Peace`).

`EstimateProofs`: `RefusesOrFits`, `RequestHeld` and `ShapesAlike`, for every rate, every number of bytes and words of every
width that `WidthAssumption` allows: the page limit fits into them, and a long is a whole number of the casts' ranges. Both
selectors of the way are brought to thresholds of the rate (`BestWays`, `RoundedWays`), which are at most one way
apart (`WaysApart`); the search for a level, a recursive function, is unrolled to thresholds of
the bytes (`Levels`). In words that hold the rounded request, a port computes what it would in unbounded integers
(`FitsCounts`, `LongCounts`); where the sum wraps, less than a page is left (`OnePage`). The invariant (`Right`)
says that a counted request has the layout sized for some number of ways, at most one below the
core's (`SizedFor`), a wrapped one a single page, and that either is valid.

`PyFilterProofs`: `FiltersConsistent`, `BitmapsOwned`, `ReferencesBalanced`, `ViewsKept`, `OutcomesDefined`, `ErrorsHarmless` and
`Typed`, for any number of objects and bytearrays, any nesting and any width of an unsigned int. The invariant
is stated of a heap, a set of views and a stack, so that one lemma per primitive (a decrement, an
initialisation, a frame pushed or left) serves all actions. It adds to the properties that a
view which is not stale pins its filter (`Pinning`): references alone do not say that the one a view
depends on is never given back. `OutcomesDefined` rests on it twice over, as a method's object must be live, and
on `NoPage`: a length that the checks on a buffer accept has a page number of zero only from 2^32 pages on.

`WasmHeapProofs`: `HeapTiled`, `AlwaysCoalesced`, `BlocksHeld`, `KeysReach` and `LoadedOnce`, for memories, pages, bitmaps
and keys of every size and any number of filters. `SoundHeap` says what a heap is of any set of held blocks,
any free ones and any top; `ReuseKeeps`, `BumpKeeps` and `ReleaseKeeps` are the three ways it
changes, and every action is made of them. The argument of `ReleaseKeeps` is that coalescing covers the same bytes with blocks
that do not touch (`CoalescingIsSound`): a run has no gap (`WithinRun`), every block is in the run of some
start (`InSomeRun`), and two runs are at least a byte apart (`RunsApart`). The least and greatest
blocks these need come from the well-foundedness of the naturals (`Least`). The invariant adds types,
that a view of the current buffer is one of the scratch in use, and that no module was loaded before there
was a promise.

### 5.1 Only model-checked
`KnownHashes`, which is a computation of 37 pinned values and nothing to generalise, and `CreateSettles` of
`WasmHeap`, as liveness and `ENABLED` are beyond the prover. That the functions of `Estimate` agree with the
code's floating point is neither checked nor proved: the whole bytes requested are an input, of any size. Induction over data is
beyond the prover too; where a recursive function had to be unfolded, over the blocks of a key or the levels of a
layout, the proofs use a least counterexample instead.

## 6. Where the code and its documents differ
* The greedy load of the AES-NI hash (aesni-hash.h:29): the comment says it does not cross
  a page. The condition is the one for a load that ends with the key, the load
  begins at the tail. `aes_hash_comment` shows a key at the end of a memory page.
  The hash itself is not affected (`PlacementIndependent`).
* `BestWay` (pbf.h:179-183), checked by no run: the comment says it approximates the ceiling
  of a logarithm; the code takes the floor, which the tests of Python pin.

Behaviour that the models show and that no document contradicts:
* Reading `data` of a Python filter takes a reference that is never given back (bind.c:395-398): such a
  filter is never freed, also when the call itself then fails for want of memory. It is also what keeps every view readable, as the memory view holds no
  reference of its own.
* A view taken before a second `__init__` points into a bytearray that is gone (bind.c:268); `ViewsReadable`
  excludes it.
* The methods of a Python object that only `__new__` made have no defined outcome (bind.c:285).
* `restore` and the raw calls of Python narrow the number of pages to 32 bits (bind.c:198, 462): a filter restored from more
  than 2^32 pages has the head of the buffer only, and is consistent.
* The raw calls of Python accept levels up to 31 (bind.c:62), and `__init__` shifts by any level before it refuses it
  (bind.c:239). At 29 to 31 the core shifts a word of 32 bits by 32 or more (pbf-internal.h:53, 67), from 64 on, or
  where the value does not fit, `__init__` does so with one of 64: neither has a defined result.
* On pages of 2^14 bytes and more, which only the C API and those raw calls can have, the loop keeps sixteen bits of
  an index and the gather thirty-two (pbf-internal.h:45, 53): a build with AVX2 can miss a key that it set. On pages of
  one or two bytes the gather reads up to three bytes past the page.
* A request in the last 4095 values of a `size_t`, `usize` or `uint64` wraps when it is rounded up (pbf.h:218, pbf.rs:86,
  go/pbf.go:70): the core, a release build of Rust and Go answer it with one page of 4096 bytes. In Rust everything above
  `usize::MAX` is saturated to it (pbf.rs:71), so the largest requests of all are accepted; a debug build of Rust, Java, Python
  and TypeScript refuse them.
* A default context whose loading failed stays so: every later call of the process is rejected
  (wasm.ts:202).
* Two threads that call `set` at once may lose keys that both set; no document says that a filter may be shared
  that way.

## 7. Plan
What is left, in this order:
1. The capacity estimates, if their floating point is abstracted to bounds.
2. The number of bits that Java computes in 32 bits, of bitmaps of 256 MiB and more
   (PageBloomFilter.java:89), which belongs to the same estimates.

## 8. Not modelled
* The AES rounds, and the XXH3 build of the hash, which calls vendored code.
* Capacity estimates (`virtualCapacity` and the like): floating point that no other state
  depends on.
* Contexts of the TypeScript package made from a source that the caller gives: each is a heap
  of its own, shared with nothing.
* The tables of types, methods and modules of bind.c (401-442, 494-542): declarations.
* The narrowing of a key's length (bind.c, pbf-c.cc): keys beyond 2^31 bytes.
* How the high half of a product of two double words is computed (pbf.h:25-51, wider integers or an intrinsic of
  the compiler): `Divisor` takes it as exact. The build that divides instead
  (`DISABLE_SOFT_DIVIDE`) is what `DivisorExact` compares with.
* The Go assembly: generated from the C API by `go/wash-asm.py` and `go/go-inject.py`.
* Builds, benchmarks and workflows.
