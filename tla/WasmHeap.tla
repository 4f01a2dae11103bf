------------------------------- MODULE WasmHeap -------------------------------
(***************************************************************************)
(* The heap that the TypeScript filters of one WasmContext share           *)
(* (typescript/src/wasm.ts:62-196), the scratch buffers through which they *)
(* hand keys to the module (typescript/src/api.ts:196-318), and the        *)
(* loading of the default context (wasm.ts:198-222).                       *)
(*                                                                         *)
(* A call runs to its end in one job of the JavaScript engine, so it is    *)
(* one action, but for creations: they wait for the context and go on in a *)
(* job of their own.  So does the finalizer of a forgotten filter, between *)
(* any two calls.  A memory that grows gets a new buffer, which detaches   *)
(* every view made before: their length becomes zero.                      *)
(*                                                                         *)
(* The free list is the set of its blocks: releasing sorts it by pointer,  *)
(* allocating keeps it so, and "the first block" is that of lowest address.*)
(***************************************************************************)
EXTENDS Integers, FiniteSets, FiniteSetsExt

CONSTANTS
    Filters,        \* the program's variables of a filter type
    BitmapSizes,    \* the sizes of the filters it creates
    KeyLengths,     \* the lengths of the keys it sets and tests
    HeapBase,       \* __heap_base of the module
    InitialMemory, MaxMemory, WasmPage

ASSUME MemoryAssumption ==
    /\ HeapBase \in Nat \ {0} /\ WasmPage \in Nat \ {0}
    /\ InitialMemory \in Nat /\ MaxMemory \in Nat
    /\ BitmapSizes \subseteq Nat /\ KeyLengths \subseteq Nat
    /\ HeapBase + 8 <= InitialMemory /\ InitialMemory <= MaxMemory

VARIABLES
    memory,     \* memory.buffer.byteLength
    heapTop,
    free,       \* the free blocks
    filter,     \* the filter in each variable
    outcome,    \* how the last call ended: "done", "out of memory", or "key lost"
    context,    \* the promise of the default context
    loads       \* history: how often the module was loaded for it

heapVars == <<memory, heapTop, free, filter, outcome>>
loadVars == <<context, loads>>
vars == <<heapVars, loadVars>>

Block == [pointer : Nat, length : Nat]
Nowhere == [pointer |-> 0, length |-> 0]
End(b) == b.pointer + b.length

\* group: the blocks the finalizer would release.  view: the range the cached
\* scratch view was made for; attached: it was made of the current buffer.
None == [state |-> "none", bitmap |-> Nowhere, group |-> {}, scratch |-> Nowhere,
         view |-> Nowhere, attached |-> FALSE]

RoundUp(n, unit) == ((n + unit - 1) \div unit) * unit
HeapStart == RoundUp(HeapBase, 8)

-----------------------------------------------------------------------------
(***************************************************************************)
(* The allocator.                                                          *)
(***************************************************************************)

\* #releaseBlock: neighbours become one block.  A run of neighbours goes from a
\* block that follows none to the first end where none starts.
Starts(S) == {b \in S : \A a \in S : End(a) # b.pointer}
RunEnd(S, b) == Min({End(a) : a \in {x \in S : /\ x.pointer >= b.pointer
                                               /\ \A y \in S : y.pointer # End(x)}})
CoalesceNothing(S) == S
Coalesce(S) == {[pointer |-> b.pointer, length |-> RunEnd(S, b) - b.pointer] : b \in Starts(S)}

FirstOf(S) == CHOOSE b \in S : \A a \in S : b.pointer <= a.pointer

\* Split off the front of a free block; an exact fit leaves nothing.
SplitKeepsLength(b, length) == [pointer |-> b.pointer + length, length |-> b.length]
Split(b, length) == [pointer |-> b.pointer + length, length |-> b.length - length]

Reused(b, length) ==
    [ok |-> TRUE, block |-> [pointer |-> b.pointer, length |-> length],
     free |-> (free \ {b}) \cup (IF b.length = length THEN {} ELSE {Split(b, length)}),
     top |-> heapTop, memory |-> memory]

Bumped(length, size) ==
    [ok |-> TRUE, block |-> [pointer |-> heapTop, length |-> length],
     free |-> free, top |-> heapTop + length, memory |-> size]

Failed == [ok |-> FALSE, block |-> Nowhere, free |-> free, top |-> heapTop,
           memory |-> memory]

\* The memory grows by whole pages; the engine may refuse, and refuses beyond
\* the maximum.
GrownTo(next) == memory + RoundUp(next - memory, WasmPage)

\* #allocate: the ways it can end.
AllocationLength(n) == RoundUp(Max({n, 1}), 8)

Allocations(n) ==
    LET length == AllocationLength(n)
        fits   == {b \in free : b.length >= length}
        next   == heapTop + length
    IN  IF fits # {} THEN {Reused(FirstOf(fits), length)}
        ELSE IF next <= memory THEN {Bumped(length, memory)}
        ELSE {Failed} \cup (IF GrownTo(next) <= MaxMemory
                              THEN {Bumped(length, GrownTo(next))} ELSE {})

\* The filters as they are once the memory has `size` bytes.
DetachIfGrown(size) ==
    IF size = memory THEN filter
    ELSE [f \in Filters |-> [filter[f] EXCEPT !.attached = FALSE]]

-----------------------------------------------------------------------------
(***************************************************************************)
(* Filters.                                                                *)
(***************************************************************************)
Init ==
    /\ memory = InitialMemory
    /\ heapTop = HeapStart
    /\ free = {}
    /\ filter = [f \in Filters |-> None]
    /\ outcome = "done"
    /\ context = "none" /\ loads = 0

Take(a) ==
    /\ memory' = a.memory
    /\ heapTop' = a.top

Fail ==
    /\ outcome' = "out of memory"
    /\ UNCHANGED <<memory, heapTop, free, filter>>

\* defaultContext ??= ...: the first call starts the loading, the promise is kept
\* before it settles, and every call awaits it.
MustLoadUnsettled == context \in {"none", "pending"}
MustLoad == context = "none"

Request(f, size) ==
    /\ filter[f].state = "none"
    /\ IF MustLoad THEN context' = "pending" /\ loads' = loads + 1
       ELSE UNCHANGED loadVars
    /\ filter' = [filter EXCEPT ![f].state = "waiting", ![f].bitmap.length = size]
    /\ outcome' = "done"
    /\ UNCHANGED <<memory, heapTop, free>>

\* Reading or fetching the module and instantiating it succeeds or fails, once.
Load ==
    /\ context = "pending"
    /\ context' \in {"fulfilled", "rejected"}
    /\ UNCHANGED <<heapVars, loads>>

\* create and restore go on: a bitmap, in a group of its own, or an exception.
Retried(f) == filter
Dropped(f) == [filter EXCEPT ![f] = None]

Create(f) ==
    /\ filter[f].state = "waiting" /\ context = "fulfilled"
    /\ \E a \in Allocations(filter[f].bitmap.length) :
          IF ~a.ok
            THEN /\ filter' = Dropped(f)
                 /\ outcome' = "out of memory"
                 /\ UNCHANGED <<memory, heapTop, free>>
            ELSE /\ Take(a)
                 /\ free' = a.free
                 /\ filter' = [DetachIfGrown(a.memory) EXCEPT ![f] =
                                  [None EXCEPT !.state = "active", !.bitmap = a.block,
                                               !.group = {a.block}]]
                 /\ outcome' = "done"
    /\ UNCHANGED loadVars

Reject(f) ==
    /\ filter[f].state = "waiting" /\ context = "rejected"
    /\ filter' = Dropped(f)
    /\ outcome' = "not loaded"
    /\ UNCHANGED <<memory, heapTop, free, loadVars>>

\* The length of the cached view: zero once its buffer is detached.
ViewLength(x) == IF x.attached THEN x.view.length ELSE 0

\* What set and test do to the scratch before a key of n bytes is written: a key
\* in a Uint8Array takes the short cut, other keys go through #prepareScratch.
NeedsResize(x, n) == n > x.scratch.length \/ x.scratch.pointer = 0
MustPrepareForgetful(x, n) == n > x.view.length \/ x.view.length = 0
MustPrepare(x, n) == n > ViewLength(x) \/ ViewLength(x) = 0

ArrayStep(x, n) ==
    IF ~MustPrepare(x, n) THEN "keep"
    ELSE IF NeedsResize(x, n) THEN "resize" ELSE "refresh"
OtherStep(x, n) ==
    IF NeedsResize(x, n) THEN "resize"
    ELSE IF ViewLength(x) # x.scratch.length THEN "refresh" ELSE "keep"

\* #refreshScratchView
Refreshed(x) == [x EXCEPT !.view = x.scratch, !.attached = TRUE]

\* What the module reads: the n bytes at the scratch pointer, which are the key
\* when the view that was written is that scratch.
Outcome(x, n) ==
    IF n = 0 \/ (x.attached /\ x.view.pointer = x.scratch.pointer /\ n <= x.view.length)
      THEN "done" ELSE "key lost"

\* allocateScratch lists the new block in the group; releaseScratch takes the old
\* one out, if the group lists it, and frees it.
Listed(x) == {b \in x.group : b.pointer = x.scratch.pointer}
UnlistForgets(x) == x.group
Unlist(x) == x.group \ Listed(x)

UseScratch(f, n, step) ==
    CASE step = "keep" ->
            /\ outcome' = Outcome(filter[f], n)
            /\ UNCHANGED <<memory, heapTop, free, filter>>
      [] step = "refresh" ->
            /\ filter' = [filter EXCEPT ![f] = Refreshed(@)]
            /\ outcome' = Outcome(Refreshed(filter[f]), n)
            /\ UNCHANGED <<memory, heapTop, free>>
      [] step = "resize" ->
            \E a \in Allocations(n) :
               IF ~a.ok THEN Fail
               ELSE LET old == DetachIfGrown(a.memory)
                        new == Refreshed([old[f] EXCEPT
                                   !.group = Unlist(old[f]) \cup {a.block},
                                   !.scratch = a.block])
                    IN  /\ Take(a)
                        /\ free' = IF Listed(old[f]) = {} THEN a.free
                                   ELSE Coalesce(a.free \cup Listed(old[f]))
                        /\ filter' = [old EXCEPT ![f] = new]
                        /\ outcome' = Outcome(new, n)

\* set or test of a key of n bytes in a Uint8Array.
UseArray(f, n) ==
    /\ filter[f].state = "active"
    /\ UseScratch(f, n, ArrayStep(filter[f], n))

\* ... of any other key; a string of n code units asks for 3 * n bytes.
UseOther(f, n) ==
    /\ filter[f].state = "active"
    /\ UseScratch(f, n, OtherStep(filter[f], n))

\* #releaseGroup frees block after block and empties the group.  What a filter in
\* no use any more still caches is never read, and is dropped from the model.
Release(f, state) ==
    /\ free' = IF filter[f].group = {} THEN free ELSE Coalesce(free \cup filter[f].group)
    /\ filter' = [filter EXCEPT ![f] = [None EXCEPT !.state = state]]
    /\ UNCHANGED <<memory, heapTop>>

\* dispose also takes the filter out of the registry.  Later calls throw.
Dispose(f) ==
    /\ filter[f].state = "active"
    /\ Release(f, "disposed")
    /\ outcome' = "done"

\* The last reference goes; only a filter still registered waits for a finalizer.
Forget(f) ==
    /\ filter[f].state \in {"active", "disposed"}
    /\ filter' = [filter EXCEPT ![f] =
                     IF @.state = "active"
                       THEN [None EXCEPT !.state = "forgotten", !.group = filter[f].group]
                       ELSE None]
    /\ outcome' = "done"
    /\ UNCHANGED <<memory, heapTop, free>>

\* The finalizer, some time after; the variable may be used again then.
Finalize(f) ==
    /\ filter[f].state = "forgotten"
    /\ Release(f, "none")
    /\ outcome' = "done"

Next ==
    \/ Load
    \/ \E f \in Filters :
          \/ \E size \in BitmapSizes : Request(f, size)
          \/ Create(f) \/ Reject(f)
          \/ /\ \/ \E n \in KeyLengths : UseArray(f, n) \/ UseOther(f, n)
                \/ Dispose(f) \/ Forget(f) \/ Finalize(f)
             /\ UNCHANGED loadVars

\* The engine settles a read or a fetch, and runs every reaction to a promise that
\* settled.  Nothing is assumed of the program or of finalizers, which may never run.
Fairness ==
    /\ WF_vars(Load)
    /\ \A f \in Filters : WF_vars(Create(f)) /\ WF_vars(Reject(f))

Spec == Init /\ [][Next]_vars /\ Fairness

-----------------------------------------------------------------------------
(***************************************************************************)
(* Properties.                                                             *)
(***************************************************************************)
Held == UNION {filter[f].group : f \in Filters}

\* The blocks that filters hold and the free ones tile the heap: none overlap, no
\* two filters hold the same one, and no byte between the start and the top of
\* the heap is lost, also after a growth that failed half way through a set.
Tiled ==
    LET parts == Held \cup free
    IN  /\ \A a, b \in parts : a # b => End(a) <= b.pointer \/ End(b) <= a.pointer
        /\ \A b \in parts : b.length > 0 /\ b.pointer >= HeapStart /\ End(b) <= heapTop
        /\ \A x \in HeapStart..(heapTop - 1) : \E b \in parts : b.pointer <= x /\ x < End(b)
        /\ Held \cap free = {} /\ heapTop <= memory
        /\ \A f, g \in Filters : f # g => filter[f].group \cap filter[g].group = {}

\* Free blocks never touch: what was released next to each other can be handed
\* out as one block again, in whatever order it was released.
Coalesced == \A a, b \in free : End(a) # b.pointer

\* An active filter holds its bitmap and, once it has used one, its
\* current scratch, and nothing else: replacing a scratch leaks no block and
\* never drops the one in use.
HoldsItsBlocks ==
    \A f \in Filters :
        LET x == filter[f]
        IN  /\ x.state = "active" =>
                   x.group = {x.bitmap} \cup ({x.scratch} \ {Nowhere})
            /\ x.state \in {"none", "waiting", "disposed"} => x.group = {}

\* The module always reads the key that was just written, although other filters
\* grow the memory, and so detach the view, between any two calls.
KeyReachesModule == outcome # "key lost"

\* Calls that overlap while the module loads share one instance, and so one heap;
\* also those made after it failed (wasm.ts:202).
OneInstance == loads <= 1

\* Every create and restore settles, though the promise it awaits was made by
\* another call and may be rejected: no caller is left waiting for a context that
\* nobody loads any more.
CreateSettles ==
    \A f \in Filters : filter[f].state = "waiting" ~> filter[f].state # "waiting"
=============================================================================
