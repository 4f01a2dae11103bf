------------------------------- MODULE PyFilter -------------------------------
(***************************************************************************)
(* The objects of the Python extension module (python/bind.c): filters     *)
(* that may be initialised again, the bytearrays they own, the views that  *)
(* point into those, and the functions that work on a buffer of the        *)
(* caller's.                                                               *)
(*                                                                         *)
(* A call holds the interpreter lock, yet it may run code of the program:  *)
(* where it asks an argument for its bytes.  Calls are therefore frames on *)
(* a stack.  The top one may be resumed, or anything else may be called    *)
(* before it is.  What a bitmap contains, and the count, are the subjects  *)
(* of Exchange: here it is memory, of some size, that is there or is not.  *)
(***************************************************************************)
EXTENDS Layout, Sequences, FiniteSets, SequencesExt

CONSTANTS
    Objects,        \* room for filters
    Bitmaps,        \* room for their bytearrays
    Layouts,        \* the <<way, page_level, page_num>> the program asks for
    Lengths,        \* the lengths of the bytes and buffers it passes
    Unsigned,       \* the number of values of an unsigned int
    MaxPins,        \* bound: how often the data of one object is read
    MaxNesting      \* bound: calls that wait for one another

ASSUME PyAssumption ==
    /\ Unsigned \in Nat \ {0} /\ MaxPins \in Nat /\ MaxNesting \in Nat
    /\ Layouts \subseteq Nat \X Nat \X Nat /\ Lengths \subseteq Nat

VARIABLES
    object,     \* the filter in each place
    bytearray,  \* the size of the bytearray in each place, 0 where there is none
    views,      \* the memory views the program holds
    frames,     \* the calls under way, the innermost last
    result,     \* how the last call ended
    fault       \* what an undefined outcome came from, empty until there is one

vars == <<object, bytearray, views, frames, result, fault>>

NoObject == "no object"
NoBitmap == "no bitmap"

ASSUME PlaceAssumption == NoObject \notin Objects /\ NoBitmap \notin Bitmaps

NoLayout == <<0, 0, 0>>

\* named: the program has a name for it.  pins: references taken by reading data.
Made(refs, named) == [refs |-> refs, named |-> named, pins |-> 0, layout |-> NoLayout,
                      size |-> 0, data |-> NoBitmap]
Free == Made(0, FALSE)

\* data_size; the product is computed in 64 bits.
Size(layout) == layout[3] * PageSize(layout[2])

Valid(layout) == ValidLayout(layout[1], layout[2], layout[3])

\* validate_page_buffer; without the second check an empty buffer passes.
PageBufferAnySize(length, level) == level <= 31 /\ length % PageSize(level) = 0
PageBuffer(length, level) ==
    /\ level <= 31
    /\ length >= PageSize(level)
    /\ length % PageSize(level) = 0

\* (Py_ssize_t)page_num << page_level, before anything is checked: C defines it where
\* the level is below the 64 bits of the type and the value within its 63.  Up to
\* level 31 it is, as page_num has 32 bits.
ShiftDefined(layout) ==
    layout[2] <= 63 /\ (layout[2] > 31 => layout[3] < 2 ^ (63 - layout[2]))

\* (unsigned)(len >> page_level)
PageNum(length, level) == (length \div PageSize(level)) % Unsigned

-----------------------------------------------------------------------------
(***************************************************************************)
(* Reference counts.  A heap is what object and bytearray are together.    *)
(***************************************************************************)
Fresh == {b \in Bitmaps : bytearray[b] = 0}

Heap == [object |-> object, bytearray |-> bytearray]

\* Py_XDECREF of the data member.
Released(heap, b) ==
    IF b = NoBitmap THEN heap ELSE [heap EXCEPT !.bytearray[b] = 0]

\* tp_dealloc, once the last reference is gone.
Decref(heap, o) ==
    IF heap.object[o].refs > 1 THEN [heap EXCEPT !.object[o].refs = @ - 1]
    ELSE LET left == Released(heap, heap.object[o].data)
         IN  [left EXCEPT !.object[o] = Free]

\* The end of __init__: the old data goes, then every member is replaced.
KeepsOldData(heap, o) == heap
DropsOldData(heap, o) == Released(heap, heap.object[o].data)

ForgetsSize(x, layout, b) == [x EXCEPT !.layout = layout, !.data = b]
Members(x, layout, b) == [refs |-> x.refs, named |-> x.named, pins |-> x.pins,
                          layout |-> layout, size |-> Size(layout), data |-> b]

Initialised(heap, o, layout, b) ==
    [object    |-> [heap.object EXCEPT ![o] = Members(@, layout, b)],
     bytearray |-> [DropsOldData(heap, o).bytearray EXCEPT ![b] = Size(layout)]]

Becomes(heap) == object' = heap.object /\ bytearray' = heap.bytearray

-----------------------------------------------------------------------------
(***************************************************************************)
(* The frames.                                                             *)
(***************************************************************************)
Top == Last(frames)
Running(call) == frames # <<>> /\ Top.call = call

\* The caller holds a reference to the object it calls a method of.
Push(call, o, layout) ==
    /\ Len(frames) < MaxNesting
    /\ frames' = Append(frames, [call |-> call, self |-> o, layout |-> layout])
    /\ object' = IF o = NoObject THEN object ELSE [object EXCEPT ![o].refs = @ + 1]
    /\ UNCHANGED <<bytearray, views, result, fault>>

\* Leave the top frame with this heap, this result.
Pop(heap, r) ==
    /\ Becomes(IF Top.self = NoObject THEN heap ELSE Decref(heap, Top.self))
    /\ frames' = Front(frames)
    /\ result' = r
    /\ UNCHANGED fault

\* A call may raise once the argument was asked: it yields no bytes, or not as many
\* as wanted, or there is no memory for them.  The object is as it was.
LayoutFirst(f) == IF f.call # "init" THEN Heap
                  ELSE [Heap EXCEPT !.object[f.self].layout = f.layout]
OnError(f) == Heap
PopRaise == Pop(OnError(Top), "raised") /\ UNCHANGED views

Return(r) ==
    /\ result' = r
    /\ UNCHANGED <<object, bytearray, views, frames, fault>>

\* Memory that is not there, a division by zero, a shift by more than a word: what
\* follows is not defined.
Undefined(why, what) ==
    /\ fault' = <<why, what>>
    /\ UNCHANGED <<object, bytearray, views, frames, result>>

\* What an argument may yield: so many bytes of its own, or those under a view.
SourceSizes == Lengths \cup {bytearray[v.data] : v \in {x \in views : ~x.stale}}

-----------------------------------------------------------------------------
(***************************************************************************)
(* Life and death.                                                         *)
(***************************************************************************)
Init ==
    /\ object = [o \in Objects |-> Free]
    /\ bytearray = [b \in Bitmaps |-> 0]
    /\ views = {}
    /\ frames = <<>>
    /\ result = "none"
    /\ fault = <<>>

\* __new__ alone; calling the type goes on to __init__.
New(o) ==
    /\ object[o] = Free
    /\ object' = [object EXCEPT ![o] = Made(1, TRUE)]
    /\ result' = "done"
    /\ UNCHANGED <<bytearray, views, frames, fault>>

Del(o) ==
    /\ object[o].named
    /\ Becomes(Decref([Heap EXCEPT !.object[o].named = FALSE], o))
    /\ result' = "done"
    /\ UNCHANGED <<views, frames, fault>>

\* A view made before points at what was the bitmap.
Stale(o) == {IF v.self = o THEN [v EXCEPT !.stale = TRUE] ELSE v : v \in views}

\* __init__ without data: nothing of the program's runs in it.
InitZeroed(o, layout) ==
    /\ object[o].named
    /\ \/ ~ShiftDefined(layout) /\ Undefined("shift", layout[2])
       \/ ShiftDefined(layout) /\ Return("raised")
       \/ /\ Valid(layout)
          /\ \E b \in Fresh : Becomes(Initialised(Heap, o, layout, b))
          /\ views' = Stale(o)
          /\ result' = "done"
          /\ UNCHANGED <<frames, fault>>

\* ... with data: the layout is checked, then data is asked for its buffer,
InitFrom(o, layout) ==
    /\ object[o].named
    /\ \/ ~ShiftDefined(layout) /\ Undefined("shift", layout[2])
       \/ ShiftDefined(layout) /\ ~Valid(layout) /\ Return("raised")
       \/ Valid(layout) /\ Push("init", o, layout)

\* ... whose length must be the one of the layout.  Giving the buffer back may run
\* code as well, but nothing can reach the copy before it is the object's.
FinishInit ==
    /\ Running("init")
    /\ \/ PopRaise
       \/ \E b \in Fresh :
             /\ Size(Top.layout) \in SourceSizes
             /\ Pop(Initialised(Heap, Top.self, Top.layout, b), "done")
             /\ views' = Stale(Top.self)

\* The module's restore: the page number comes from the length of the data.
Restore(way, level) == Push("restore", NoObject, <<way, level, 0>>)

FinishRestore ==
    /\ Running("restore")
    /\ \/ PopRaise
       \/ \E size \in SourceSizes, o \in Objects, b \in Fresh :
             LET level  == Top.layout[2]
                 layout == <<Top.layout[1], level, PageNum(size, level)>>
                 new    == [Heap EXCEPT !.object[o] = Made(1, TRUE)]
             IN  /\ PageBuffer(size, level)
                 /\ Valid(layout)
                 /\ object[o] = Free
                 /\ Pop(Initialised(new, o, layout, b), "done")
                 /\ UNCHANGED views

-----------------------------------------------------------------------------
(***************************************************************************)
(* Methods.  The data member is used unchecked.                            *)
(***************************************************************************)

\* set, test and contains turn the key into bytes, and only then read the object.
UseKey(o) == object[o].named /\ Push("key", o, NoLayout)

FinishKey ==
    /\ Running("key")
    /\ \/ PopRaise
       \/ object[Top.self].data = NoBitmap /\ Undefined("no bitmap", Top.self)
       \/ object[Top.self].data # NoBitmap /\ Pop(Heap, "done") /\ UNCHANGED views

\* clear and export_state run over data_size bytes.
WholeBitmap(o) ==
    /\ object[o].named
    /\ IF object[o].data = NoBitmap THEN Undefined("no bitmap", o) ELSE Return("done")

\* capacity and virtual_capacity divide by the way; repr and the getters of the
\* numbers work on any object.
Capacity(o) ==
    /\ object[o].named
    /\ IF object[o].layout[1] = 0 THEN Undefined("no way", o) ELSE Return("done")

Inspect(o) == object[o].named /\ Return("done")

\* The getter of data: filling the view in takes a reference to the object, which
\* the memory view made of it does not own, and so never gives back; nor does a call
\* that finds no memory for the view.
Borrowed(o) == [object EXCEPT ![o].pins = @ + 1]
Pinned(o) == [object EXCEPT ![o].refs = @ + 1, ![o].pins = @ + 1]

GetData(o) ==
    /\ object[o].named /\ object[o].pins < MaxPins
    /\ IF object[o].data = NoBitmap THEN Undefined("no bitmap", o)
       ELSE /\ object' = Pinned(o)
            /\ \/ /\ views' = views \cup {[self |-> o, data |-> object[o].data, stale |-> FALSE]}
                  /\ result' = "done"
               \/ views' = views /\ result' = "raised"
            /\ UNCHANGED <<bytearray, frames, fault>>

DropView(v) ==
    /\ views' = views \ {v}
    /\ result' = "done"
    /\ UNCHANGED <<object, bytearray, frames, fault>>

-----------------------------------------------------------------------------
\* setN and testN on a buffer of the caller's, which is not kept: a hash modulo the
\* page number, then 1U << (page_level + 3).  Which bits they touch is the subject of
\* Exchange for the layouts of filters, and of ProbeLanes within a page of any level.
RawCall(length, level) ==
    \/ ~PageBuffer(length, level) /\ Return("raised")
    \/ /\ PageBuffer(length, level)
       /\ PageNum(length, level) = 0
       /\ Undefined("no page", <<length, level>>)
    \/ /\ PageBuffer(length, level)
       /\ PageNum(length, level) # 0
       /\ IF level > 28 THEN Undefined("shift", level)
          ELSE \/ Return("done")
               \* The gather of testN, in the last page.
               \/ level < 2 /\ Undefined("past the page", level)

Next ==
    /\ fault = <<>>
    /\ \/ FinishInit \/ FinishRestore \/ FinishKey
       \/ \E layout \in Layouts :
             \/ Restore(layout[1], layout[2])
             \/ \E o \in Objects : InitZeroed(o, layout) \/ InitFrom(o, layout)
             \/ \E n \in Lengths : RawCall(n, layout[2])
       \/ \E o \in Objects :
             \/ New(o) \/ Del(o) \/ UseKey(o) \/ WholeBitmap(o) \/ Capacity(o) \/ Inspect(o)
             \/ GetData(o)
       \/ \E v \in views : DropView(v)

Spec == Init /\ [][Next]_vars

-----------------------------------------------------------------------------
(***************************************************************************)
(* Properties.                                                             *)
(***************************************************************************)
Filter == [refs : Nat, named : BOOLEAN, pins : Nat, layout : Nat \X Nat \X Nat,
           size : Nat, data : Bitmaps \cup {NoBitmap}]
View == [self : Objects, data : Bitmaps, stale : BOOLEAN]
Frame == [call : {"init", "key"}, self : Objects, layout : Nat \X Nat \X Nat]
           \cup [call : {"restore"}, self : {NoObject}, layout : Nat \X Nat \X Nat]

\* A call of __init__ that waits for its data has a layout that was checked.
TypeOK ==
    /\ object \in [Objects -> Filter]
    /\ bytearray \in [Bitmaps -> Nat]
    /\ views \subseteq View
    /\ frames \in Seq(Frame)
    /\ \A i \in DOMAIN frames : frames[i].call = "init" => Valid(frames[i].layout)

Live(o) == object[o].refs > 0
Blank(x) == x.layout = NoLayout /\ x.size = 0 /\ x.data = NoBitmap

\* Whatever ran inside of a call that failed or succeeded, a filter is as __new__
\* left it or has a valid layout and a bitmap of exactly that layout's bytes: the
\* methods never check before they hand it to the native code (bind.c:283-354).
Consistent ==
    \A o \in Objects :
        \/ Blank(object[o])
        \/ /\ Live(o) /\ Valid(object[o].layout) /\ object[o].data \in Bitmaps
           /\ object[o].size = Size(object[o].layout)
           /\ bytearray[object[o].data] = object[o].size

\* Every bytearray belongs to exactly one filter: none is lost on an error path or
\* when __init__ runs again, none is freed twice, none is shared by a restore
\* (bind.c:147-166, 238-275).
Owned ==
    \A b \in Bitmaps :
        /\ bytearray[b] # 0 <=> \E o \in Objects : object[o].data = b
        /\ \A o, p \in Objects : object[o].data = b /\ object[p].data = b => o = p

CallsOn(fs, o) == {i \in DOMAIN fs : fs[i].self = o}

\* Every reference to a filter is its name's, a running call's or one taken by
\* reading data: a filter whose data was never read dies with its name, however
\* calls on it end (bind.c:278-281, 395-398).
Balanced ==
    \A o \in Objects :
        object[o].refs = (IF object[o].named THEN 1 ELSE 0) + object[o].pins
                           + Cardinality(CallsOn(frames, o))

\* A view reads the bitmap of its filter for as long as the program keeps it, also
\* when it is all that is left of the filter, unless __init__ was called again
\* (bind.c:391-399).
ViewsReadable ==
    \A v \in views : ~v.stale => Live(v.self) /\ object[v.self].data = v.data

\* The calls with no defined outcome are those of a method of a filter that __init__
\* never finished; raw calls on 2^32 pages or a multiple, as the checks on the buffer
\* leave no other way to a page number of zero (bind.c:59-76, 462), or at levels 29 to
\* 31; tests of a buffer whose pages are shorter than a word; and those of __init__ with
\* a level it shifts by before it is checked (bind.c:239), beyond what any filter has.
CallsDefined ==
    fault # <<>> =>
      LET why  == fault[1]
          what == fault[2]
      IN  /\ why \in {"no bitmap", "no way"} => Live(what) /\ Blank(object[what])
          /\ why = "no page" => what[1] \div PageSize(what[2]) >= Unsigned
          /\ why \in {"shift", "past the page"} => what \notin 2..28

\* A call that raises leaves every filter as it was, up to the reference the call
\* itself gives back (bind.c:217-267: all that can fail comes first), and the one that
\* the getter of data keeps when there is no memory for its view (bind.c:394-398).
ErrorsChangeNothing ==
    [][result' = "raised" =>
          \A o \in Objects :
              \/ object'[o] \in {Free, [object[o] EXCEPT !.refs = object'[o].refs]}
              \/ object[o].data # NoBitmap /\ object' = Pinned(o)]_vars
=============================================================================
