------------------------------- MODULE Memory -------------------------------
(***************************************************************************)
(* The abstract memory of the MIR interpreter, crates/eval/src/machine.rs: *)
(* frames with plain locals, the promotion of a local into memory when its *)
(* address is first taken, heap allocations, and the statements that read, *)
(* write, move, borrow and end storage.  BorrowTree is the aliasing tree   *)
(* each of them is judged by; a step here makes the accesses its statement *)
(* makes there.                                                            *)
(*                                                                         *)
(* Statements are the shapes crates/mir/src/lower.rs emits: a place is a   *)
(* local's own storage or what a pointer held by a local never addressed   *)
(* points to, extended by its field and index steps.                       *)
(*                                                                         *)
(* Abstracted: an aggregate is an array of scalars, one step deep; which   *)
(* statement runs next is any one a well-typed program could hold; sites   *)
(* and messages are reduced to the reason a run stopped.                   *)
(***************************************************************************)
EXTENDS BorrowTree, Integers

CONSTANTS
  Name,       \* locals whose address the body takes (LocalData::addressable)
  Binding,    \* those of Name bound without `mut`
  Plain,      \* locals never addressed, holding values
  Val,        \* scalar values
  Uninit,     \* Value::Uninit, the poison of storage never written
  Whole,      \* some value with no poison in it
  Width,      \* the elements of an aggregate
  Sizes,      \* bound: the counts alloc_array is asked for
  MaxFrames   \* MAX_FRAMES, the depth at which a call overflows the stack

ASSUME MemoryAssumption ==
  /\ Width \in Nat \ {0} /\ MaxFrames \in Nat /\ Sizes \subseteq Nat
  /\ Binding \subseteq Name /\ Name \cap Plain = {}
  /\ Uninit \notin Val /\ Whole # Uninit
  /\ Alloc = 1..Cardinality(Alloc)   \* ids are issued in order, never reused

\* The elements of an array are its only parts: a path is empty or one index.
ASSUME ShallowAssumption == PathElem \subseteq Nat /\ \A p \in Path : Len(p) <= 1

VARIABLES
  frames,   \* the stack; locals and promoted are partial functions
  memory    \* alloc -> [value, live, kind, read_only]

tree == <<borrow_nodes, borrow_roots, borrow_nodes_of, verdict>>
mvars == <<borrow_nodes, borrow_roots, borrow_nodes_of, verdict, frames, memory>>

NoTag == NoParent
Pointer == [alloc: Alloc, path: Path, tag: Tag \cup {NoTag}]
Scalar == Val \cup {Uninit, Whole}
Filled(n, v) == [elems |-> [i \in 0..(n - 1) |-> v]]
Aggregate == [elems : [0..(Width - 1) -> Val]]
IsArray(value) == value \notin Scalar /\ value \notin Pointer

\* The arrays of every length asked for; a value is of one variant (Value).
Array == [elems : UNION {[0..(n - 1) -> Val \cup {Uninit}] : n \in Sizes \cup {0, Width}}]

ASSUME ArrayAssumption == Array \cap (Scalar \cup Pointer) = {}

frame == frames[Len(frames)]
Frame(locals, dest) ==
  [locals |-> locals, promoted |-> [x \in {} |-> 1], dest |-> dest]
With(f, x, v) == [y \in DOMAIN f \cup {x} |-> IF y = x THEN v ELSE f[y]]
Without(f, x) == [y \in DOMAIN f \ {x} |-> f[y]]

\* The frame in which x has moved to an allocation, and the one it has left.
Homed(f, x, alloc) ==
  [f EXCEPT !.locals = Without(@, x), !.promoted = With(@, x, alloc)]
Left(f, x) == [f EXCEPT !.locals = Without(@, x), !.promoted = Without(@, x)]
-----------------------------------------------------------------------------
(* Values and places.                                                       *)

\* project_path and project_mut: whether a path stays inside the value, and
\* what it names there.
Reaches(value, path) ==
  path = <<>> \/ (IsArray(value) /\ path[1] \in DOMAIN value.elems)

project_path(value, path) == IF path = <<>> THEN value ELSE value.elems[path[1]]

project_mut(value, path, new) ==
  IF path = <<>> THEN new ELSE [value EXCEPT !.elems[path[1]] = new]

\* Why a step out of the value fails: poison has no elements to step into.
Lost(value, out_of_bounds) == IF value = Uninit THEN "uninit" ELSE out_of_bounds

contains_uninit(value) ==
  value = Uninit \/ (IsArray(value) /\ \E i \in DOMAIN value.elems :
                                          value.elems[i] = Uninit)

Promoted(x) == x \in DOMAIN frame.promoted
Holds(x) == Promoted(x) \/ x \in DOMAIN frame.locals
ValueOf(x) == IF Promoted(x) THEN memory[frame.promoted[x]].value
                             ELSE frame.locals[x]

\* A local never addressed is one cell, and a value without poison in it is
\* any value: what it is used for next, a write of every value covers.
Kept(value) == IF contains_uninit(value) THEN value ELSE Whole
Meant(value) == IF value = Whole THEN Aggregate ELSE {value}

\* The pointers a program may hold: any it was ever given.  One taken off an
\* allocation's name is untracked, one taken off a borrow has the borrow's
\* node (AddrOf through a pointer inherits it); an index step goes inside an
\* aggregate, `add` and `offset` move between its elements, unchecked.  A
\* local that keeps a pointer keeps one of these, so the model has none.
\* Bound: an offset past the paths modelled.
Held ==
  {ptr \in Pointer :
     /\ ptr.alloc \in DOMAIN memory
     /\ IF ptr.tag = NoTag
          THEN ptr.path # <<>> \/ memory[ptr.alloc].kind \in {"Local", "Static"}
          ELSE /\ ptr.tag \in Minted
               /\ borrow_nodes[ptr.tag].alloc = ptr.alloc
               /\ borrow_nodes[ptr.tag].parent # NoParent
               /\ ptr.path # <<>> \/ borrow_nodes[ptr.tag].path = <<>>}
\* allocation_for_deref and writable_allocation: every use of a pointer asks
\* the one, every write through one the other.
Live(a) == memory[a].live
Writable(a) == ~memory[a].read_only
-----------------------------------------------------------------------------
(* Steps.                                                                   *)

Running == verdict = "ok"

\* The run ends with a reason.  The code keeps the frames for inspection; no
\* statement runs on them again, so the model forgets them.
Stop(why) ==
  /\ verdict' = why
  /\ borrow_nodes' = <<>> /\ borrow_roots' = [a \in {} |-> NoTag]
  /\ borrow_nodes_of' = [a \in Alloc |-> [unique |-> {}, settled |-> {}]]
  /\ frames' = <<>> /\ memory' = <<>>

\* The node an access speaks through: the pointer's own, else the root of the
\* allocation, else none (the allocation was never borrowed).
Speaker(alloc, tag) ==
  IF tag # NoTag THEN tag
  ELSE IF alloc \in DOMAIN borrow_roots THEN borrow_roots[alloc] ELSE NoTag

Permits(nodes, alloc, tag, access) ==
  LET node == Speaker(alloc, tag)
  IN  IF node = NoTag THEN "ok" ELSE Judge(nodes[node], access)

Tree == [nodes |-> borrow_nodes, lists |-> borrow_nodes_of]
SetTree(to) ==
  /\ borrow_nodes' = to.nodes /\ borrow_nodes_of' = to.lists
  /\ UNCHANGED <<borrow_roots, verdict>>

\* What an access that is permitted makes of the tree.
Accessed(from, alloc, tag, paths, access) ==
  LET node    == Speaker(alloc, tag)
      victims == Victims(from.nodes, from.lists[alloc], node, paths, access)
      nodes   == Reacted(from.nodes, victims, access)
  IN  IF node = NoTag THEN from
      ELSE [nodes |-> nodes,
            lists |-> [from.lists EXCEPT ![alloc] = Refiled(nodes, @, victims # {})]]

aliasing_access(alloc, tag, paths, access) ==
  SetTree(Accessed(Tree, alloc, tag, paths, access))

\* Access to a local by its own name: nothing to judge until it is promoted.
NameAccess(x, path, access) ==
  IF Promoted(x) THEN aliasing_access(frame.promoted[x], NoTag, {path}, access)
                 ELSE UNCHANGED tree

WithLocal(stack, x, value) ==
  [stack EXCEPT ![Len(stack)].locals = With(@, x, value)]
SetLocal(x, value) == frames' = WithLocal(frames, x, value)

\* Mutant: only whole poison is refused, as for a local in the plain map.
WholeOnlyRefusal(x, path) ==
  LET value == ValueOf(x)
  IN  IF ~Reaches(value, path) THEN Lost(value, "bounds")
      ELSE IF project_path(value, path) = Uninit THEN "uninit" ELSE "ok"

\* A read by name.  A local in the plain map is refused only when it is moved
\* out as a whole: poison inside a value never gets there.
NameRefusal(x, path) ==
  LET value == ValueOf(x)
      found == project_path(value, path)
  IN  IF ~Reaches(value, path) THEN Lost(value, "bounds")
      ELSE IF IF Promoted(x) \/ path # <<>> THEN contains_uninit(found)
                                            ELSE found = Uninit
        THEN "uninit" ELSE "ok"

\* t := copy x.path
Load(t, x, path) ==
  /\ Running /\ Holds(x)
  /\ LET why == NameRefusal(x, path)
     IN  IF why # "ok" THEN Stop(why)
         ELSE /\ SetLocal(t, Kept(project_path(ValueOf(x), path)))
              /\ NameAccess(x, path, "Read")
              /\ UNCHANGED <<memory>>

\* A read through a pointer: liveness on the way, the program's own index
\* next, then the aliasing verdict, then what was found.
ReadRefusal(ptr, path) ==
  LET cell  == memory[ptr.alloc]
      whole == ptr.path \o path
      judge == Permits(borrow_nodes, ptr.alloc, ptr.tag, "Read")
  IN  CASE ~Live(ptr.alloc) -> "dangling"
        [] /\ path # <<>> /\ IsArray(cell.value)
           /\ ~Reaches(cell.value, whole) -> "bounds"
        [] judge # "ok" -> judge
        [] ~Reaches(cell.value, whole) -> Lost(cell.value, "out of bounds")
        [] contains_uninit(project_path(cell.value, whole)) -> "uninit"
        [] OTHER -> "ok"

\* t := copy (*p).path
LoadThrough(t, ptr, path) ==
  /\ Running /\ ptr.path \o path \in Path
  /\ LET why   == ReadRefusal(ptr, path)
         whole == ptr.path \o path
         found == project_path(memory[ptr.alloc].value, whole)
     IN  IF why # "ok" THEN Stop(why)
         ELSE /\ SetLocal(t, Kept(found))
              /\ aliasing_access(ptr.alloc, ptr.tag, {whole}, "Read")
              /\ UNCHANGED <<memory>>

\* x.path := value.  The first whole write initializes the local; one already
\* promoted keeps its allocation, so pointers into it see the write.
Store(x, path, value) ==
  /\ Running
  /\ IF path = <<>> THEN value \in Aggregate /\ (Holds(x) => x \notin Binding)
                    ELSE value \in Val /\ Holds(x) /\ x \notin Binding
  /\ IF path # <<>> /\ ~Reaches(ValueOf(x), path)
       THEN Stop(Lost(ValueOf(x), "bounds"))
       ELSE IF Promoted(x)
         THEN /\ memory' = [memory EXCEPT ![frame.promoted[x]].value =
                              project_mut(@, path, value)]
              /\ NameAccess(x, path, "Write")
              /\ UNCHANGED <<frames>>
         ELSE /\ SetLocal(x, IF path = <<>> THEN value
                             ELSE project_mut(ValueOf(x), path, value))
              /\ UNCHANGED <<tree, memory>>

\* write_through, in its order: the place resolves (the program's own index
\* is judged here), then the aliasing verdict, writability, the stored path.
WriteRefusal(ptr, path) ==
  LET cell  == memory[ptr.alloc]
      whole == ptr.path \o path
      judge == Permits(borrow_nodes, ptr.alloc, ptr.tag, "Write")
  IN  CASE ~Live(ptr.alloc) -> "dangling"
        [] path # <<>> /\ ~Reaches(cell.value, whole) -> Lost(cell.value, "bounds")
        [] judge # "ok" -> judge
        [] ~Writable(ptr.alloc) -> "read only"
        [] ~Reaches(cell.value, whole) -> Lost(cell.value, "out of bounds")
        [] OTHER -> "ok"

\* (*p).path := value
StoreThrough(ptr, path, value) ==
  /\ Running /\ ptr.path \o path \in Path
  /\ value \in IF ptr.path \o path = <<>> THEN Aggregate ELSE Val
  /\ LET why   == WriteRefusal(ptr, path)
         whole == ptr.path \o path
     IN  IF why # "ok" THEN Stop(why)
         ELSE /\ memory' = [memory EXCEPT ![ptr.alloc].value =
                              project_mut(@, whole, value)]
              /\ aliasing_access(ptr.alloc, ptr.tag, {whole}, "Write")
              /\ UNCHANGED <<frames>>
-----------------------------------------------------------------------------
(* Addresses, borrows and moves.                                            *)

NextAlloc == Len(memory) + 1

Cell(value, kind, read_only) ==
  [value |-> value, live |-> TRUE, kind |-> kind, read_only |-> read_only]

AllocOf(x) == IF Promoted(x) THEN frame.promoted[x] ELSE NextAlloc

\* promote_local: the value moves out of the plain map into an allocation of
\* its own, read-only to pointers for a binding without `mut`.
PromotedFrames(x) ==
  IF Promoted(x) THEN frames
  ELSE [frames EXCEPT ![Len(frames)] = Homed(frame, x, NextAlloc)]
PromotedMemory(x) ==
  IF Promoted(x) THEN memory
  ELSE Append(memory, Cell(frame.locals[x], "Local", x \in Binding))

\* x.path.&raw: the first one promotes x.
AddrOf(x) ==
  /\ Running /\ Holds(x) /\ AllocOf(x) \in Alloc
  /\ frames' = PromotedFrames(x)
  /\ memory' = PromotedMemory(x)
  /\ UNCHANGED <<tree>>

\* x.path.& and x.path.&mut
Borrow(x, path, mutable) ==
  /\ Running /\ Holds(x) /\ AllocOf(x) \in Alloc
  /\ MintUntracked(AllocOf(x), path, mutable)
  /\ frames' = PromotedFrames(x)
  /\ memory' = PromotedMemory(x)

\* (*p).& and (*p).&mut: below the pointer's node.  Neither liveness nor
\* bounds are judged before the new pointer is used.
Reborrow(ptr, mutable) ==
  /\ Running
  /\ LET why == Permits(borrow_nodes, ptr.alloc, ptr.tag, IF mutable THEN "Write" ELSE "Read")
     IN  IF why # "ok" THEN Stop(why)
         ELSE /\ IF ptr.tag = NoTag THEN MintUntracked(ptr.alloc, ptr.path, mutable)
                                    ELSE MintBelow(ptr.tag, ptr.path, mutable)
              /\ UNCHANGED <<frames, memory>>

\* Mutant: a move leaves the borrows of the local as they were.
MoveKeepingBorrows(t, x) ==
  /\ Running /\ Holds(x)
  /\ IF NameRefusal(x, <<>>) # "ok" THEN Stop(NameRefusal(x, <<>>))
     ELSE /\ AllocOf(x) \in Alloc
          /\ frames' = WithLocal(PromotedFrames(x), t, Kept(ValueOf(x)))
          /\ memory' = [PromotedMemory(x) EXCEPT ![AllocOf(x)].value = Uninit]
          /\ UNCHANGED <<tree>>

\* t := move x: the read, the root-level write that invalidates every borrow
\* of x (which subsumes what the read did), and the storage left vacant; an
\* addressable local is promoted first, so that it remembers the move.  A
\* plain local is moved where Call passes it.
Move(t, x) ==
  /\ Running /\ Holds(x)
  /\ IF NameRefusal(x, <<>>) # "ok" THEN Stop(NameRefusal(x, <<>>))
     ELSE /\ AllocOf(x) \in Alloc
          /\ NameAccess(x, <<>>, "Write")
          /\ frames' = WithLocal(PromotedFrames(x), t, Kept(ValueOf(x)))
          /\ memory' = [PromotedMemory(x) EXCEPT ![AllocOf(x)].value = Uninit]

\* An allocation dies for good; what it held is never looked at again (each
\* use is judged for liveness first), so the model forgets it.
Killed(allocs) ==
  [a \in DOMAIN memory |->
     IF a \in allocs THEN [memory[a] EXCEPT !.live = FALSE, !.value = Uninit]
                     ELSE memory[a]]

\* Mutant: the storage dies and the frame keeps pointing at it.
StorageDeadKeepingHome(x) ==
  /\ Running /\ Holds(x)
  /\ frames' = [frames EXCEPT ![Len(frames)].locals = Without(@, x)]
  /\ memory' = Killed(IF Promoted(x) THEN {frame.promoted[x]} ELSE {})
  /\ UNCHANGED <<tree>>

\* The scope of x is left, the next turn of a loop writes a plain local again.
StorageDead(x) ==
  /\ Running /\ Holds(x)
  /\ frames' = [frames EXCEPT ![Len(frames)] = Left(frame, x)]
  /\ memory' = Killed(IF Promoted(x) THEN {frame.promoted[x]} ELSE {})
  /\ UNCHANGED <<tree>>
-----------------------------------------------------------------------------
(* Calls.                                                                   *)

\* dest := call f(arg), whose one parameter is `param`; the argument is a
\* plain local, copied or moved (a move leaves poison in the caller's map).
Call(dest, arg, param, moved) ==
  /\ Running /\ Holds(arg)
  /\ IF NameRefusal(arg, <<>>) # "ok" THEN Stop(NameRefusal(arg, <<>>))
     ELSE IF Len(frames) >= MaxFrames THEN Stop("stack overflow")
     ELSE /\ \E value \in IF param \in Name THEN Meant(ValueOf(arg))
                                           ELSE {ValueOf(arg)} :
               frames' = Append(IF moved THEN WithLocal(frames, arg, Uninit) ELSE frames,
                                Frame([y \in {param} |-> value], dest))
          /\ UNCHANGED <<tree, memory>>

\* The frame's promoted locals die with it; the value lands in the caller's
\* plain map, whatever it points to, or ends the run.  Nothing asks whether it
\* is poison: that the returned local holds a value is what the move checker
\* answers for.
Return(ret) ==
  /\ Running
  /\ ret \in DOMAIN frame.locals /\ frame.locals[ret] # Uninit
  /\ IF Len(frames) = 1 THEN Stop("done")
     ELSE /\ frames' = WithLocal(SubSeq(frames, 1, Len(frames) - 1),
                                 frame.dest, frame.locals[ret])
          /\ memory' = Killed({frame.promoted[x] : x \in DOMAIN frame.promoted})
          /\ UNCHANGED <<tree>>
-----------------------------------------------------------------------------
(* Statics, the heap, and ranges.                                           *)

Reserved(kind) == {a \in DOMAIN memory : memory[a].kind = kind}

\* S.path.&raw: the static's one allocation, minted at the first mention.
AddrOfStatic(value) ==
  /\ Running /\ Reserved("Static") = {} /\ NextAlloc \in Alloc
  /\ memory' = Append(memory, Cell(Filled(Width, value), "Static", TRUE))
  /\ UNCHANGED <<tree, frames>>

\* dangling(): the one allocation that never lives.
builtin_dangling ==
  /\ Running /\ Reserved("Dangling") = {} /\ NextAlloc \in Alloc
  /\ memory' = Append(memory, [Cell(Filled(0, Uninit), "Dangling", FALSE)
                                 EXCEPT !.live = FALSE])
  /\ UNCHANGED <<tree, frames>>

\* alloc_array(n); n = 0 is a trap of its own.
builtin_alloc_array(n) ==
  /\ Running
  /\ IF n = 0 THEN Stop("zero size")
     ELSE /\ NextAlloc \in Alloc
          /\ memory' = Append(memory, Cell(Filled(n, Uninit), "Heap", FALSE))
          /\ UNCHANGED <<tree, frames>>

\* dealloc_array(p, n): the exact allocation, once; the tree is not asked.
builtin_dealloc_array(ptr, n) ==
  /\ Running
  /\ LET cell == memory[ptr.alloc]
         why == CASE cell.kind # "Heap" -> "not heap"
                  [] ~Live(ptr.alloc) -> "double free"
                  [] ptr.path # <<0>> -> "not the head"
                  [] n # Cardinality(DOMAIN cell.value.elems) -> "wrong count"
                  [] OTHER -> "ok"
     IN  IF why # "ok" THEN Stop(why)
         ELSE /\ memory' = Killed({ptr.alloc})
              /\ UNCHANGED <<tree, frames>>

Span(ptr, n) == {<<i>> : i \in ptr.path[1]..(ptr.path[1] + n - 1)}

\* checked_range, for n > 0.
RangeRefusal(ptr, n) ==
  LET cell == memory[ptr.alloc]
  IN  CASE ~Live(ptr.alloc) -> "dangling"
        [] ptr.path = <<>> -> "not an element"
        [] cell.value = Uninit -> "ill typed"
        [] \E p \in Span(ptr, n) : ~Reaches(cell.value, p) -> "out of bounds"
        [] OTHER -> "ok"

First(why, otherwise) == IF why # "ok" THEN why ELSE otherwise

\* judge_write_range, short of the aliasing verdict's place in it.
RangeWriteRefusal(nodes, ptr, n) ==
  First(RangeRefusal(ptr, n),
        First(Permits(nodes, ptr.alloc, ptr.tag, "Write"),
              IF Writable(ptr.alloc) THEN "ok" ELSE "read only"))

Landed(ptr, elems) ==
  [memory EXCEPT ![ptr.alloc].value.elems =
     [i \in DOMAIN @ |-> IF i - ptr.path[1] \in DOMAIN elems
                           THEN elems[i - ptr.path[1]] ELSE @[i]]]

Elements(ptr, n) ==
  [i \in 0..(n - 1) |-> memory[ptr.alloc].value.elems[ptr.path[1] + i]]

\* Mutant: the destination is judged by its first element.
copy_judging_head(src, dst, n) ==
  /\ Running
  /\ LET after == Accessed(Tree, src.alloc, src.tag, Span(src, n), "Read")
         why == First(RangeRefusal(src, n),
                First(Permits(borrow_nodes, src.alloc, src.tag, "Read"),
                      RangeWriteRefusal(after.nodes, dst, n)))
     IN  IF why # "ok" THEN Stop(why)
         ELSE /\ SetTree(Accessed(after, dst.alloc, dst.tag, {dst.path}, "Write"))
              /\ memory' = Landed(dst, Elements(src, n))
              /\ UNCHANGED frames

\* copy(src, dst, n): the source is judged and read in full, and suspends
\* what it is foreign to, before the destination is judged and written.
\* Poison travels.
builtin_copy(src, dst, n) ==
  /\ Running
  /\ LET after == Accessed(Tree, src.alloc, src.tag, Span(src, n), "Read")
         why == First(RangeRefusal(src, n),
                First(Permits(borrow_nodes, src.alloc, src.tag, "Read"),
                      RangeWriteRefusal(after.nodes, dst, n)))
     IN  IF why # "ok" THEN Stop(why)
         ELSE /\ SetTree(Accessed(after, dst.alloc, dst.tag, Span(dst, n), "Write"))
              /\ memory' = Landed(dst, Elements(src, n))
              /\ UNCHANGED frames

\* The host `read(p, n)`: the whole buffer is judged before any input is
\* taken, the `got` first elements of it are written.
host_read(ptr, n, got, v) ==
  /\ Running
  /\ LET why == RangeWriteRefusal(borrow_nodes, ptr, n)
     IN  IF why # "ok" THEN Stop(why)
         ELSE /\ memory' = Landed(ptr, [i \in 0..(got - 1) |-> v])
              /\ aliasing_access(ptr.alloc, ptr.tag, Span(ptr, n), "Write")
              /\ UNCHANGED <<frames>>
-----------------------------------------------------------------------------
\* The run starts where the outermost body has written its plain locals; the
\* frame it would return to is not one.
MInit ==
  /\ Init
  /\ \E t \in Plain : frames = <<Frame([p \in Plain |-> Whole], t)>>
  /\ memory = <<>>

Const == Val \cup {Filled(Width, v) : v \in Val}

ByName ==
  \/ \E x \in Name, path \in Path, t \in Plain : Load(t, x, path)
  \/ \E x, t \in Plain : Load(t, x, <<>>)
  \/ \E x \in Name, path \in Path, v \in Const : Store(x, path, v)

Through ==
  \E ptr \in Held, path \in Path :
    \/ \E t \in Plain : LoadThrough(t, ptr, path)
    \/ \E v \in Const : StoreThrough(ptr, path, v)

Addresses ==
  \/ \E x \in Name : AddrOf(x)
  \/ \E x \in Name, path \in Path, mutable \in BOOLEAN : Borrow(x, path, mutable)
  \/ \E ptr \in Held, mutable \in BOOLEAN : Reborrow(ptr, mutable)
  \/ \E v \in Val : AddrOfStatic(v)

Storage ==
  \/ \E x \in Name, t \in Plain : Move(t, x)
  \/ \E x \in Name : StorageDead(x)

Calls ==
  \/ \E dest, arg \in Plain, param \in Name \cup Plain, moved \in BOOLEAN :
       Call(dest, arg, param, moved)
  \/ \E ret \in Plain : Return(ret)

\* A range of no elements is judged by nothing and changes nothing; a pointer
\* that addresses no element is refused alike by every range, so only the host
\* is given one.
Builtins ==
  \/ builtin_dangling
  \/ \E n \in Sizes : builtin_alloc_array(n)
  \/ \E ptr \in Held, n \in 1..Width : builtin_dealloc_array(ptr, n)
  \/ LET element == {ptr \in Held : ptr.path # <<>>}
     IN  \E src, dst \in element, n \in 1..Width : builtin_copy(src, dst, n)
  \/ \E ptr \in Held, n \in 1..Width, v \in Val :
       \E got \in 0..n : host_read(ptr, n, got, v)

MNext == ByName \/ Through \/ Addresses \/ Storage \/ Calls \/ Builtins

MSpec == MInit /\ [][MNext]_mvars
-----------------------------------------------------------------------------
(* Properties.                                                              *)

Homes == {h \in (DOMAIN frames) \X Name : h[2] \in DOMAIN frames[h[1]].promoted}
HomeOf(h) == frames[h[1]].promoted[h[2]]

\* A local has one home.  What a frame calls by name is in its plain map or
\* in one live allocation no other local of any frame owns, and no local's
\* allocation outlives its owner: writing by name is never judged for
\* liveness, so a stale entry of `promoted` would write freed storage.
OneHome ==
  /\ \A i \in DOMAIN frames :
       DOMAIN frames[i].locals \cap DOMAIN frames[i].promoted = {}
  /\ \A g, h \in Homes : HomeOf(g) = HomeOf(h) => g = h
  /\ {HomeOf(h) : h \in Homes} =
       {a \in DOMAIN memory : memory[a].kind = "Local" /\ Live(a)}

\* Poison stays in memory: whatever `copy` plants and whatever is moved out,
\* a frame's plain map holds a whole value or none, which is what its weaker
\* read gate (`Some(Value::Uninit)`) and an unguarded Return rely on.
PoisonStaysInMemory ==
  \A i \in DOMAIN frames : \A x \in DOMAIN frames[i].locals :
    LET value == frames[i].locals[x]
    IN  value = Uninit \/ ~contains_uninit(value)

Seen(cells, node) ==
  LET value == cells[node.alloc].value
  IN  IF Reaches(value, node.path) THEN project_path(value, node.path) ELSE Uninit

\* Every write is judged: when a step changes what a borrow names, by name,
\* through a pointer, by a range, by a move or by the host, the borrows of
\* that place still valid afterwards are one chain of exclusive reborrows.
\* No shared borrow that is still valid ever sees its place change.
WritesLeaveOneChain ==
  [][\A t \in Minted :
       (/\ verdict' = "ok"
        /\ borrow_nodes'[t].state # "Disabled"
        /\ memory'[borrow_nodes[t].alloc].live
        /\ Seen(memory', borrow_nodes[t]) # Seen(memory, borrow_nodes[t]))
       => /\ borrow_nodes[t].mutable
          /\ \A s \in Minted :
               (/\ borrow_nodes[s].alloc = borrow_nodes[t].alloc
                /\ borrow_nodes'[s].state # "Disabled"
                /\ Seen(memory', borrow_nodes[s]) # Seen(memory, borrow_nodes[s])
                /\ paths_overlap(borrow_nodes[s].path, borrow_nodes[t].path))
               => ~Unrelated(s, t)]_mvars
=============================================================================
