---------------------------------- MODULE Cfg ----------------------------------
(***************************************************************************)
(* Bodies of MIR as the checkers of crates/mir see them: blocks of          *)
(* instructions, the places each reads and writes, the edges, the order of  *)
(* the blocks and which locals are live where (cfg.rs, lib.rs).             *)
(*                                                                         *)
(* Abstracted: a value is the reads it makes, in evaluation order, the      *)
(* index operands of a place before the place; types are the few facts the  *)
(* checkers ask of a local; a statement and a terminator are both           *)
(* instructions, the terminator the last of its block.                      *)
(***************************************************************************)
EXTENDS Naturals, Sequences, FiniteSets

CONSTANTS
  Local,    \* the locals of a body
  NoLocal,  \* where an instruction writes nothing
  Elem,     \* projection steps: "*" is a deref, "[]" an index, others fields
  Block,    \* the blocks, numbered in arena order, from 1
  Bodies    \* the bodies checked

ASSUME BlockAssumption == Block \subseteq Nat \ {0} /\ IsFiniteSet(Block)
ASSUME LocalAssumption == NoLocal \notin Local /\ IsFiniteSet(Local)

Place == [local: Local, proj: Seq(Elem)]
Whole(l) == [local |-> l, proj |-> <<>>]
Nowhere == [local |-> NoLocal, proj |-> <<>>]

\* "copy" and "move" are operands; the others borrow the place (`&`, `&mut`)
\* or take its raw address.
How == {"copy", "move", "shared", "mut", "raw"}
Read == [how: How, place: Place]

Statements == {"assign", "dead"}
Terminators == {"goto", "switch", "call", "trap", "const_trap", "return"}

\* dest is what an assignment, a call or a trap writes and what a storage
\* end ends; user says the user wrote the assignment (not lowering); blamed
\* is the binding at the root of the place a trap's expression names.
Instr == [kind: Statements \cup Terminators, reads: Seq(Read),
          dest: Place \cup {Nowhere}, succs: Seq(Block), user: BOOLEAN,
          blamed: Local \cup {NoLocal}]

\* What the checkers ask of a local: whether it is a binding, whether that
\* binding is a materialized temporary, and of its type whether it can be
\* forgotten, is a borrow, and may be duplicated.
LocalData == [binding: BOOLEAN, materialized: BOOLEAN, forget: BOOLEAN,
              borrow: BOOLEAN, copyable: BOOLEAN]

Body == [code: [Block -> Seq(Instr)], entry: Block, params: SUBSET Local,
         ret: Local, data: [Local -> LocalData]]

\* A block ends in its one terminator.  A trap goes on to its target for the
\* checkers, though never at run time; only a return goes nowhere.
IsBody(b) ==
  /\ b \in Body
  /\ \A k \in Block :
       /\ b.code[k] # <<>>
       /\ \A i \in DOMAIN b.code[k] :
            /\ b.code[k][i].kind \in Terminators <=> i = Len(b.code[k])
            /\ b.code[k][i].kind \in {"trap", "const_trap"} => Len(b.code[k][i].succs) = 1
            /\ b.code[k][i].kind = "return" => b.code[k][i].succs = <<>>

ASSUME BodiesAssumption == \A b \in Bodies : IsBody(b)
-----------------------------------------------------------------------------
(* Points, edges and the places an instruction names.                       *)

Point == [block: Block, index: Nat \ {0}]
At(k, i) == [block |-> k, index |-> i]
InstrAt(b, p) == b.code[p.block][p.index]
Points(b) == UNION {{At(k, i) : i \in DOMAIN b.code[k]} : k \in Block}
Last(b, k) == b.code[k][Len(b.code[k])]

SuccsOf(instr) == {instr.succs[i] : i \in DOMAIN instr.succs}
successors(b, k) == SuccsOf(Last(b, k))
predecessors(b, k) == {j \in Block : k \in successors(b, j)}

ReadsOf(instr) == {instr.reads[i] : i \in DOMAIN instr.reads}

IsDef(instr, l) ==
  /\ instr.kind \in {"assign", "call", "trap"}
  /\ instr.dest = Whole(l)

\* The points that define the whole of a local.
defs_of(b, l) == {p \in Points(b) : IsDef(InstrAt(b, p), l)}

\* The locals some value, discriminant, callee or argument reads or borrows.
for_each_read(b) == {r.place.local : r \in UNION {ReadsOf(InstrAt(b, p)) : p \in Points(b)}}

\* A projected destination reads its root; a whole one is a definition.
uses_at(b, instr) ==
  {r.place.local : r \in ReadsOf(instr)}
  \cup {l \in {instr.dest.local} : instr.kind = "assign" /\ instr.dest.proj # <<>>}
  \cup {l \in {b.ret} : instr.kind = "return"}

has_trap(b) == \E k \in Block : Last(b, k).kind = "trap"
-----------------------------------------------------------------------------
(* Depth-first order of the blocks.                                         *)

\* Each reachable block's position, counted from the end of the walk: an
\* edge to a block no later than its source is a loop's back edge.  A frame
\* of the stack is a block and how many of its successors it has pushed.
reverse_postorder(b) ==
  LET walk[s \in [seen: SUBSET Block, post: Seq(Block),
                  stack: Seq(Block \X Nat)]] ==
        IF s.stack = <<>> THEN s.post
        ELSE LET top   == s.stack[Len(s.stack)]
                 succs == Last(b, top[1]).succs
                 below == SubSeq(s.stack, 1, Len(s.stack) - 1)
                 moved == Append(below, <<top[1], top[2] + 1>>)
             IN  IF top[2] >= Len(succs)
                   THEN walk[[s EXCEPT !.post = Append(@, top[1]), !.stack = below]]
                   ELSE LET next == succs[top[2] + 1]
                        IN  IF next \in s.seen
                              THEN walk[[s EXCEPT !.stack = moved]]
                              ELSE walk[[s EXCEPT !.seen = @ \cup {next},
                                                  !.stack = Append(moved, <<next, 0>>)]]
      post == walk[[seen |-> {b.entry}, post |-> <<>>, stack |-> <<<<b.entry, 0>>>>]]
  IN  [k \in {post[i] : i \in DOMAIN post} |->
         Len(post) - (CHOOSE i \in DOMAIN post : post[i] = k)]
-----------------------------------------------------------------------------
(* Liveness: before each point, the locals used there or later.             *)

\* Backward through a block from what is live after it: per point, what is
\* live before it.
Backward(b, k, out) ==
  LET code == b.code[k]
      live[i \in Nat] ==
        IF i > Len(code) THEN out
        ELSE {l \in live[i + 1] : ~IsDef(code[i], l)} \cup uses_at(b, code[i])
  IN  [i \in DOMAIN code |-> live[i]]

LiveOut(b, entering, k) == UNION {entering[s] : s \in successors(b, k)}

\* Per block, per point, the locals live before it: the sets entering the
\* blocks grow to a fixpoint.
liveness(b) ==
  LET settle[entering \in [Block -> SUBSET Local]] ==
        LET next == [k \in Block |-> Backward(b, k, LiveOut(b, entering, k))[1]]
        IN  IF next = entering THEN entering ELSE settle[next]
      live == settle[[k \in Block |-> {}]]
  IN  [k \in Block |-> Backward(b, k, LiveOut(b, live, k))]
=============================================================================
