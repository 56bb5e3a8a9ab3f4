------------------------------- MODULE Parser -------------------------------
(***************************************************************************)
(* The event protocol of crates/syntax/src/parser.rs: what the grammar      *)
(* writes down as it goes -- markers started, completed, abandoned, wrapped *)
(* around a node completed before, errors reserved and filled later, digit  *)
(* groups put into a literal already closed -- for builder.rs to replay.    *)
(*                                                                         *)
(* The grammar is any sequence of its calls that keeps to what parser.rs    *)
(* asks of a caller.  `marked` is what the calls meant: each bracket, leaf  *)
(* and error at its place in the tree at once, with no positions to keep.   *)
(***************************************************************************)
EXTENDS TreeBuilder

CONSTANTS
  Texts,     \* the texts, lexed
  MaxMade    \* bound on the nodes and errors begun in one

ASSUME TextsAssumption == Texts \subseteq Seq(TokenKind)
ASSUME MaxMadeAssumption == MaxMade \in Nat

VARIABLES
  lexed,      \* the tokens
  lexed_pos,  \* the one the parser is at
  events,     \* what it has written down
  live,       \* the markers it holds, outermost first
  lhs,        \* the completed marker it may still precede, if any
  slot,       \* the error it holds a place for, if any
  made,       \* the nodes and errors begun so far, numbered as they come
  reports,    \* history: error -> what it was about
  marked,     \* history: what the calls meant
  built       \* the tree and the errors, once built

vars == <<lexed, lexed_pos, events, live, lhs, slot, made, reports, marked, built>>

None == [pos |-> 0, n |-> 0]
Marker(pos, node, wraps) == [pos |-> pos, n |-> node, wraps |-> wraps]
CompletedMarker(pos, node) == [pos |-> pos, n |-> node]

AtEnd == lexed_pos > Len(lexed)
Prev == Max({i \in 1..(lexed_pos - 1) : lexed[i] # "space"} \cup {0})
Tombstone == StartEvent(TOMBSTONE, "none", NoParent)
Parsing == live # <<>>
More == made < MaxMade

\* An error about the token at and the one before it.
Report(after_prev, tokens, at, prev, filled) ==
  [after_prev |-> after_prev, tokens |-> tokens, at |-> at, prev |-> prev, filled |-> filled]

\* Parser::new, and source_file's own marker.
Init ==
  /\ lexed \in Texts
  /\ lexed_pos = Skip(lexed, 1)
  /\ events = <<Tombstone>>
  /\ live = <<Marker(1, 1, FALSE)>>
  /\ lhs = None /\ slot = None
  /\ made = 1
  /\ reports = [n \in {} |-> 0]
  /\ marked = <<Open(1)>>
  /\ built = <<>>
-----------------------------------------------------------------------------
Start ==
  /\ Parsing
  /\ More
  /\ made' = made + 1
  /\ events' = Append(events, Tombstone)
  /\ live' = Append(live, Marker(Len(events) + 1, made', FALSE))
  /\ lhs' = None
  /\ marked' = Append(marked, Open(made'))
  /\ UNCHANGED <<lexed, lexed_pos, slot, reports, built>>

\* bump_any.
Bump ==
  /\ Parsing /\ ~AtEnd
  /\ events' = Append(events, TokenEvent)
  /\ lexed_pos' = Skip(lexed, lexed_pos + 1)
  /\ lhs' = None
  /\ marked' = Append(marked, Tok(lexed_pos))
  /\ UNCHANGED <<lexed, live, slot, made, reports, built>>

\* A number literal: started, bumped and completed at once.
Literal ==
  /\ Parsing /\ ~AtEnd
  /\ lexed[lexed_pos] \in Number
  /\ More
  /\ made' = made + 1
  /\ events' = events \o <<StartEvent(made', "LITERAL", NoParent), TokenEvent, FinishEvent>>
  /\ lexed_pos' = Skip(lexed, lexed_pos + 1)
  /\ lhs' = CompletedMarker(Len(events) + 1, made')
  /\ marked' = marked \o <<Open(made'), Tok(lexed_pos), Close(made')>>
  /\ UNCHANGED <<lexed, live, slot, reports, built>>

Completed(m) ==
  Append([events EXCEPT ![m.pos].node = m.n, ![m.pos].kind = "NODE"], FinishEvent)

\* Marker::complete, of any node but the root.
Complete ==
  /\ Len(live) > 1
  /\ LET m == Last(live)
     IN  /\ events' = Completed(m)
         /\ lhs' = CompletedMarker(m.pos, m.n)
         /\ marked' = Append(marked, Close(m.n))
  /\ live' = Front(live)
  /\ UNCHANGED <<lexed, lexed_pos, slot, made, reports, built>>

\* source_file completes the root at the end, and the tree is built.
Finish ==
  /\ Len(live) = 1 /\ AtEnd
  /\ events' = Completed(Last(live))
  /\ marked' = Append(marked, Close(Last(live).n))
  /\ live' = <<>>
  /\ lhs' = None
  /\ slot' = None
  /\ built' = build(lexed, events')
  /\ UNCHANGED <<lexed, lexed_pos, made, reports>>

Without(seq, item) == SelectSeq(seq, LAMBDA x : x # item)

\* Marker::abandon: its Start is popped if nothing follows it, else left a
\* tombstone.  The grammar abandons no marker that wraps a node.
Abandon ==
  /\ Len(live) > 1
  /\ ~Last(live).wraps
  /\ events' = IF Last(live).pos = Len(events) THEN Front(events) ELSE events
  /\ marked' = Without(marked, Open(Last(live).n))
  /\ live' = Front(live)
  /\ lhs' = None
  /\ UNCHANGED <<lexed, lexed_pos, slot, made, reports, built>>

Inserted(seq, place, items) ==
  SubSeq(seq, 1, place) \o items \o SubSeq(seq, place + 1, Len(seq))
PlaceOf(item) == CHOOSE p \in DOMAIN marked : marked[p] = item

\* CompletedMarker::precede: a node around one completed already.
Precede ==
  /\ Parsing /\ lhs # None
  /\ More
  /\ made' = made + 1
  /\ events' = Append([events EXCEPT ![lhs.pos].forward_parent = Len(events) + 1 - lhs.pos],
                      Tombstone)
  /\ live' = Append(live, Marker(Len(events) + 1, made', TRUE))
  /\ lhs' = None
  /\ marked' = Inserted(marked, PlaceOf(Open(lhs.n)) - 1, <<Open(made')>>)
  /\ UNCHANGED <<lexed, lexed_pos, slot, reports, built>>

\* One more report, numbered made'.
Reported(report) == (made' :> report) @@ reports

\* error, and error_after_prev of the separator a token lacks.
Error(after_prev) ==
  /\ Parsing /\ More
  /\ made' = made + 1
  /\ after_prev => Prev # 0
  /\ events' = Append(events, ErrorEvent(made', after_prev))
  /\ reports' = Reported(Report(after_prev, 0, lexed_pos, Prev, TRUE))
  /\ marked' = Append(marked, Err(made'))
  /\ UNCHANGED <<lexed, lexed_pos, live, lhs, slot, built>>

\* reserve_error: a place at the current token.  One never filled reports
\* nothing; it is dropped when the next is reserved.
ReserveError ==
  /\ Parsing /\ More
  /\ made' = made + 1
  /\ events' = Append(events, Tombstone)
  /\ slot' = [pos |-> Len(events) + 1, n |-> made']
  /\ reports' = Reported(Report(FALSE, 0, lexed_pos, Prev, FALSE))
  /\ marked' = Append(marked, Err(made'))
  /\ lhs' = None
  /\ UNCHANGED <<lexed, lexed_pos, live, built>>

\* ErrorSlot::fill.
FillError ==
  /\ Parsing /\ slot # None
  /\ events' = [events EXCEPT ![slot.pos] = ErrorEvent(slot.n, FALSE)]
  /\ reports' = [reports EXCEPT ![slot.n].filled = TRUE]
  /\ slot' = None
  /\ UNCHANGED <<lexed, lexed_pos, live, lhs, made, marked, built>>
-----------------------------------------------------------------------------
(* `2,147,483,647` where a `;` is owed.                                     *)

\* The next n tokens are groups that touch the literal before them.
AreGroups(n) ==
  /\ n % 2 = 0 /\ lexed_pos + n - 1 <= Len(lexed)
  /\ lexed_pos > 1 /\ lexed[lexed_pos - 1] \in {"digits", "group"}
  /\ \A k \in 0..(n - 1) : lexed[lexed_pos + k] = IF k % 2 = 0 THEN "comma" ELSE "group"
DigitGroups(n) == AreGroups(n) /\ ~AreGroups(n + 2)

\* The literal's Start, right before the last Token.
LiteralStart(start) ==
  /\ IsStart(events[start]) /\ events[start].kind = "LITERAL"
  /\ start < Len(events) /\ events[start + 1] = TokenEvent
  /\ \A i \in (start + 2)..Len(events) : events[i] # TokenEvent

\* Mutant: forward parents are left as they are.
Unpatched(i, start, inserted) == events[i]

\* A forward parent past the splice moves with what it names.
Patched(i, start, inserted) ==
  LET fp == events[i].forward_parent
  IN  IF IsStart(events[i]) /\ fp # NoParent /\ i + fp > start + 1
        THEN [events[i] EXCEPT !.forward_parent = fp + inserted] ELSE events[i]

Reopened(event) == [event EXCEPT !.kind = "ERROR"]

\* err_digit_group_commas: the groups' events after the literal's token.
Spliced(start, tokens) ==
  LET inserted == tokens + 1
      head(i) == IF i = start THEN Reopened(Patched(i, start, inserted))
                 ELSE Patched(i, start, inserted)
  IN  [i \in 1..(Len(events) + inserted) |->
         CASE i <= start + 1 -> head(i)
           [] i = start + 2 -> CommasEvent(made + 1, tokens)
           [] i \in (start + 3)..(start + 1 + inserted) -> TokenEvent
           [] OTHER -> events[i - inserted]]

\* An error reported at the comma is about what follows the number.
Moved(literal, at, prev) ==
  [n \in DOMAIN reports |->
     IF PlaceOf(Err(n)) > PlaceOf(Tok(literal)) THEN [reports[n] EXCEPT !.at = at, !.prev = prev]
     ELSE reports[n]]

\* eat_digit_group_commas.  It asks that no marker past the literal is held; a
\* place held past it is not filled any more.
EatDigitGroupCommas ==
  /\ Parsing /\ More
  /\ made' = made + 1
  /\ \E tokens \in 1..Len(lexed), start \in DOMAIN events :
       /\ DigitGroups(tokens) /\ LiteralStart(start)
       /\ Last(live).pos < start
       /\ slot' = IF slot.pos < start THEN slot ELSE None
       /\ events' = Spliced(start, tokens)
       /\ lexed_pos' = Skip(lexed, lexed_pos + tokens)
       /\ marked' = Inserted(marked, PlaceOf(Tok(Prev)),
                      <<Err(made')>> \o [k \in 1..tokens |-> Tok(Prev + k)])
       /\ reports' = (made' :> Report(FALSE, tokens, lexed_pos, Prev, TRUE))
                     @@ Moved(Prev, lexed_pos', Prev + tokens)
  /\ lhs' = None
  /\ UNCHANGED <<lexed, live, built>>

Next ==
  \/ Start \/ Bump \/ Literal \/ Complete \/ Finish \/ Abandon \/ Precede
  \/ \E after_prev \in BOOLEAN : Error(after_prev)
  \/ ReserveError \/ FillError \/ EatDigitGroupCommas

Spec == Init /\ [][Next]_vars
-----------------------------------------------------------------------------
\* The nodes a later one wraps, and where it starts.
Wrapped == {i \in DOMAIN events : IsStart(events[i]) /\ events[i].forward_parent # NoParent}
Wrapper(i) == i + events[i].forward_parent

\* Each position held names what its holder put there: a marker's and the
\* slot's a tombstone no other holds, a completed node's its own Start with
\* nothing around it, a forward parent a Start no other names.
PositionsHold ==
  /\ \A k \in DOMAIN live : events[live[k].pos] = Tombstone
  /\ \A k, l \in DOMAIN live : k < l => live[k].pos < live[l].pos
  /\ slot # None => /\ events[slot.pos] = Tombstone
                    /\ \A k \in DOMAIN live : live[k].pos # slot.pos
                    /\ \A i \in Wrapped : Wrapper(i) # slot.pos
  /\ lhs # None => /\ IsStart(events[lhs.pos]) /\ events[lhs.pos].node = lhs.n
                   /\ events[lhs.pos].forward_parent = NoParent
  /\ \A i \in Wrapped : Wrapper(i) \in DOMAIN events /\ IsStart(events[Wrapper(i)])
  /\ \A i, j \in Wrapped : Wrapper(i) = Wrapper(j) => i = j

Done == built # <<>>
Is(at) == {x \in {built.out[p] : p \in DOMAIN built.out} : x.at = at}
IsTrivia(item) == item.at = "token" /\ lexed[item.n] = "space"
Leaves(at, seq) == SelectSeq(seq, LAMBDA item : item.at = at)

\* What an error may be missing for: nothing, or another one about the token
\* it would have been reported after.
Unfilled == {Err(n) : n \in {m \in DOMAIN reports : ~reports[m].filled}}
Suppressed ==
  {Err(n) : n \in {m \in DOMAIN reports :
     /\ reports[m].after_prev
     /\ \E i \in DOMAIN built.errors :
          Touch(built.errors[i].range, TokenRange(reports[m].prev))}}

\* The tree is what the calls meant, its brackets, tokens and errors each in
\* its place, covers every token, and a node starts and ends at real tokens.
TreeIsAsMarked ==
  Done =>
    LET out == built.out
        shown == Is("error")
    IN  /\ SelectSeq(out, LAMBDA x : ~IsTrivia(x))
             = SelectSeq(marked, LAMBDA x : x.at # "error" \/ x \in shown)
        /\ {x \in {marked[p] : p \in DOMAIN marked} : x.at = "error"}
             \subseteq shown \cup Unfilled \cup Suppressed
        /\ Leaves("token", out) = [i \in DOMAIN lexed |-> Tok(i)]
        /\ LET tree == SelectSeq(out, LAMBDA x : x.at # "error")
           IN  \A p \in DOMAIN tree : IsTrivia(tree[p]) =>
                 /\ tree[p - 1].at = "open" => tree[p - 1] = Open(1)
                 /\ tree[p + 1].at = "close" => tree[p + 1] = Close(1)

Anchored(report) ==
  CASE report.tokens > 0 -> <<TokenRange(report.prev)[1],
                              TokenRange(report.prev + report.tokens)[2]>>
    [] report.tokens = 0 /\ report.after_prev -> last_char(TokenRange(report.prev))
    [] report.tokens = 0 /\ ~report.after_prev /\ report.at <= Len(lexed) -> TokenRange(report.at)
    [] OTHER -> <<2 * Len(lexed), 2 * Len(lexed)>>

\* Each error points at what it was reported about, whatever was wrapped,
\* filled or put in since, and blames the innermost node around it that
\* began before it.
ErrorsAreWhereReported ==
  Done =>
    \A i \in DOMAIN built.errors :
      LET e == built.errors[i]
          p == CHOOSE q \in DOMAIN built.out : built.out[q] = Err(e.msg)
      IN  /\ e.range = Anchored(reports[e.msg])
          /\ built.owners[i] = Innermost(built.out, Around(built.out, p), e.range)
=============================================================================
