----------------------------- MODULE TreeBuilder -----------------------------
(***************************************************************************)
(* build of crates/syntax/src/builder.rs: the parser's events and the raw   *)
(* tokens, trivia included, made a lossless tree, with each error's range   *)
(* and the node to blame for it.                                            *)
(*                                                                         *)
(* A tree is its brackets and leaves in text order.  Every token is two     *)
(* characters long; a message is the number of the error it reports.        *)
(***************************************************************************)
EXTENDS Integers, Sequences, SequencesExt

Number == {"digits", "group", "long"}  \* of one or two digits, of three, others
TokenKind == Number \cup {"comma", "word", "space"}

TOMBSTONE == 0
NoParent == 0

\* An Event; the node a Start opens is named once it is completed.
StartEvent(node, kind, forward_parent) ==
  [e |-> "start", node |-> node, kind |-> kind, forward_parent |-> forward_parent]
TokenEvent  == [e |-> "token"]
FinishEvent == [e |-> "finish"]
ErrorEvent(msg, after_prev) == [e |-> "error", msg |-> msg, after_prev |-> after_prev]
CommasEvent(msg, tokens) == [e |-> "commas", msg |-> msg, tokens |-> tokens]
IsStart(event) == event.e = "start"

\* The tree's brackets and leaves, and where an error was reported.
Open(node)  == [at |-> "open", n |-> node]
Close(node) == [at |-> "close", n |-> node]
Tok(i)      == [at |-> "token", n |-> i]
Err(msg)    == [at |-> "error", n |-> msg]

\* skip_trivia: the first token from i on that is not trivia, or the end.
Skip(lexed, i) ==
  Min({j \in i..Len(lexed) : lexed[j] # "space"} \cup {Len(lexed) + 1})

\* Text ranges.
TokenRange(i) == <<2 * (i - 1), 2 * i>>
last_char(range) == IF range[1] = range[2] THEN range ELSE <<range[2] - 1, range[2]>>
Touch(r, s) == Max({r[1], s[1]}) <= Min({r[2], s[2]})
-----------------------------------------------------------------------------
(* Builder.  A state of it is also the tree so far.                         *)

EmptyBuilder ==
  [out |-> <<>>, raw_pos |-> 1, prev |-> <<0, 0>>, open |-> <<>>, started |-> 0,
   errors |-> <<>>, sites |-> <<>>]

depth(b) == Len(b.open)

eat_trivia(b, lexed) ==
  LET next == Skip(lexed, b.raw_pos)
  IN  [b EXCEPT !.out = @ \o [j \in 1..(next - b.raw_pos) |-> Tok(b.raw_pos + j - 1)],
                !.raw_pos = next]

\* Trivia before a node is its parent's; before the root it waits.
start_node(b, lexed, node) ==
  LET c == IF depth(b) > 0 THEN eat_trivia(b, lexed) ELSE b
  IN  [c EXCEPT !.out = Append(@, Open(node)), !.open = Append(@, node),
                !.started = @ + 1]

\* Trailing trivia is the root's.
finish_node(b, lexed) ==
  LET c == IF depth(b) = 1 THEN eat_trivia(b, lexed) ELSE b
  IN  [c EXCEPT !.out = Append(@, Close(Last(c.open))), !.open = Front(@)]

token(b, lexed) ==
  LET c == eat_trivia(b, lexed)
  IN  [c EXCEPT !.out = Append(@, Tok(c.raw_pos)), !.prev = TokenRange(c.raw_pos),
                !.raw_pos = @ + 1]

push_error(b, msg, range) ==
  [b EXCEPT !.out = Append(@, Err(msg)),
            !.errors = Append(@, [msg |-> msg, range |-> range]),
            !.sites = Append(@, [started |-> b.started, depth |-> depth(b)])]

\* Where an error points: the last character of the token before it, or the
\* token looked at, or the end.
Anchor(b, lexed, after_prev) ==
  LET pos == Skip(lexed, b.raw_pos)
  IN  CASE after_prev -> last_char(b.prev)
        [] ~after_prev /\ pos <= Len(lexed) -> TokenRange(pos)
        [] OTHER -> <<2 * Len(lexed), 2 * Len(lexed)>>

\* One after a token that carries an error already is dropped.
error(b, lexed, event) ==
  IF event.after_prev /\ \E i \in DOMAIN b.errors : Touch(b.errors[i].range, b.prev)
    THEN b ELSE push_error(b, event.msg, Anchor(b, lexed, event.after_prev))

\* The literal is the previous token, its groups the next ones.
digit_group_commas(b, event) ==
  push_error(b, event.msg, <<b.prev[1], b.prev[2] + 2 * event.tokens>>)

\* Mutant: innermost first.
InnermostFirst(events, i) ==
  LET chain[j \in DOMAIN events] ==
        IF events[j].forward_parent = NoParent THEN <<j>>
        ELSE <<j>> \o chain[j + events[j].forward_parent]
  IN  chain[i]

\* A Start and the forward parents around it, outermost first.
ForwardParents(events, i) ==
  LET chain[j \in DOMAIN events] ==
        IF events[j].forward_parent = NoParent THEN <<j>>
        ELSE Append(chain[j + events[j].forward_parent], j)
  IN  chain[i]

StartAll(b, lexed, events, i) ==
  LET nodes == SelectSeq([k \in DOMAIN ForwardParents(events, i) |->
                            events[ForwardParents(events, i)[k]].node],
                         LAMBDA node : node # TOMBSTONE)
  IN  FoldLeft(LAMBDA c, node : start_node(c, lexed, node), b, nodes)

\* The Starts a forward parent names are consumed before their turn.
Consumed(events) ==
  {i + events[i].forward_parent :
     i \in {j \in DOMAIN events : IsStart(events[j]) /\ events[j].forward_parent # NoParent}}

Replayed(lexed, events) ==
  LET consumed == Consumed(events)
      step(b, i) ==
        CASE IsStart(events[i]) -> IF i \in consumed THEN b ELSE StartAll(b, lexed, events, i)
          [] events[i].e = "token"  -> token(b, lexed)
          [] events[i].e = "finish" -> finish_node(b, lexed)
          [] events[i].e = "error"  -> error(b, lexed, events[i])
          [] events[i].e = "commas" -> digit_group_commas(b, events[i])
  IN  FoldLeft(step, EmptyBuilder, [i \in DOMAIN events |-> i])
-----------------------------------------------------------------------------
(* Blame, on the finished tree.                                             *)

Opens(out) == SelectSeq([p \in DOMAIN out |-> p], LAMBDA p : out[p].at = "open")

\* The nodes a place of the tree is in, one that opens there included,
\* outermost first.
Around(out, place) ==
  SelectSeq(Opens(out),
    LAMBDA p : p <= place /\ \E q \in (place + 1)..Len(out) : out[q] = Close(out[p].n))

\* Where the node opened at p starts.
StartOf(out, p) == 2 * Cardinality({q \in 1..p : out[q].at = "token"})

\* The innermost of nodes that began before the error, or the root.
Innermost(out, nodes, range) ==
  LET before == SelectSeq(nodes, LAMBDA p : StartOf(out, p) < range[1])
  IN  IF before = <<>> THEN out[1].n ELSE out[Last(before)].n

\* Mutant: whatever is around the newest node.
OwnerAroundNewest(out, site, range) ==
  Innermost(out, Around(out, Opens(out)[site.started]), range)

\* The nodes open at a site: the outermost ones around the newest then.
OwnerAt(out, site, range) ==
  Innermost(out, SubSeq(Around(out, Opens(out)[site.started]), 1, site.depth), range)

build(lexed, events) ==
  LET b == Replayed(lexed, events)
  IN  [out |-> b.out, errors |-> b.errors,
       owners |-> [i \in DOMAIN b.errors |-> OwnerAt(b.out, b.sites[i], b.errors[i].range)]]
=============================================================================
