---------------------------- MODULE Parser_proofs ----------------------------
(***************************************************************************)
(* Proofs about the parser's events, for any texts and any number of nodes  *)
(* and errors: the positions that markers, completed nodes, reserved errors *)
(* and forward parents keep stay true through every call, the splice of     *)
(* digit groups included, so that no call meets an event it cannot be       *)
(* about (the `unreachable!()` of parser.rs and builder.rs).                *)
(*                                                                         *)
(* PositionsHold is not inductive: an abandoned marker is popped, so no     *)
(* node's forward parent may name a marker that wraps nothing.  The parts   *)
(* of the invariant speak of any list of events, so that each call is one   *)
(* fact about the list it leaves.                                           *)
(***************************************************************************)
EXTENDS Parser, SequenceTheorems, TLAPS

StartEvents ==
  [e : {"start"}, node : Nat, kind : {"none", "NODE", "LITERAL", "ERROR"},
   forward_parent : Nat]
Events ==
  StartEvents \cup [e : {"token", "finish"}]
    \cup [e : {"error"}, msg : Nat, after_prev : BOOLEAN]
    \cup [e : {"commas"}, msg : Nat, tokens : Nat]

Held == [pos : Nat \ {0}, n : Nat \ {0}, wraps : BOOLEAN]
Kept == {None} \cup [pos : Nat \ {0}, n : Nat \ {0}]

TypeInv ==
  /\ lexed \in Seq(TokenKind)
  /\ events \in Seq(Events)
  /\ live \in Seq(Held)
  /\ lhs \in Kept /\ slot \in Kept
  /\ made \in Nat

Wraps(ev, i) == IsStart(ev[i]) /\ ev[i].forward_parent # NoParent
Target(ev, i) == i + ev[i].forward_parent
Free(ev, p) == \A i \in 1..Len(ev) : Wraps(ev, i) => Target(ev, i) # p

\* A forward parent names a Start, and no two the same.
Sound(ev) ==
  /\ \A i \in 1..Len(ev) :
       Wraps(ev, i) => Target(ev, i) \in 1..Len(ev) /\ IsStart(ev[Target(ev, i)])
  /\ \A i, j \in 1..Len(ev) :
       Wraps(ev, i) /\ Wraps(ev, j) /\ Target(ev, i) = Target(ev, j) => i = j

\* The markers held are tombstones in the order they were started.
Holds(ev, lv) ==
  /\ \A k \in 1..Len(lv) : lv[k].pos \in 1..Len(ev) /\ ev[lv[k].pos] = Tombstone
  /\ \A k \in 1..Len(lv) : ~lv[k].wraps => Free(ev, lv[k].pos)
  /\ \A k, l \in 1..Len(lv) : k < l => lv[k].pos < lv[l].pos

Reserves(ev, lv, sl) ==
  sl # None => /\ sl.pos \in 1..Len(ev) /\ ev[sl.pos] = Tombstone
               /\ Free(ev, sl.pos)
               /\ \A k \in 1..Len(lv) : lv[k].pos # sl.pos

Completes(ev, lh) ==
  lh # None => /\ lh.pos \in 1..Len(ev)
               /\ IsStart(ev[lh.pos]) /\ ev[lh.pos].node = lh.n
               /\ ev[lh.pos].forward_parent = NoParent

Good(ev, lv, lh, sl) ==
  Sound(ev) /\ Holds(ev, lv) /\ Reserves(ev, lv, sl) /\ Completes(ev, lh)

IInv == TypeInv /\ Good(events, live, lhs, slot)
-----------------------------------------------------------------------------
LEMMA EventTypes ==
  /\ Tombstone \in StartEvents /\ IsStart(Tombstone)
  /\ Tombstone.forward_parent = 0 /\ Tombstone.node = 0
  /\ TokenEvent \in Events /\ ~IsStart(TokenEvent)
  /\ FinishEvent \in Events /\ ~IsStart(FinishEvent)
  /\ \A m \in Nat, a \in BOOLEAN : ErrorEvent(m, a) \in Events /\ ~IsStart(ErrorEvent(m, a))
  /\ \A m, t \in Nat : CommasEvent(m, t) \in Events /\ ~IsStart(CommasEvent(m, t))
  /\ \A ev \in Events : IsStart(ev) => ev \in StartEvents
  /\ \A ev \in StartEvents : ev \in Events /\ IsStart(ev)
BY DEF Tombstone, StartEvent, TOMBSTONE, NoParent, IsStart, StartEvents, TokenEvent,
       FinishEvent, ErrorEvent, CommasEvent, Events

LEMMA NodeOfTombstone ==
  ASSUME NEW n
  PROVE  [Tombstone EXCEPT !.node = n, !.kind = "NODE"]
           = [e |-> "start", node |-> n, kind |-> "NODE", forward_parent |-> NoParent]
<1>1. Tombstone = [e |-> "start", node |-> TOMBSTONE, kind |-> "none", forward_parent |-> NoParent]
  BY DEF Tombstone, StartEvent
<1> DEFINE named == [Tombstone EXCEPT !.node = n]
<1>2. named = [e |-> "start", node |-> n, kind |-> "none", forward_parent |-> NoParent]
  BY <1>1
<1> HIDE DEF named
<1>3. [named EXCEPT !.kind = "NODE"]
        = [e |-> "start", node |-> n, kind |-> "NODE", forward_parent |-> NoParent]
  BY <1>2
<1> QED  BY <1>3 DEF named

LEMMA FieldOfEvent ==
  ASSUME NEW ev, NEW p, NEW d
  PROVE  [ev EXCEPT ![p].forward_parent = d]
           = [ev EXCEPT ![p] = [ev[p] EXCEPT !.forward_parent = d]]
OBVIOUS

LEMMA KeptFields ==
  ASSUME NEW c \in Kept, c # None
  PROVE  c.pos \in Nat \ {0} /\ c.n \in Nat \ {0}
BY DEF Kept

\* A list that wraps nothing new, and in which what was named still is a Start,
\* is sound, and leaves free what was.
LEMMA NothingWrapped ==
  ASSUME NEW ev \in Seq(Events), NEW ew \in Seq(Events), Len(ev) <= Len(ew),
         \A i \in 1..Len(ew) : Wraps(ew, i) =>
            /\ i <= Len(ev) /\ Wraps(ev, i)
            /\ ew[i].forward_parent = ev[i].forward_parent,
         \A i \in 1..Len(ev) : IsStart(ev[i]) => IsStart(ew[i]) \/ Free(ev, i),
         Sound(ev)
  PROVE  /\ Sound(ew)
         /\ \A p : Free(ev, p) => Free(ew, p)
         /\ \A p \in Nat : p > Len(ev) => Free(ew, p)
<1>1. Len(ev) \in Nat /\ Len(ew) \in Nat
  OBVIOUS
<1>2. \A i \in 1..Len(ew) : Wraps(ew, i) =>
         i \in 1..Len(ev) /\ Wraps(ev, i) /\ Target(ew, i) = Target(ev, i)
  BY <1>1 DEF Target
<1>3. \A i \in 1..Len(ew) : Wraps(ew, i) =>
         Target(ew, i) \in 1..Len(ew) /\ IsStart(ew[Target(ew, i)])
  BY <1>1, <1>2 DEF Sound, Free
<1>4. \A i, j \in 1..Len(ew) :
         Wraps(ew, i) /\ Wraps(ew, j) /\ Target(ew, i) = Target(ew, j) => i = j
  BY <1>2 DEF Sound
<1>5. \A p : Free(ev, p) => Free(ew, p)
  BY <1>2 DEF Free
<1>6. \A p \in Nat : p > Len(ev) => Free(ew, p)
  BY <1>1, <1>2 DEF Free, Sound
<1> QED  BY <1>3, <1>4, <1>5, <1>6 DEF Sound

\* More events that wrap nothing leave all that is held as it was.
LEMMA Extended ==
  ASSUME NEW ev \in Seq(Events), NEW ew \in Seq(Events), Len(ev) <= Len(ew),
         \A i \in 1..Len(ev) : ew[i] = ev[i],
         \A i \in 1..Len(ew) : i > Len(ev) => ~Wraps(ew, i),
         NEW lv \in Seq(Held), NEW lh \in Kept, NEW sl \in Kept,
         Good(ev, lv, lh, sl)
  PROVE  /\ Good(ew, lv, lh, sl)
         /\ \A p \in Nat : p > Len(ev) => Free(ew, p)
<1>1. Len(ev) \in Nat /\ Len(ew) \in Nat
  OBVIOUS
<1>2. /\ Sound(ew)
      /\ \A p : Free(ev, p) => Free(ew, p)
      /\ \A p \in Nat : p > Len(ev) => Free(ew, p)
  <2>1. \A i \in 1..Len(ew) : Wraps(ew, i) =>
            /\ i <= Len(ev) /\ Wraps(ev, i)
            /\ ew[i].forward_parent = ev[i].forward_parent
    BY <1>1 DEF Wraps
  <2>2. \A i \in 1..Len(ev) : IsStart(ev[i]) => IsStart(ew[i]) \/ Free(ev, i)
    OBVIOUS
  <2> QED  BY <2>1, <2>2, NothingWrapped DEF Good
<1>3. Holds(ew, lv)
  BY <1>1, <1>2 DEF Good, Holds
<1>4. Reserves(ew, lv, sl)
  BY <1>1, <1>2 DEF Good, Reserves
<1>5. Completes(ew, lh)
  BY <1>1 DEF Good, Completes
<1> QED  BY <1>2, <1>3, <1>4, <1>5 DEF Good

\* Once something else is written the completed node is given up.
LEMMA Forgotten ==
  ASSUME NEW ev, NEW lv, NEW lh, NEW sl, Good(ev, lv, lh, sl)
  PROVE  Good(ev, lv, None, sl) /\ Good(ev, lv, lh, None)
BY DEF Good, Completes, Reserves

LEMMA Pushed ==
  ASSUME NEW ev \in Seq(Events), NEW lv \in Seq(Held), NEW lh, NEW sl \in Kept,
         Good(ev, lv, lh, sl),
         NEW m \in Held, m.pos \in 1..Len(ev), ev[m.pos] = Tombstone,
         ~m.wraps => Free(ev, m.pos),
         \A k \in 1..Len(lv) : lv[k].pos < m.pos,
         sl # None => sl.pos < m.pos
  PROVE  Append(lv, m) \in Seq(Held) /\ Good(ev, Append(lv, m), lh, sl)
<1> DEFINE lw == Append(lv, m)
<1>1. /\ lw \in Seq(Held) /\ Len(lw) = Len(lv) + 1 /\ Len(lv) \in Nat
      /\ \A k \in 1..Len(lv) : lw[k] = lv[k]
      /\ lw[Len(lv) + 1] = m
  OBVIOUS
<1> HIDE DEF lw
<1>2. \A k \in 1..Len(lw) : \/ k \in 1..Len(lv) /\ lw[k] = lv[k]
                            \/ k = Len(lv) + 1 /\ lw[k] = m
  <2>1. \A k \in 1..Len(lw) : k \in 1..Len(lv) \/ k = Len(lv) + 1
    BY <1>1
  <2> QED  BY <1>1, <2>1
<1>3. Holds(ev, lw)
  <2>1. \A k \in 1..Len(lw) : lw[k].pos \in 1..Len(ev) /\ ev[lw[k].pos] = Tombstone
    BY <1>2 DEF Good, Holds
  <2>2. \A k \in 1..Len(lw) : ~lw[k].wraps => Free(ev, lw[k].pos)
    BY <1>2 DEF Good, Holds
  <2>3. \A k, l \in 1..Len(lw) : k < l => lw[k].pos < lw[l].pos
    <3> SUFFICES ASSUME NEW k \in 1..Len(lw), NEW l \in 1..Len(lw), k < l
                 PROVE  lw[k].pos < lw[l].pos
      OBVIOUS
    <3>1. k \in 1..Len(lv) /\ lw[k] = lv[k]
      BY <1>1, <1>2
    <3> QED  BY <1>2, <3>1 DEF Good, Holds
  <2> QED  BY <2>1, <2>2, <2>3 DEF Holds
<1>4. Reserves(ev, lw, sl)
  <2> SUFFICES ASSUME sl # None, NEW k \in 1..Len(lw) PROVE lw[k].pos # sl.pos
    BY DEF Good, Reserves
  <2>1. sl.pos \in Nat /\ m.pos \in Nat
    BY KeptFields DEF Held
  <2> QED  BY <1>2, <2>1 DEF Good, Reserves
<1> QED  BY <1>1, <1>3, <1>4 DEF Good, lw

LEMMA FrontFacts ==
  ASSUME NEW S, NEW seq \in Seq(S), seq # <<>>
  PROVE  /\ Front(seq) \in Seq(S) /\ Len(Front(seq)) = Len(seq) - 1
         /\ \A k \in 1..(Len(seq) - 1) : Front(seq)[k] = seq[k]
         /\ Len(seq) \in 1..Len(seq) /\ Last(seq) = seq[Len(seq)] /\ Last(seq) \in S
<1>1. Len(seq) \in Nat \ {0}
  BY EmptySeq
<1> DEFINE n == Len(seq) - 1
<1>2. n \in Int /\ n >= 0 /\ 1 \in Int /\ \A i \in 1..n : i \in 1..Len(seq) /\ seq[i] \in S
  BY <1>1
<1>3. Front(seq) = SubSeq(seq, 1, n)
  BY DEF Front
<1> HIDE DEF n
<1>4. /\ \A i \in 1..n : 1 + i - 1 = i
      /\ (IF 1 <= n THEN n - 1 + 1 ELSE 0) = n /\ n - 1 + 1 = n
  BY <1>2
<1>5. /\ SubSeq(seq, 1, n) \in Seq(S)
      /\ Len(SubSeq(seq, 1, n)) = IF 1 <= n THEN n - 1 + 1 ELSE 0
      /\ \A i \in 1..(n - 1 + 1) : SubSeq(seq, 1, n)[i] = seq[1 + i - 1]
  BY <1>2, SubSeqProperties
<1>6. /\ Front(seq) \in Seq(S) /\ Len(Front(seq)) = n
      /\ \A k \in 1..n : Front(seq)[k] = seq[k]
  BY <1>3, <1>4, <1>5
<1> QED  BY <1>1, <1>6 DEF n, Last

LEMMA Popped ==
  ASSUME NEW ev \in Seq(Events), NEW lv \in Seq(Held), lv # <<>>, NEW lh, NEW sl \in Kept,
         Good(ev, lv, lh, sl)
  PROVE  /\ Last(lv) \in Held /\ Last(lv) = lv[Len(lv)] /\ Len(lv) \in 1..Len(lv)
         /\ Front(lv) \in Seq(Held) /\ Len(Front(lv)) = Len(lv) - 1
         /\ \A k \in 1..Len(Front(lv)) : /\ k \in 1..Len(lv) /\ k < Len(lv)
                                         /\ Front(lv)[k] = lv[k]
                                         /\ Front(lv)[k].pos < Last(lv).pos
         /\ Good(ev, Front(lv), lh, sl)
<1>1. /\ Last(lv) \in Held /\ Last(lv) = lv[Len(lv)] /\ Len(lv) \in 1..Len(lv)
      /\ Len(lv) \in Nat
  BY FrontFacts
<1>2. /\ Front(lv) \in Seq(Held) /\ Len(Front(lv)) = Len(lv) - 1
      /\ \A k \in 1..Len(Front(lv)) : Front(lv)[k] = lv[k]
  BY <1>1, FrontFacts
<1>3. \A k \in 1..Len(Front(lv)) : k \in 1..Len(lv) /\ k < Len(lv) /\ Front(lv)[k] = lv[k]
  BY <1>1, <1>2
<1>4. \A k \in 1..Len(Front(lv)) : Front(lv)[k].pos < Last(lv).pos
  BY <1>1, <1>3 DEF Good, Holds
<1>5. Holds(ev, Front(lv))
  BY <1>3 DEF Good, Holds
<1>6. Reserves(ev, Front(lv), sl)
  BY <1>3 DEF Good, Reserves
<1> QED  BY <1>1, <1>2, <1>3, <1>4, <1>5, <1>6 DEF Good
-----------------------------------------------------------------------------
LEMMA Shape ==
  ASSUME IInv
  PROVE  /\ events \in Seq(Events) /\ Len(events) \in Nat
         /\ live \in Seq(Held) /\ Len(live) \in Nat
         /\ lhs \in Kept /\ slot \in Kept /\ made \in Nat
         /\ Good(events, live, lhs, slot)
         /\ \A k \in 1..Len(live) : live[k].pos < Len(events) + 1
         /\ slot # None => slot.pos < Len(events) + 1
<1>1. /\ events \in Seq(Events) /\ Len(events) \in Nat
      /\ live \in Seq(Held) /\ Len(live) \in Nat
      /\ lhs \in Kept /\ slot \in Kept /\ made \in Nat
      /\ Good(events, live, lhs, slot)
  BY DEF IInv, TypeInv
<1> QED  BY <1>1 DEF Good, Holds, Reserves

LEMMA NoneIsKept == None \in Kept
BY DEF Kept

\* One event written, that wraps nothing.
LEMMA Written ==
  ASSUME IInv, NEW e \in Events, IsStart(e) => e.forward_parent = NoParent,
         events' = Append(events, e)
  PROVE  /\ events' \in Seq(Events) /\ Len(events') = Len(events) + 1
         /\ events'[Len(events) + 1] = e
         /\ Good(events', live, lhs, slot) /\ Good(events', live, None, slot)
         /\ Free(events', Len(events) + 1)
<1>1. /\ events' \in Seq(Events) /\ Len(events') = Len(events) + 1
      /\ events'[Len(events) + 1] = e
      /\ \A i \in 1..Len(events) : events'[i] = events[i]
  BY Shape
<1>2. \A i \in 1..Len(events') : i > Len(events) => ~Wraps(events', i)
  BY <1>1, Shape DEF Wraps
<1>3. Good(events', live, lhs, slot) /\ Free(events', Len(events) + 1)
  <2>1. /\ Len(events) <= Len(events') /\ events \in Seq(Events)
        /\ live \in Seq(Held) /\ lhs \in Kept /\ slot \in Kept
        /\ Good(events, live, lhs, slot)
        /\ Len(events) + 1 \in Nat /\ Len(events) + 1 > Len(events)
    BY <1>1, Shape
  <2>2. /\ Good(events', live, lhs, slot)
        /\ \A p \in Nat : p > Len(events) => Free(events', p)
    BY <1>1, <1>2, <2>1, Extended
  <2> QED  BY <2>1, <2>2
<1> QED  BY <1>1, <1>3, Forgotten

LEMMA StartKeeps == IInv /\ Start => IInv'
<1> SUFFICES ASSUME IInv, Start PROVE IInv'
  OBVIOUS
<1> DEFINE m == Marker(Len(events) + 1, made + 1, FALSE)
<1>1. /\ events' = Append(events, Tombstone) /\ lhs' = None /\ slot' = slot
      /\ lexed' = lexed /\ made' = made + 1 /\ live' = Append(live, m)
  BY DEF Start
<1>2. /\ events' \in Seq(Events) /\ Len(events') = Len(events) + 1
      /\ events'[Len(events) + 1] = Tombstone
      /\ Good(events', live, None, slot) /\ Free(events', Len(events) + 1)
  BY <1>1, Written, EventTypes DEF NoParent
<1>3. m \in Held /\ m.pos = Len(events) + 1
  BY Shape DEF Marker, Held
<1> HIDE DEF m
<1>4. live' \in Seq(Held) /\ Good(events', live', None, slot)
  <2>1. /\ live \in Seq(Held) /\ slot \in Kept
        /\ m.pos \in 1..Len(events') /\ events'[m.pos] = Tombstone /\ Free(events', m.pos)
        /\ \A k \in 1..Len(live) : live[k].pos < m.pos
        /\ slot # None => slot.pos < m.pos
    BY <1>2, <1>3, Shape
  <2> QED  BY <1>1, <1>2, <1>3, <2>1, Pushed
<1>5. TypeInv'
  BY <1>1, <1>2, <1>4, Shape, NoneIsKept DEF IInv, TypeInv
<1> QED  BY <1>1, <1>4, <1>5 DEF IInv

LEMMA BumpKeeps == IInv /\ Bump => IInv'
<1> SUFFICES ASSUME IInv, Bump PROVE IInv'
  OBVIOUS
<1>1. /\ events' = Append(events, TokenEvent) /\ lhs' = None /\ slot' = slot
      /\ lexed' = lexed /\ made' = made /\ live' = live
  BY DEF Bump
<1>2. events' \in Seq(Events) /\ Good(events', live, None, slot)
  BY <1>1, Written, EventTypes
<1> QED  BY <1>1, <1>2, Shape, NoneIsKept DEF IInv, TypeInv

LEMMA ErrorKeeps == ASSUME IInv, NEW a \in BOOLEAN, Error(a) PROVE IInv'
<1>1. /\ events' = Append(events, ErrorEvent(made + 1, a)) /\ lhs' = lhs /\ slot' = slot
      /\ lexed' = lexed /\ made' = made + 1 /\ live' = live
  BY DEF Error
<1>2. ErrorEvent(made + 1, a) \in Events /\ ~IsStart(ErrorEvent(made + 1, a))
  BY Shape, EventTypes
<1>3. events' \in Seq(Events) /\ Good(events', live, lhs, slot)
  BY <1>1, <1>2, Written
<1> QED  BY <1>1, <1>3, Shape DEF IInv, TypeInv

LEMMA ReserveKeeps == IInv /\ ReserveError => IInv'
<1> SUFFICES ASSUME IInv, ReserveError PROVE IInv'
  OBVIOUS
<1>1. /\ events' = Append(events, Tombstone) /\ lhs' = None
      /\ slot' = [pos |-> Len(events) + 1, n |-> made + 1]
      /\ lexed' = lexed /\ made' = made + 1 /\ live' = live
  BY DEF ReserveError
<1>2. /\ events' \in Seq(Events) /\ Len(events') = Len(events) + 1
      /\ events'[Len(events) + 1] = Tombstone
      /\ Good(events', live, None, slot) /\ Free(events', Len(events) + 1)
  BY <1>1, Written, EventTypes DEF NoParent
<1>3. slot' \in Kept /\ slot'.pos = Len(events) + 1
  BY <1>1, Shape DEF Kept
<1>4. Reserves(events', live, slot')
  <2>1. Len(events) + 1 \in 1..Len(events')
    BY <1>2, Shape
  <2>2. \A k \in 1..Len(live) : live[k].pos # Len(events) + 1
    <3>1. \A k \in 1..Len(live) : live[k].pos \in Nat
      <4>1. \A k \in 1..Len(live) : live[k] \in Held
        BY Shape
      <4> QED  BY <4>1 DEF Held
    <3> QED  BY <3>1, Shape
  <2> QED  BY <1>2, <1>3, <2>1, <2>2 DEF Reserves
<1>5. Good(events', live, None, slot')
  BY <1>2, <1>4 DEF Good
<1> QED  BY <1>1, <1>2, <1>3, <1>5, Shape, NoneIsKept DEF IInv, TypeInv

LEMMA LiteralKeeps == IInv /\ Literal => IInv'
<1> SUFFICES ASSUME IInv, Literal PROVE IInv'
  OBVIOUS
<1> DEFINE leaf == StartEvent(made + 1, "LITERAL", NoParent)
           tail == <<leaf, TokenEvent, FinishEvent>>
           m == CompletedMarker(Len(events) + 1, made + 1)
<1>1. /\ events' = events \o tail /\ lhs' = m
      /\ slot' = slot /\ lexed' = lexed /\ made' = made + 1 /\ live' = live
  BY DEF Literal
<1>2. /\ leaf \in Events /\ IsStart(leaf) /\ leaf.node = made + 1
      /\ leaf.forward_parent = NoParent
  BY Shape, EventTypes DEF StartEvent, StartEvents, IsStart, NoParent
<1>3. m \in Kept /\ m.pos = Len(events) + 1 /\ m.n = made + 1
  BY Shape DEF CompletedMarker, Kept
<1> HIDE DEF leaf, m
<1>4. /\ tail \in Seq(Events) /\ Len(tail) = 3 /\ tail[1] = leaf
      /\ \A i \in 1..3 : ~Wraps(tail, i)
  BY <1>2, EventTypes DEF Wraps
<1> HIDE DEF tail
<1>5. /\ events' \in Seq(Events) /\ Len(events') = Len(events) + 3
      /\ \A i \in 1..Len(events) : events'[i] = events[i]
      /\ \A i \in 1..Len(events') : i > Len(events) =>
           i - Len(events) \in 1..3 /\ events'[i] = tail[i - Len(events)]
  <2>1. events' \in Seq(Events) /\ Len(events') = Len(events) + 3
    <3>1. events \o tail \in Seq(Events) /\ Len(events \o tail) = Len(events) + Len(tail)
      BY <1>4, Shape, ConcatProperties
    <3> QED  BY <1>1, <1>4, <3>1
  <2>2. \A i \in 1..Len(events) : events'[i] = events[i]
    BY <1>1, <1>4, Shape, ConcatProperties
  <2>3. \A i \in 1..Len(events') : i > Len(events) =>
           i - Len(events) \in 1..3 /\ events'[i] = tail[i - Len(events)]
    <3>1. events \in Seq(Events) /\ Len(events) \in Nat
      BY Shape
    <3> QED  BY <1>1, <1>4, <2>1, <3>1, ConcatProperties
  <2> QED  BY <2>1, <2>2, <2>3
<1>6. \A i \in 1..Len(events') : i > Len(events) => ~Wraps(events', i)
  BY <1>4, <1>5 DEF Wraps
<1>7. Good(events', live, lhs, slot)
  BY <1>5, <1>6, Shape, Extended
<1>8. Completes(events', m)
  <2>1. Len(events) + 1 \in 1..Len(events') /\ events'[Len(events) + 1] = leaf
    BY <1>4, <1>5, Shape
  <2> QED  BY <1>2, <1>3, <2>1 DEF Completes
<1>9. Good(events', live, m, slot)
  BY <1>7, <1>8 DEF Good
<1> QED  BY <1>1, <1>3, <1>5, <1>9, Shape DEF IInv, TypeInv

\* The innermost marker completed: its Start is its own, and nothing's parent
\* but what it wraps.
LEMMA Closing ==
  ASSUME IInv, live # <<>>, events' = Completed(Last(live))
  PROVE  /\ events' \in Seq(Events)
         /\ CompletedMarker(Last(live).pos, Last(live).n) \in Kept
         /\ Good(events', Front(live), CompletedMarker(Last(live).pos, Last(live).n), slot)
<1> DEFINE m == Last(live)
           p == m.pos
           c == CompletedMarker(m.pos, m.n)
           node == [e |-> "start", node |-> m.n, kind |-> "NODE", forward_parent |-> NoParent]
           ev == [events EXCEPT ![p] = node]
<1>1. /\ m \in Held /\ m = live[Len(live)] /\ Len(live) \in 1..Len(live)
      /\ Front(live) \in Seq(Held)
      /\ \A k \in 1..Len(Front(live)) : Front(live)[k].pos < p
      /\ Good(events, Front(live), lhs, slot)
  BY Shape, Popped
<1>2. p \in 1..Len(events) /\ events[p] = Tombstone
  BY <1>1, Shape DEF Good, Holds
<1>3. slot # None => slot.pos # p
  BY <1>1, Shape DEF Good, Reserves
<1>4. p \in Nat \ {0} /\ m.n \in Nat \ {0}
  BY <1>1 DEF Held
<1>5. c \in Kept /\ c.pos = p /\ c.n = m.n
  BY <1>4 DEF CompletedMarker, Kept
<1>6. /\ node \in Events /\ IsStart(node) /\ node.node = m.n /\ node.forward_parent = NoParent
  BY <1>4, EventTypes DEF StartEvents, IsStart, NoParent
<1>7. events' = Append(ev, FinishEvent)
  <2>1. [events EXCEPT ![p].node = m.n, ![p].kind = "NODE"]
          = [events EXCEPT ![p] = [events[p] EXCEPT !.node = m.n, !.kind = "NODE"]]
    BY <1>2, Shape
  <2>2. [Tombstone EXCEPT !.node = m.n, !.kind = "NODE"] = node
    BY <1>4, NodeOfTombstone
  <2> QED  BY <1>2, <2>1, <2>2 DEF Completed
<1> HIDE DEF node, c
<1>8. /\ ev \in Seq(Events) /\ Len(ev) = Len(events)
      /\ ev[p] = node
      /\ \A i \in 1..Len(events) : i # p => ev[i] = events[i]
  BY <1>2, <1>6, Shape
<1> HIDE DEF ev, m, p
<1>9. /\ Sound(ev) /\ \A q : Free(events, q) => Free(ev, q)
  <2>1. \A i \in 1..Len(ev) : Wraps(ev, i) =>
            /\ i <= Len(events) /\ Wraps(events, i)
            /\ ev[i].forward_parent = events[i].forward_parent
    BY <1>6, <1>8, Shape DEF Wraps
  <2>2. \A i \in 1..Len(events) : IsStart(events[i]) => IsStart(ev[i]) \/ Free(events, i)
    BY <1>6, <1>8
  <2>3. Len(events) <= Len(ev) /\ Sound(events)
    BY <1>8, Shape DEF Good
  <2> QED  BY <1>8, <2>1, <2>2, <2>3, Shape, NothingWrapped
<1>10. Good(ev, Front(live), c, slot)
  <2>1. Holds(ev, Front(live))
    <3>1. \A k \in 1..Len(Front(live)) :
            /\ Front(live)[k].pos \in 1..Len(events) /\ Front(live)[k].pos # p
            /\ events[Front(live)[k].pos] = Tombstone
      BY <1>1, <1>4 DEF Good, Holds
    <3>2. \A k \in 1..Len(Front(live)) :
            Front(live)[k].pos \in 1..Len(ev) /\ ev[Front(live)[k].pos] = Tombstone
      BY <1>8, <3>1
    <3> QED  BY <1>1, <1>9, <3>2 DEF Good, Holds
  <2>2. Reserves(ev, Front(live), slot)
    BY <1>1, <1>3, <1>8, <1>9 DEF Good, Reserves
  <2>3. Completes(ev, c)
    BY <1>2, <1>5, <1>6, <1>8 DEF Completes
  <2> QED  BY <1>9, <2>1, <2>2, <2>3 DEF Good
<1>11. /\ events' \in Seq(Events) /\ Len(events') = Len(ev) + 1
       /\ events'[Len(ev) + 1] = FinishEvent
       /\ \A i \in 1..Len(ev) : events'[i] = ev[i]
  BY <1>7, <1>8, EventTypes
<1>12. \A i \in 1..Len(events') : i > Len(ev) => ~Wraps(events', i)
  BY <1>8, <1>11, EventTypes DEF Wraps
<1>13. Good(events', Front(live), c, slot)
  <2>1. slot \in Kept /\ Len(events) \in Nat
    BY Shape
  <2>2. /\ Len(ev) <= Len(events')
        /\ \A i \in 1..Len(ev) : events'[i] = ev[i]
        /\ \A i \in 1..Len(events') : i > Len(ev) => ~Wraps(events', i)
    BY <1>8, <1>11, <1>12, <2>1
  <2>3. Front(live) \in Seq(Held) /\ c \in Kept /\ ev \in Seq(Events) /\ events' \in Seq(Events)
    BY <1>1, <1>5, <1>8, <1>11
  <2> HIDE DEF ev, c
  <2> QED  BY <1>10, <2>1, <2>2, <2>3, Extended
<1> QED  BY <1>5, <1>11, <1>13 DEF c, m, p

LEMMA CompleteKeeps == IInv /\ Complete => IInv'
<1> SUFFICES ASSUME IInv, Complete PROVE IInv'
  OBVIOUS
<1>1. /\ live # <<>> /\ events' = Completed(Last(live))
      /\ lhs' = CompletedMarker(Last(live).pos, Last(live).n)
      /\ live' = Front(live) /\ slot' = slot /\ lexed' = lexed /\ made' = made
  BY DEF Complete
<1>2. Front(live) \in Seq(Held)
  BY <1>1, Shape, FrontFacts
<1> QED  BY <1>1, <1>2, Closing, Shape DEF IInv, TypeInv

LEMMA FinishKeeps == IInv /\ Finish => IInv'
<1> SUFFICES ASSUME IInv, Finish PROVE IInv'
  OBVIOUS
<1>1. /\ Len(live) = 1 /\ events' = Completed(Last(live))
      /\ lhs' = None /\ live' = <<>> /\ slot' = None /\ lexed' = lexed /\ made' = made
  BY DEF Finish
<1>0. live # <<>>
  BY <1>1
<1>2. events' \in Seq(Events) /\ Sound(events')
  BY <1>0, <1>1, Closing DEF Good
<1>3. Good(events', <<>>, None, None)
  BY <1>2 DEF Good, Holds, Reserves, Completes
<1>4. TypeInv'
  BY <1>1, <1>2, Shape, NoneIsKept DEF IInv, TypeInv
<1> QED  BY <1>1, <1>3, <1>4 DEF IInv

\* A popped Start was named by nothing, since it wrapped nothing.
LEMMA PoppedStart ==
  ASSUME IInv, live # <<>>, ~Last(live).wraps, Last(live).pos = Len(events),
         events' = Front(events)
  PROVE  events' \in Seq(Events) /\ Good(events', Front(live), None, slot)
<1> DEFINE p == Last(live).pos
           lv == Front(live)
<1>1. /\ p \in 1..Len(events) /\ p = Len(events) /\ events # <<>>
      /\ Free(events, p)
      /\ \A k \in 1..Len(lv) : lv[k].pos < p
      /\ Good(events, lv, lhs, slot)
  <2>1. /\ Last(live) = live[Len(live)] /\ Len(live) \in 1..Len(live)
        /\ \A k \in 1..Len(lv) : lv[k].pos < p
        /\ Good(events, lv, lhs, slot)
    BY Shape, Popped
  <2>2. p \in 1..Len(events) /\ Free(events, p)
    BY <2>1, Shape DEF Good, Holds
  <2> QED  BY <2>1, <2>2, Shape
<1>2. slot # None => slot.pos # p
  <2>1. Last(live) = live[Len(live)] /\ Len(live) \in 1..Len(live)
    BY Shape, Popped
  <2> QED  BY <2>1, Shape DEF Good, Reserves
<1> HIDE DEF p, lv
<1>3. /\ events' \in Seq(Events) /\ Len(events') = p - 1
      /\ \A i \in 1..(p - 1) : events'[i] = events[i] /\ i \in 1..Len(events)
  <2>1. Front(events) \in Seq(Events) /\ Len(Front(events)) = Len(events) - 1
        /\ \A i \in 1..(Len(events) - 1) : Front(events)[i] = events[i]
    BY <1>1, Shape, FrontFacts
  <2> QED  BY <1>1, <2>1, Shape
<1>4. \A i \in 1..Len(events') : Wraps(events', i) =>
         i \in 1..Len(events) /\ Wraps(events, i) /\ Target(events', i) = Target(events, i)
  BY <1>3 DEF Wraps, Target
<1>5. \A i \in 1..Len(events) : Wraps(events, i) => Target(events, i) # p
  BY <1>1 DEF Free
<1>6. Sound(events')
  <2>1. \A i \in 1..Len(events') : Wraps(events', i) =>
          Target(events', i) \in 1..(p - 1) /\ IsStart(events[Target(events', i)])
    BY <1>1, <1>4, <1>5, Shape DEF Good, Sound
  <2>2. \A i \in 1..Len(events') : Wraps(events', i) =>
          Target(events', i) \in 1..Len(events') /\ IsStart(events'[Target(events', i)])
    BY <1>3, <2>1
  <2>3. \A i, j \in 1..Len(events') :
          Wraps(events', i) /\ Wraps(events', j) /\ Target(events', i) = Target(events', j) => i = j
    BY <1>4, Shape DEF Good, Sound
  <2> QED  BY <2>2, <2>3 DEF Sound
<1>7. \A q : Free(events, q) => Free(events', q)
  BY <1>4 DEF Free
<1>8. Holds(events', lv)
  <2>1. \A k \in 1..Len(lv) : lv[k].pos \in 1..(p - 1) /\ events[lv[k].pos] = Tombstone
    BY <1>1 DEF Good, Holds
  <2>2. \A k \in 1..Len(lv) : lv[k].pos \in 1..Len(events') /\ events'[lv[k].pos] = Tombstone
    BY <1>3, <2>1
  <2> QED  BY <1>1, <1>7, <2>2 DEF Good, Holds
<1>9. Reserves(events', lv, slot)
  <2> SUFFICES ASSUME slot # None PROVE Reserves(events', lv, slot)
    BY DEF Reserves
  <2>1. slot.pos \in 1..(p - 1)
    BY <1>1, <1>2 DEF Good, Reserves
  <2> QED  BY <1>1, <1>3, <1>7, <2>1 DEF Good, Reserves
<1>10. Completes(events', None)
  BY DEF Completes
<1> QED  BY <1>3, <1>6, <1>8, <1>9, <1>10 DEF Good, lv

LEMMA AbandonKeeps == IInv /\ Abandon => IInv'
<1> SUFFICES ASSUME IInv, Abandon PROVE IInv'
  OBVIOUS
<1>1. /\ Len(live) > 1 /\ ~Last(live).wraps
      /\ events' = IF Last(live).pos = Len(events) THEN Front(events) ELSE events
      /\ live' = Front(live) /\ lhs' = None /\ slot' = slot /\ lexed' = lexed /\ made' = made
  BY DEF Abandon
<1>2. live # <<>>
  BY <1>1
<1>3. Front(live) \in Seq(Held)
  BY <1>2, Shape, FrontFacts
<1>4. events' \in Seq(Events) /\ Good(events', Front(live), None, slot)
  <2>1. CASE Last(live).pos = Len(events)
    BY <1>1, <1>2, <2>1, PoppedStart
  <2>2. CASE Last(live).pos # Len(events)
    <3>1. Good(events, Front(live), lhs, slot)
      BY <1>2, Shape, Popped
    <3>2. events' = events
      BY <1>1, <2>2
    <3> QED  BY <3>1, <3>2, Shape, Forgotten
  <2> QED  BY <2>1, <2>2
<1> QED  BY <1>1, <1>3, <1>4, Shape, NoneIsKept DEF IInv, TypeInv

LEMMA PrecedeKeeps == IInv /\ Precede => IInv'
<1> SUFFICES ASSUME IInv, Precede PROVE IInv'
  OBVIOUS
<1> DEFINE p == lhs.pos
           new == Len(events) + 1
           m == Marker(new, made + 1, TRUE)
           ev == [events EXCEPT ![p] = [events[p] EXCEPT !.forward_parent = new - p]]
<1>1. /\ lhs # None /\ live' = Append(live, m) /\ lhs' = None /\ slot' = slot
      /\ lexed' = lexed /\ made' = made + 1
      /\ events' = Append([events EXCEPT ![lhs.pos].forward_parent = Len(events) + 1 - lhs.pos],
                          Tombstone)
  BY DEF Precede
<1>2. /\ p \in 1..Len(events) /\ IsStart(events[p]) /\ events[p].node = lhs.n
      /\ events[p].forward_parent = NoParent /\ lhs.n \in Nat \ {0}
  <2>1. lhs \in Kept /\ Completes(events, lhs)
    BY Shape DEF Good
  <2> QED  BY <1>1, <2>1, KeptFields DEF Completes
<1>3. new - p \in Nat \ {0} /\ p + (new - p) = new /\ new \in Nat \ {0}
  <2>1. Len(events) \in Nat /\ p \in 1..Len(events)
    BY <1>2, Shape
  <2> HIDE DEF p
  <2> QED  BY <2>1
<1>4. m \in Held /\ m.pos = new /\ m.wraps
  BY <1>3, Shape DEF Marker, Held
<1>5. events[p] \in StartEvents
  BY <1>2, Shape, EventTypes
<1>6. LET e == [events[p] EXCEPT !.forward_parent = new - p]
      IN  e \in StartEvents /\ e.forward_parent = new - p /\ e \in Events /\ IsStart(e)
  <2>1. [events[p] EXCEPT !.forward_parent = new - p] \in StartEvents
    BY <1>3, <1>5 DEF StartEvents
  <2> QED  BY <1>5, <2>1, EventTypes DEF StartEvents
<1>7. events' = Append(ev, Tombstone)
  <2>1. Len(events) + 1 - lhs.pos = new - p
    BY <1>2, Shape
  <2>2. [events EXCEPT ![lhs.pos].forward_parent = new - p] = ev
    BY FieldOfEvent
  <2> HIDE DEF ev, m, new
  <2> QED  BY <1>1, <2>1, <2>2
<1>8. /\ ev \in Seq(Events) /\ Len(ev) = Len(events)
      /\ ev[p] \in StartEvents /\ ev[p].forward_parent = new - p
      /\ \A i \in 1..Len(events) : i # p => ev[i] = events[i]
  <2> DEFINE e == [events[p] EXCEPT !.forward_parent = new - p]
  <2>1. e \in StartEvents /\ e.forward_parent = new - p /\ e \in Events
    BY <1>6
  <2>2. events \in Seq(Events) /\ Len(events) \in Nat /\ p \in 1..Len(events)
    BY <1>2, Shape
  <2>3. ev = [events EXCEPT ![p] = e]
    OBVIOUS
  <2> HIDE DEF e, p, new, ev
  <2> QED  BY <2>1, <2>2, <2>3
<1> HIDE DEF ev, m
<1>9. /\ events' \in Seq(Events) /\ Len(events') = new
      /\ events'[new] = Tombstone
      /\ IsStart(events'[p]) /\ events'[p].forward_parent = new - p
      /\ \A i \in 1..Len(events) : i # p => events'[i] = events[i]
  BY <1>2, <1>7, <1>8, Shape, EventTypes
<1> HIDE DEF new, p
<1>10. /\ \A i \in 1..Len(events') : i \in 1..Len(events) \/ i = new
       /\ \A i \in 1..Len(events) : i \in 1..Len(events') /\ i < new
       /\ new \in 1..Len(events')
  BY <1>3, <1>9, Shape DEF new
<1>11. /\ ~Wraps(events', new)
       /\ Wraps(events', p) /\ Target(events', p) = new
       /\ ~Wraps(events, p)
       /\ \A i \in 1..Len(events) : i # p =>
            /\ Wraps(events', i) <=> Wraps(events, i)
            /\ Target(events', i) = Target(events, i)
  <2>1. ~Wraps(events', new)
    BY <1>9, EventTypes DEF Wraps, NoParent
  <2>2. Wraps(events', p) /\ Target(events', p) = new /\ ~Wraps(events, p)
    BY <1>2, <1>3, <1>9 DEF Wraps, NoParent, Target
  <2>3. \A i \in 1..Len(events) : i # p =>
            /\ Wraps(events', i) <=> Wraps(events, i)
            /\ Target(events', i) = Target(events, i)
    BY <1>9 DEF Wraps, Target
  <2> QED  BY <2>1, <2>2, <2>3
<1>12. \A i \in 1..Len(events) : IsStart(events[i]) => IsStart(events'[i])
  BY <1>9
<1>13. \A i \in 1..Len(events) : Wraps(events, i) =>
         Target(events, i) \in 1..Len(events) /\ IsStart(events[Target(events, i)])
  BY Shape DEF Good, Sound
<1>14. Sound(events')
  <2>1. \A i \in 1..Len(events') : Wraps(events', i) =>
          Target(events', i) \in 1..Len(events') /\ IsStart(events'[Target(events', i)])
    BY <1>9, <1>10, <1>11, <1>12, <1>13, EventTypes
  <2>2. \A i, j \in 1..Len(events') :
          Wraps(events', i) /\ Wraps(events', j) /\ Target(events', i) = Target(events', j) => i = j
    <3> SUFFICES ASSUME NEW i \in 1..Len(events'), NEW j \in 1..Len(events'),
                        Wraps(events', i), Wraps(events', j),
                        Target(events', i) = Target(events', j)
                 PROVE  i = j
      OBVIOUS
    <3>1. i \in 1..Len(events) /\ j \in 1..Len(events)
      BY <1>10, <1>11
    <3>2. CASE i = p \/ j = p
      BY <1>10, <1>11, <1>13, <3>1, <3>2
    <3>3. CASE i # p /\ j # p
      BY <1>11, <3>1, <3>3, Shape DEF Good, Sound
    <3> QED  BY <3>2, <3>3
  <2> QED  BY <2>1, <2>2 DEF Sound
<1>15. \A q \in 1..Len(events) : Free(events, q) => Free(events', q)
  BY <1>10, <1>11 DEF Free
<1>16. \A q \in 1..Len(events) : events[q] = Tombstone => q # p /\ events'[q] = Tombstone
  BY <1>2, <1>9, EventTypes
<1>17. Good(events', live, None, slot)
  <2>1. Holds(events', live)
    BY <1>10, <1>15, <1>16, Shape DEF Good, Holds
  <2>2. Reserves(events', live, slot)
    BY <1>10, <1>15, <1>16, Shape DEF Good, Reserves
  <2> QED  BY <1>14, <2>1, <2>2 DEF Good, Completes
<1>18. live' \in Seq(Held) /\ Good(events', live', None, slot)
  <2>1. /\ \A k \in 1..Len(live) : live[k].pos < m.pos
        /\ slot # None => slot.pos < m.pos
    BY <1>4, Shape DEF new
  <2> QED  BY <1>1, <1>4, <1>9, <1>10, <1>17, <2>1, Shape, Pushed
<1>19. TypeInv'
  <2>1. made' \in Nat /\ lexed' \in Seq(TokenKind)
    BY <1>1 DEF IInv, TypeInv
  <2>2. lhs' \in Kept /\ slot' \in Kept
    BY <1>1, Shape, NoneIsKept
  <2> QED  BY <1>9, <1>18, <2>1, <2>2 DEF TypeInv
<1>20. Good(events', live', lhs', slot')
  BY <1>1, <1>18
<1> QED  BY <1>19, <1>20 DEF IInv

LEMMA FillKeeps == IInv /\ FillError => IInv'
<1> SUFFICES ASSUME IInv, FillError PROVE IInv'
  OBVIOUS
<1> DEFINE p == slot.pos
           e == ErrorEvent(slot.n, FALSE)
<1>1. /\ slot # None /\ events' = [events EXCEPT ![p] = e]
      /\ slot' = None /\ lhs' = lhs /\ live' = live /\ lexed' = lexed /\ made' = made
  BY DEF FillError
<1>2. /\ p \in 1..Len(events) /\ events[p] = Tombstone /\ Free(events, p)
      /\ \A k \in 1..Len(live) : live[k].pos # p
  BY <1>1, Shape DEF Good, Reserves
<1>3. e \in Events /\ ~IsStart(e)
  BY <1>1, Shape, KeptFields, EventTypes
<1> HIDE DEF p, e
<1>4. /\ events' \in Seq(Events) /\ Len(events') = Len(events) /\ events'[p] = e
      /\ \A i \in 1..Len(events) : i # p => events'[i] = events[i]
  BY <1>1, <1>2, <1>3, Shape
<1>5. /\ Sound(events') /\ \A q : Free(events, q) => Free(events', q)
  <2>1. \A i \in 1..Len(events') : Wraps(events', i) =>
            /\ i <= Len(events) /\ Wraps(events, i)
            /\ events'[i].forward_parent = events[i].forward_parent
    BY <1>3, <1>4, Shape DEF Wraps
  <2>2. \A i \in 1..Len(events) : IsStart(events[i]) => IsStart(events'[i]) \/ Free(events, i)
    BY <1>2, <1>4
  <2>3. Len(events) <= Len(events') /\ Sound(events)
    BY <1>4, Shape DEF Good
  <2> QED  BY <1>4, <2>1, <2>2, <2>3, Shape, NothingWrapped
<1>6. Holds(events', live)
  BY <1>2, <1>4, <1>5, Shape DEF Good, Holds
<1>7. Completes(events', lhs)
  <2> SUFFICES ASSUME lhs # None PROVE Completes(events', lhs)
    BY DEF Completes
  <2>1. lhs.pos \in 1..Len(events) /\ lhs.pos # p
    BY <1>2, Shape, KeptFields, EventTypes DEF Good, Completes
  <2> QED  BY <1>4, <2>1, Shape DEF Good, Completes
<1>8. Good(events', live, lhs, None)
  BY <1>5, <1>6, <1>7 DEF Good, Reserves
<1> QED  BY <1>1, <1>4, <1>8, Shape, NoneIsKept DEF IInv, TypeInv
-----------------------------------------------------------------------------
(* The splice.                                                             *)

\* Where an event goes when `inserted` are put in after the literal's token.
Shifted(start, inserted, i) == IF i <= start + 1 THEN i ELSE i + inserted

\* `ev` is the events with others put in that open nothing: each went where
\* it should, and what wrapped still wraps what it did.
MovedApart(ev, start, inserted) ==
  /\ Len(ev) = Len(events) + inserted
  /\ \A i \in 1..Len(events) :
       LET to == Shifted(start, inserted, i)
       IN  /\ to \in 1..Len(ev)
           /\ IsStart(ev[to]) <=> IsStart(events[i])
           /\ Wraps(ev, to) <=> Wraps(events, i)
           /\ Wraps(events, i) =>
                Target(ev, to) = Shifted(start, inserted, Target(events, i))
  /\ \A k \in 1..Len(ev) : IsStart(ev[k]) =>
       \E i \in 1..Len(events) : k = Shifted(start, inserted, i)
  /\ \A i \in 1..Len(events) : i < start /\ events[i] = Tombstone => ev[i] = Tombstone

\* An event of the head with its forward parent patched names where its
\* wrapper went.
LEMMA PatchedNames ==
  ASSUME IInv, NEW start \in Nat, NEW inserted \in Nat \ {0}, NEW i \in 1..Len(events),
         i <= start + 1
  PROVE  LET h == Patched(i, start, inserted)
         IN  /\ h \in Events /\ (IsStart(h) <=> IsStart(events[i]))
             /\ IsStart(events[i]) =>
                  /\ h.kind = events[i].kind /\ h.node = events[i].node
                  /\ h.forward_parent # NoParent <=> events[i].forward_parent # NoParent
                  /\ events[i].forward_parent # NoParent =>
                       i + h.forward_parent
                         = Shifted(start, inserted, i + events[i].forward_parent)
             /\ (~IsStart(events[i]) \/ events[i].forward_parent = NoParent) => h = events[i]
<1> DEFINE fp == events[i].forward_parent
           moved == [events[i] EXCEPT !.forward_parent = fp + inserted]
           h == Patched(i, start, inserted)
<1>0. events[i] \in Events
  BY Shape
<1>1. CASE ~IsStart(events[i])
  BY <1>0, <1>1 DEF Patched
<1>2. CASE IsStart(events[i])
  <2>1. events[i] \in StartEvents /\ fp \in Nat
    BY <1>0, <1>2, EventTypes DEF StartEvents
  <2>2. /\ moved \in StartEvents /\ moved.forward_parent = fp + inserted
        /\ moved.kind = events[i].kind /\ moved.node = events[i].node
    BY <2>1 DEF StartEvents
  <2>3. moved \in Events /\ IsStart(moved)
    BY <2>2, EventTypes
  <2> HIDE DEF moved
  <2>4. CASE fp # NoParent /\ i + fp > start + 1
    <3>1. h = moved
      BY <1>2, <2>4 DEF Patched, moved
    <3>2. fp + inserted # NoParent /\ i + (fp + inserted) = Shifted(start, inserted, i + fp)
      BY <2>1, <2>4 DEF NoParent, Shifted
    <3> QED  BY <1>2, <2>2, <2>3, <2>4, <3>1, <3>2
  <2>5. CASE ~(fp # NoParent /\ i + fp > start + 1)
    <3>1. h = events[i]
      BY <1>2, <2>5 DEF Patched
    <3>2. fp # NoParent => i + fp = Shifted(start, inserted, i + fp)
      BY <2>1, <2>5 DEF Shifted
    <3> QED  BY <1>0, <1>2, <3>1, <3>2
  <2> QED  BY <2>4, <2>5
<1> QED  BY <1>1, <1>2

LEMMA ReopenedEvent ==
  ASSUME NEW e \in StartEvents
  PROVE  /\ Reopened(e) \in Events /\ IsStart(Reopened(e))
         /\ Reopened(e).forward_parent = e.forward_parent
<1>1. Reopened(e) \in StartEvents /\ Reopened(e).forward_parent = e.forward_parent
  BY DEF Reopened, StartEvents
<1> QED  BY <1>1, EventTypes

LEMMA SplicedEvents ==
  ASSUME IInv, NEW start \in 1..Len(events), NEW tokens \in Nat, LiteralStart(start)
  PROVE  /\ Spliced(start, tokens) \in Seq(Events)
         /\ MovedApart(Spliced(start, tokens), start, tokens + 1)
<1> DEFINE q == tokens + 1
           n == Len(events)
           ev == Spliced(start, tokens)
           new(i) == Shifted(start, q, i)
           head(i) == IF i = start THEN Reopened(Patched(i, start, q)) ELSE Patched(i, start, q)
<1>1. /\ start \in Nat \ {0} /\ start < n /\ start + 1 \in 1..n /\ n \in Nat
      /\ q \in Nat \ {0} /\ IsStart(events[start])
  BY Shape DEF LiteralStart
<1> HIDE DEF q
<1>2. ev = [i \in 1..(n + q) |->
              CASE i <= start + 1 -> head(i)
                [] i = start + 2 -> CommasEvent(made + 1, tokens)
                [] i \in (start + 3)..(start + 1 + q) -> TokenEvent
                [] OTHER -> events[i - q]]
  BY DEF Spliced, q
<1> HIDE DEF ev
<1>3. \A i \in 1..(n + q) :
        /\ i <= start + 1 => ev[i] = head(i) /\ i \in 1..n
        /\ i = start + 2 => ev[i] = CommasEvent(made + 1, tokens)
        /\ i > start + 2 /\ i <= start + 1 + q => ev[i] = TokenEvent
        /\ i > start + 1 + q => ev[i] = events[i - q] /\ i - q \in 1..n /\ i - q > start + 1
  <2> SUFFICES ASSUME NEW i \in 1..(n + q)
               PROVE  /\ i <= start + 1 => ev[i] = head(i) /\ i \in 1..n
                      /\ i = start + 2 => ev[i] = CommasEvent(made + 1, tokens)
                      /\ i > start + 2 /\ i <= start + 1 + q => ev[i] = TokenEvent
                      /\ i > start + 1 + q =>
                           ev[i] = events[i - q] /\ i - q \in 1..n /\ i - q > start + 1
    OBVIOUS
  <2> HIDE DEF head
  <2>1. CASE i <= start + 1
    BY <1>1, <1>2, <2>1
  <2>2. CASE i = start + 2
    BY <1>1, <1>2, <2>2
  <2>3. CASE i > start + 2 /\ i <= start + 1 + q
    <3>1. ~(i <= start + 1) /\ i # start + 2 /\ i \in (start + 3)..(start + 1 + q)
      BY <1>1, <2>3
    <3>2. ev[i] = TokenEvent
      BY <1>2, <3>1
    <3> QED  BY <1>1, <2>3, <3>2
  <2>4. CASE i > start + 1 + q
    <3>1. i - q \in 1..n /\ i - q > start + 1 /\ i > start + 2
      BY <1>1, <2>4
    <3>2. ~(i <= start + 1) /\ i # start + 2 /\ i \notin (start + 3)..(start + 1 + q)
      BY <1>1, <2>4
    <3>3. ev[i] = events[i - q]
      BY <1>2, <3>2
    <3> QED  BY <1>1, <2>4, <3>1, <3>3
  <2> QED  BY <1>1, <2>1, <2>2, <2>3, <2>4
<1>4. \A i \in 1..n : i <= start + 1 =>
        /\ head(i) \in Events /\ (IsStart(head(i)) <=> IsStart(events[i]))
        /\ IsStart(events[i]) =>
             /\ head(i).forward_parent # NoParent <=> events[i].forward_parent # NoParent
             /\ events[i].forward_parent # NoParent =>
                  i + head(i).forward_parent = new(i + events[i].forward_parent)
        /\ i # start /\ (IsStart(events[i]) => events[i].forward_parent = NoParent) =>
             head(i) = events[i]
  <2> SUFFICES ASSUME NEW i \in 1..n, i <= start + 1
               PROVE  /\ head(i) \in Events /\ (IsStart(head(i)) <=> IsStart(events[i]))
                      /\ IsStart(events[i]) =>
                           /\ head(i).forward_parent # NoParent
                                 <=> events[i].forward_parent # NoParent
                           /\ events[i].forward_parent # NoParent =>
                                i + head(i).forward_parent = new(i + events[i].forward_parent)
                      /\ i # start /\ (IsStart(events[i]) => events[i].forward_parent = NoParent)
                           => head(i) = events[i]
    OBVIOUS
  <2> DEFINE h == Patched(i, start, q)
  <2>1. /\ h \in Events /\ (IsStart(h) <=> IsStart(events[i]))
        /\ IsStart(events[i]) =>
             /\ h.forward_parent # NoParent <=> events[i].forward_parent # NoParent
             /\ events[i].forward_parent # NoParent =>
                  i + h.forward_parent = new(i + events[i].forward_parent)
        /\ (~IsStart(events[i]) \/ events[i].forward_parent = NoParent) => h = events[i]
    BY <1>1, PatchedNames
  <2>2. CASE i # start
    BY <2>1, <2>2
  <2>3. CASE i = start
    <3>1. h \in StartEvents
      BY <1>1, <2>1, <2>3, EventTypes
    <3>2. /\ Reopened(h) \in Events /\ IsStart(Reopened(h))
          /\ Reopened(h).forward_parent = h.forward_parent
      BY <3>1, ReopenedEvent
    <3>3. head(i) = Reopened(h)
      BY <2>3
    <3> HIDE DEF head, h
    <3> QED  BY <1>1, <2>1, <2>3, <3>2, <3>3
  <2> QED  BY <2>2, <2>3
<1> HIDE DEF head
<1>5. CommasEvent(made + 1, tokens) \in Events /\ ~IsStart(CommasEvent(made + 1, tokens))
  <2>1. made + 1 \in Nat
    BY Shape
  <2> QED  BY <2>1, EventTypes
<1>6. \A i \in 1..(n + q) : ev[i] \in Events
  <2> SUFFICES ASSUME NEW i \in 1..(n + q) PROVE ev[i] \in Events
    OBVIOUS
  <2>1. \A j \in 1..n : events[j] \in Events
    BY Shape
  <2>2. CASE i <= start + 1
    BY <1>3, <1>4, <2>2
  <2>3. CASE i = start + 2
    BY <1>3, <1>5, <2>3
  <2>4. CASE i > start + 2 /\ i <= start + 1 + q
    BY <1>3, <2>4, EventTypes
  <2>5. CASE i > start + 1 + q
    BY <1>3, <2>1, <2>5
  <2> QED  BY <1>1, <2>2, <2>3, <2>4, <2>5
<1>7. ev \in Seq(Events) /\ Len(ev) = n + q
  <2>1. n + q \in Nat
    BY <1>1
  <2>2. ev \in [1..(n + q) -> Events]
    BY <1>2, <1>6, Zenon
  <2> HIDE DEF n
  <2> QED  BY <2>1, <2>2
<1>8. \A i \in 1..n : /\ new(i) \in 1..(n + q)
                      /\ i <= start + 1 => new(i) = i /\ ev[new(i)] = head(i)
                      /\ i > start + 1 => new(i) = i + q /\ ev[new(i)] = events[i]
  <2> SUFFICES ASSUME NEW i \in 1..n
               PROVE  /\ new(i) \in 1..(n + q)
                      /\ i <= start + 1 => new(i) = i /\ ev[new(i)] = head(i)
                      /\ i > start + 1 => new(i) = i + q /\ ev[new(i)] = events[i]
    OBVIOUS
  <2>1. CASE i <= start + 1
    BY <1>1, <1>3, <2>1 DEF Shifted
  <2>2. CASE i > start + 1
    <3>1. new(i) = i + q /\ i + q \in 1..(n + q) /\ i + q > start + 1 + q /\ (i + q) - q = i
      BY <1>1, <2>2 DEF Shifted
    <3> HIDE DEF new
    <3> QED  BY <1>1, <1>3, <2>2, <3>1
  <2> QED  BY <1>1, <2>1, <2>2
<1>9. \A i \in 1..n :
        /\ IsStart(ev[new(i)]) <=> IsStart(events[i])
        /\ Wraps(ev, new(i)) <=> Wraps(events, i)
        /\ Wraps(events, i) => Target(ev, new(i)) = new(Target(events, i))
  <2> SUFFICES ASSUME NEW i \in 1..n
               PROVE  /\ IsStart(ev[new(i)]) <=> IsStart(events[i])
                      /\ Wraps(ev, new(i)) <=> Wraps(events, i)
                      /\ Wraps(events, i) => Target(ev, new(i)) = new(Target(events, i))
    OBVIOUS
  <2>1. CASE i <= start + 1
    <3>1. new(i) = i /\ ev[i] = head(i)
      BY <1>8, <2>1
    <3> HIDE DEF new
    <3> QED  BY <1>4, <2>1, <3>1 DEF Wraps, Target
  <2>2. CASE i > start + 1
    <3>1. new(i) = i + q /\ ev[i + q] = events[i]
      BY <1>8, <2>2
    <3>2. Wraps(events, i) =>
            /\ events[i].forward_parent \in Nat
            /\ new(i + events[i].forward_parent) = (i + events[i].forward_parent) + q
            /\ (i + q) + events[i].forward_parent = (i + events[i].forward_parent) + q
      <4>1. Wraps(events, i) => events[i].forward_parent \in Nat
        <5>1. events[i] \in Events
          BY Shape
        <5> QED  BY <5>1, EventTypes DEF Wraps, StartEvents
      <4> QED  BY <1>1, <2>2, <4>1 DEF Shifted
    <3> HIDE DEF new
    <3> QED  BY <3>1, <3>2 DEF Wraps, Target
  <2> QED  BY <1>1, <2>1, <2>2
<1>10. \A k \in 1..(n + q) : IsStart(ev[k]) => \E i \in 1..n : k = new(i)
  <2> SUFFICES ASSUME NEW k \in 1..(n + q), IsStart(ev[k])
               PROVE  \E i \in 1..n : k = new(i)
    OBVIOUS
  <2>1. CASE k <= start + 1
    BY <1>3, <1>8, <2>1
  <2>2. CASE k > start + 1 + q
    <3>1. k - q \in 1..n /\ new(k - q) = k
      BY <1>1, <1>3, <2>2 DEF Shifted
    <3> HIDE DEF new
    <3> QED  BY <3>1
  <2>3. CASE k > start + 1 /\ k <= start + 1 + q
    <3>1. k = start + 2 \/ (k > start + 2 /\ k <= start + 1 + q)
      BY <1>1, <2>3
    <3> QED  BY <1>3, <1>5, <3>1, EventTypes
  <2> QED  BY <1>1, <2>1, <2>2, <2>3
<1>11. \A i \in 1..n : i < start /\ events[i] = Tombstone => ev[i] = Tombstone
  <2> SUFFICES ASSUME NEW i \in 1..n, i < start, events[i] = Tombstone PROVE ev[i] = Tombstone
    OBVIOUS
  <2>1. i <= start + 1 /\ i # start
    BY <1>1
  <2>2. events[i].forward_parent = NoParent
    BY EventTypes DEF NoParent
  <2>3. head(i) = events[i]
    BY <1>4, <2>1, <2>2
  <2>4. new(i) = i /\ ev[new(i)] = head(i)
    BY <1>8, <2>1
  <2> QED  BY <2>3, <2>4
<1>12. MovedApart(ev, start, q)
  BY <1>7, <1>8, <1>9, <1>10, <1>11 DEF MovedApart
<1> QED  BY <1>7, <1>12 DEF ev, q

\* What is before the literal stays true across the splice.
LEMMA MovedGood ==
  ASSUME IInv, NEW start \in 1..Len(events), NEW inserted \in Nat,
         NEW ev \in Seq(Events), MovedApart(ev, start, inserted),
         live # <<>>, Last(live).pos < start,
         NEW sl \in Kept, sl # None => sl = slot /\ sl.pos < start
  PROVE  Good(ev, live, None, sl)
<1> DEFINE n == Len(events)
           new(i) == Shifted(start, inserted, i)
<1>1. /\ Len(ev) = n + inserted
      /\ \A i \in 1..n : /\ new(i) \in 1..Len(ev)
                         /\ IsStart(ev[new(i)]) <=> IsStart(events[i])
                         /\ Wraps(ev, new(i)) <=> Wraps(events, i)
                         /\ Wraps(events, i) => Target(ev, new(i)) = new(Target(events, i))
      /\ \A k \in 1..Len(ev) : IsStart(ev[k]) => \E i \in 1..n : k = new(i)
      /\ \A i \in 1..n : i < start /\ events[i] = Tombstone => ev[i] = Tombstone
  BY DEF MovedApart
<1>2. /\ \A i, j \in 1..n : new(i) = new(j) => i = j
      /\ \A i \in 1..n, p \in 1..n : p < start /\ new(i) = p => i = p
      /\ \A p \in 1..n : p \in 1..Len(ev)
  <2>1. n \in Nat /\ start \in Nat /\ inserted \in Nat
    BY Shape
  <2>2. \A i, j \in 1..n : new(i) = new(j) => i = j
    BY <2>1 DEF Shifted
  <2>3. \A i \in 1..n, p \in 1..n : p < start /\ new(i) = p => i = p
    BY <2>1 DEF Shifted
  <2>4. \A p \in 1..n : p \in 1..Len(ev)
    BY <1>1, <2>1
  <2> QED  BY <2>2, <2>3, <2>4
<1> HIDE DEF new
<1>3. \A k \in 1..Len(ev) : Wraps(ev, k) =>
         \E i \in 1..n : k = new(i) /\ Wraps(events, i) /\ Target(ev, k) = new(Target(events, i))
  <2> SUFFICES ASSUME NEW k \in 1..Len(ev), Wraps(ev, k)
               PROVE  \E i \in 1..n : /\ k = new(i) /\ Wraps(events, i)
                                      /\ Target(ev, k) = new(Target(events, i))
    OBVIOUS
  <2>1. PICK i \in 1..n : k = new(i)
    BY <1>1 DEF Wraps
  <2> QED  BY <1>1, <2>1
<1>4. /\ \A i \in 1..n : Wraps(events, i) =>
            Target(events, i) \in 1..n /\ IsStart(events[Target(events, i)])
      /\ \A i, j \in 1..n : Wraps(events, i) /\ Wraps(events, j)
                              /\ Target(events, i) = Target(events, j) => i = j
  BY Shape DEF Good, Sound
<1>5. Sound(ev)
  <2>1. \A k \in 1..Len(ev) : Wraps(ev, k) =>
          Target(ev, k) \in 1..Len(ev) /\ IsStart(ev[Target(ev, k)])
    <3> SUFFICES ASSUME NEW k \in 1..Len(ev), Wraps(ev, k)
                 PROVE  Target(ev, k) \in 1..Len(ev) /\ IsStart(ev[Target(ev, k)])
      OBVIOUS
    <3>1. PICK i \in 1..n : Wraps(events, i) /\ Target(ev, k) = new(Target(events, i))
      BY <1>3
    <3> QED  BY <1>1, <1>4, <3>1
  <2>2. \A k, l \in 1..Len(ev) :
          Wraps(ev, k) /\ Wraps(ev, l) /\ Target(ev, k) = Target(ev, l) => k = l
    BY <1>2, <1>3, <1>4
  <2> QED  BY <2>1, <2>2 DEF Sound
<1>6. \A p \in 1..n : p < start /\ Free(events, p) => Free(ev, p)
  BY <1>2, <1>3, <1>4 DEF Free
<1>7. \A k \in 1..Len(live) : live[k].pos \in 1..n /\ live[k].pos < start
  <2>1. /\ Last(live) = live[Len(live)] /\ Len(live) \in 1..Len(live)
    BY Shape, Popped
  <2>2. \A k \in 1..Len(live) : live[k].pos \in 1..n /\ live[k].pos <= live[Len(live)].pos
    <3> SUFFICES ASSUME NEW k \in 1..Len(live)
                 PROVE  live[k].pos \in 1..n /\ live[k].pos <= live[Len(live)].pos
      OBVIOUS
    <3>1. k = Len(live) \/ k < Len(live)
      BY Shape
    <3> QED  BY <2>1, <3>1, Shape DEF Good, Holds
  <2>3. live[Len(live)].pos \in 1..n /\ start \in Nat
    BY <2>1, <2>2
  <2> QED  BY <2>1, <2>2, <2>3, Shape
<1>8. Holds(ev, live)
  BY <1>1, <1>2, <1>6, <1>7, Shape DEF Good, Holds
<1>9. Reserves(ev, live, sl)
  BY <1>1, <1>2, <1>6, Shape DEF Good, Reserves
<1> QED  BY <1>5, <1>8, <1>9 DEF Good, Completes

LEMMA EatKeeps == IInv /\ EatDigitGroupCommas => IInv'
<1> SUFFICES ASSUME IInv, EatDigitGroupCommas PROVE IInv'
  OBVIOUS
<1>1. /\ live # <<>> /\ lhs' = None /\ live' = live /\ lexed' = lexed /\ made' = made + 1
  BY DEF EatDigitGroupCommas, Parsing
<1>2. PICK tokens \in 1..Len(lexed), start \in DOMAIN events :
        /\ LiteralStart(start) /\ Last(live).pos < start
        /\ slot' = IF slot.pos < start THEN slot ELSE None
        /\ events' = Spliced(start, tokens)
  BY DEF EatDigitGroupCommas
<1>3. start \in 1..Len(events) /\ tokens \in Nat
  BY <1>2, Shape
<1>4. slot' \in Kept /\ (slot' # None => slot' = slot /\ slot'.pos < start)
  BY <1>2, Shape, NoneIsKept
<1>5. events' \in Seq(Events)
  BY <1>2, <1>3, SplicedEvents
<1>6. Good(events', live, None, slot')
  <2>1. MovedApart(events', start, tokens + 1) /\ tokens + 1 \in Nat
    BY <1>2, <1>3, SplicedEvents
  <2> QED  BY <1>1, <1>2, <1>3, <1>4, <1>5, <2>1, MovedGood
<1>7. TypeInv'
  BY <1>1, <1>4, <1>5, Shape, NoneIsKept DEF IInv, TypeInv
<1> QED  BY <1>1, <1>6, <1>7 DEF IInv
-----------------------------------------------------------------------------
LEMMA InitEstablishes == Init => IInv
<1> SUFFICES ASSUME Init PROVE IInv
  OBVIOUS
<1>1. events = <<Tombstone>> /\ live = <<Marker(1, 1, FALSE)>> /\ lhs = None /\ slot = None
      /\ made = 1
  BY DEF Init
<1>2. TypeInv
  <2>1. lexed \in Seq(TokenKind)
    BY TextsAssumption DEF Init
  <2>2. events \in Seq(Events)
    BY <1>1, EventTypes
  <2>3. live \in Seq(Held)
    BY <1>1 DEF Marker, Held
  <2> QED  BY <1>1, <2>1, <2>2, <2>3, NoneIsKept DEF TypeInv
<1>3. /\ Len(events) = 1 /\ events[1] = Tombstone
      /\ Len(live) = 1 /\ live[1].pos = 1
  BY <1>1 DEF Marker
<1>4. \A i \in 1..Len(events) : ~Wraps(events, i)
  BY <1>3, EventTypes DEF Wraps, NoParent
<1>5. Sound(events) /\ Free(events, 1)
  BY <1>4 DEF Sound, Free
<1>6. \A k \in 1..Len(live) : k = 1 /\ live[k].pos = 1
  BY <1>3
<1>7. Holds(events, live)
  BY <1>3, <1>5, <1>6 DEF Holds
<1>8. Reserves(events, live, slot) /\ Completes(events, lhs)
  BY <1>1 DEF Reserves, Completes
<1> QED  BY <1>2, <1>5, <1>7, <1>8 DEF IInv, Good

LEMMA NextKeeps == IInv /\ [Next]_vars => IInv'
<1> SUFFICES ASSUME IInv, [Next]_vars PROVE IInv'
  OBVIOUS
<1>1. CASE UNCHANGED vars
  BY <1>1 DEF vars, IInv, TypeInv
<1>2. CASE Next
  BY <1>2, StartKeeps, BumpKeeps, LiteralKeeps, CompleteKeeps, FinishKeeps, AbandonKeeps,
     PrecedeKeeps, ErrorKeeps, ReserveKeeps, FillKeeps, EatKeeps DEF Next
<1> QED  BY <1>1, <1>2

\* Markers, completed nodes, reserved errors and forward parents always name
\* the events their holders put there (parser.rs, err_digit_group_commas:
\* "The splice shifts later events and patches only `forward_parent`").
THEOREM PositionsStayTrue == Spec => []PositionsHold
<1>1. IInv => PositionsHold
  <2> SUFFICES ASSUME IInv PROVE PositionsHold
    OBVIOUS
  <2>1. DOMAIN events = 1..Len(events) /\ DOMAIN live = 1..Len(live)
    BY Shape
  <2>2. \A i : i \in Wrapped <=> i \in 1..Len(events) /\ Wraps(events, i)
    BY <2>1 DEF Wrapped, Wraps
  <2>3. \A i : Wrapper(i) = Target(events, i)
    BY DEF Wrapper, Target
  <2>4. Sound(events) /\ Holds(events, live) /\ Reserves(events, live, slot)
        /\ Completes(events, lhs)
    BY Shape DEF Good
  <2>5. /\ \A k \in DOMAIN live : events[live[k].pos] = Tombstone
        /\ \A k, l \in DOMAIN live : k < l => live[k].pos < live[l].pos
    BY <2>1, <2>4 DEF Holds
  <2>6. slot # None => /\ events[slot.pos] = Tombstone
                       /\ \A k \in DOMAIN live : live[k].pos # slot.pos
                       /\ \A i \in Wrapped : Wrapper(i) # slot.pos
    BY <2>1, <2>2, <2>3, <2>4 DEF Reserves, Free
  <2>7. lhs # None => /\ IsStart(events[lhs.pos]) /\ events[lhs.pos].node = lhs.n
                      /\ events[lhs.pos].forward_parent = NoParent
    BY <2>4 DEF Completes
  <2>8. /\ \A i \in Wrapped : Wrapper(i) \in DOMAIN events /\ IsStart(events[Wrapper(i)])
        /\ \A i, j \in Wrapped : Wrapper(i) = Wrapper(j) => i = j
    BY <2>1, <2>2, <2>3, <2>4 DEF Sound
  <2> QED  BY <2>5, <2>6, <2>7, <2>8 DEF PositionsHold
<1>2. Spec => []IInv
  BY InitEstablishes, NextKeeps, PTL DEF Spec
<1> QED  BY <1>1, <1>2, PTL
=============================================================================
