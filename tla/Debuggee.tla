------------------------------ MODULE Debuggee ------------------------------
(***************************************************************************)
(* The program a debug session drives, crates/must-lsp/src/dap/            *)
(* debuggee.rs: a resume walks the eval machine step by step, records      *)
(* where each live frame has been, counts breakpoint arrivals against that *)
(* record and decides where to stop.                                       *)
(*                                                                         *)
(* The program is whatever machine (crates/eval/src/machine.rs) steps make *)
(* of it: a frame may move anywhere, so branches, loops and recursion are  *)
(* all there.  Values, and what a condition or a log message evaluates to, *)
(* are left out: a condition holds or does not (a broken one stops too).   *)
(***************************************************************************)
EXTENDS Naturals, Sequences, FiniteSets, FiniteSetsExt

CONSTANTS
  Point,           \* (body, block, statement): where a frame can be
  Where,           \* point -> <<line, column>> in the user's file
  EntryPoint,      \* the points of the injected entry, which have no position
  Specs,           \* the breakpoints a client may ask for
  MAX_FRAMES,      \* the machine's frame limit
  MaxCalls,        \* bound: frames ever pushed
  MaxBreakpoints   \* bound: breakpoints installed at once

ASSUME PointsAssumption ==
  /\ EntryPoint # {} /\ EntryPoint \subseteq Point
  /\ \A p \in Point \ EntryPoint : Where[p] \in (Nat \ {0}) \X (Nat \ {0})
ASSUME BoundsAssumption ==
  MAX_FRAMES \in Nat \ {0} /\ MaxCalls \in Nat \ {0} /\ MaxBreakpoints \in Nat

\* BreakpointSpec: hit_condition as [op, n]; column 0 is a line breakpoint; `guarded` has a
\* condition and `logs` has a log message.
Ops == {"none", "==", "!=", ">", ">=", "<", "<=", "%"}
Breakpoint == [line : Nat, column : Nat, hit : [op : Ops, n : Nat],
          guarded : BOOLEAN, logs : BOOLEAN]

\* What HitCondition::parse refuses: it could never be met.
NeverMet(h) == h.op \in {"==", "%"} /\ h.n = 0
ASSUME SpecsAssumption == \A s \in Specs : s \in Breakpoint /\ ~NeverMet(s.hit)

VARIABLES
  frames,       \* Machine::frames: [serial, at], the top frame last
  next_serial,  \* Machine::next_frame_serial
  breakpoints,  \* [spec, hits], in the client's order
  sat_at,       \* per stack depth: [serial, positions]
  phase,        \* "paused", or in resume's loop: "look" then "step"; "over"
  resumed,      \* the resume in progress: [mode, fine, start]
  outcome,      \* what the last resume came to: [kind, reason, hit]
  seen,         \* ghost: <<serial, position>> of every frame ever looked at
  arrivals      \* ghost: how often each installed breakpoint was arrived at

vars == <<frames, next_serial, breakpoints, sat_at, phase, resumed, outcome,
          seen, arrivals>>

Modes == {"Entry", "Continue", "StepOver", "StepIn", "StepOut"}
Depth == Len(frames)
Top == frames[Depth]
Positioned(p) == p \notin EntryPoint
\* Padding for frames that never recorded a position.
NoHistory == [serial |-> 0, positions |-> {}]
Lines(positions) == {p[1] : p \in positions}
-----------------------------------------------------------------------------
Init ==
  /\ \E p \in EntryPoint : frames = <<[serial |-> 1, at |-> p]>>
  /\ next_serial = 1
  /\ breakpoints = <<>>
  /\ sat_at = <<>>
  /\ phase = "paused"
  /\ resumed = [mode |-> "Entry", fine |-> FALSE, depth |-> 0, at |-> Top.at,
                serial |-> 0]
  /\ outcome = [kind |-> "none", reason |-> "", hit |-> 0]
  /\ seen = {}
  /\ arrivals = <<>>

\* The session hands over the client's breakpoints, with no arrivals yet.
SetBreakpoints ==
  /\ phase = "paused"
  /\ \E n \in 0 .. MaxBreakpoints : \E specs \in [1 .. n -> Specs] :
       /\ breakpoints' = [i \in 1 .. n |-> [spec |-> specs[i], hits |-> 0]]
       /\ arrivals' = [i \in 1 .. n |-> 0]
  /\ UNCHANGED <<frames, next_serial, sat_at, phase, resumed, outcome, seen>>

\* resume, up to its loop; only stepping over and in read the granularity.
Resume(mode, fine) ==
  /\ phase = "paused"
  /\ phase' = "look"
  /\ resumed' = [mode |-> mode, fine |-> fine, depth |-> Depth, at |-> Top.at,
                 serial |-> Top.serial]
  /\ UNCHANGED <<frames, next_serial, breakpoints, sat_at, outcome, seen,
                 arrivals>>

\* What sat_at holds at stack index `i`.
History(i) == IF i <= Len(sat_at) THEN sat_at[i] ELSE NoHistory

\* Mutant: an index a later call reuses keeps the old frame's history.
KnownAtIndex == History(Depth).positions

\* Where the top frame has been: a history left by another frame instance
\* at this index is not its own.
Known ==
  IF History(Depth).serial = Top.serial THEN History(Depth).positions ELSE {}

\* record: sat_at is cut or padded to the live frames, and the top one's
\* history gains the position.
Recorded(position) ==
  [i \in 1 .. Depth |->
     IF i < Depth THEN History(i)
     ELSE [serial |-> Top.serial, positions |-> Known \cup {position}]]

\* Mutant: a column breakpoint arrives whenever its position comes up.
ArrivesAgain(s, position, been) ==
  /\ s.line = position[1]
  /\ IF s.column # 0 THEN s.column = position[2]
                     ELSE position[1] \notin Lines(been)

\* arrives: it matches, and the frame, having `been` where it has, is new to
\* the position -- to the line, for a line breakpoint.
Arrives(s, position, been) ==
  /\ s.line = position[1]
  /\ IF s.column # 0 THEN s.column = position[2] /\ position \notin been
                     ELSE position[1] \notin Lines(been)

\* What an arrival is, for the ghosts: the frame instance was never at the
\* breakpoint's line (or line and column) before.
FirstTime(s, position, been) ==
  LET Matches(p) == p[1] = s.line /\ (s.column = 0 \/ p[2] = s.column)
  IN  Matches(position) /\ \A p \in been : ~Matches(p)

\* HitCondition::met.
Met(h, hits) ==
  \/ h.op = "none"
  \/ h.op = "==" /\ hits = h.n
  \/ h.op = "!=" /\ hits # h.n
  \/ h.op = ">" /\ hits > h.n
  \/ h.op = ">=" /\ hits >= h.n
  \/ h.op = "<" /\ hits < h.n
  \/ h.op = "<=" /\ hits <= h.n
  \/ h.op = "%" /\ h.n # 0 /\ hits % h.n = 0

\* Whether breakpoint `i` ends the resume when it is arrived at, its
\* condition (if any) holding or not as `holds` says.
Halts(i, holds) ==
  LET b == breakpoints[i]
  IN  Met(b.spec.hit, b.hits + 1) /\ (b.spec.guarded => holds) /\ ~b.spec.logs

\* Mutant: the frames above the one a step began in are not told apart.
StopRuleAnyDepth(moved) ==
  \/ resumed.mode = "Entry"
  \/ resumed.mode = "StepOver" /\ moved
  \/ resumed.mode = "StepIn" /\ (moved \/ Depth # resumed.depth)
  \/ resumed.mode = "StepOut" /\ Depth < resumed.depth

\* The mode's own reason to stop.
StopRule(moved) ==
  \/ resumed.mode = "Entry"
  \/ /\ resumed.mode = "StepOver"
     /\ Depth < resumed.depth \/ (Depth = resumed.depth /\ moved)
  \/ resumed.mode = "StepIn" /\ (moved \/ Depth # resumed.depth)
  \/ resumed.mode = "StepOut" /\ Depth < resumed.depth

\* "Somewhere new", at statement or at line granularity.
Moved ==
  LET LineOf(p) == IF Positioned(p) THEN Where[p][1] ELSE 0
  IN  \/ Depth # resumed.depth
      \/ IF resumed.fine THEN Top.at # resumed.at
                         ELSE LineOf(Top.at) # LineOf(resumed.at)

Stopped(reason, hit) ==
  /\ phase' = "paused"
  /\ outcome' = [kind |-> "stopped", reason |-> reason, hit |-> hit]

\* One turn of the loop up to the machine's step, at a position: record it,
\* offer it to each breakpoint in order until one stops, else apply the mode.
Look ==
  /\ phase = "look"
  /\ Positioned(Top.at)
  /\ \E holding \in SUBSET DOMAIN breakpoints :
       LET position == Where[Top.at]
           arrived == {i \in DOMAIN breakpoints :
                         Arrives(breakpoints[i].spec, position, Known)}
           stopping == {i \in arrived : Halts(i, i \in holding)}
           counted == {i \in arrived : \A j \in stopping : i <= j}
           been == {s[2] : s \in {t \in seen : t[1] = Top.serial}}
       IN  /\ breakpoints' = [i \in DOMAIN breakpoints |->
                                IF i \in counted
                                  THEN [breakpoints[i] EXCEPT !.hits = @ + 1]
                                  ELSE breakpoints[i]]
           /\ IF stopping # {} THEN Stopped("breakpoint", Min(stopping))
              ELSE IF resumed.mode # "Continue" /\ StopRule(Moved)
                THEN Stopped(IF resumed.mode = "Entry" THEN "entry" ELSE "step", 0)
              ELSE phase' = "step" /\ UNCHANGED outcome
           /\ sat_at' = Recorded(position)
           /\ seen' = seen \cup {<<Top.serial, position>>}
           /\ arrivals' = [i \in DOMAIN breakpoints |->
                             IF FirstTime(breakpoints[i].spec, position, been)
                               THEN arrivals[i] + 1 ELSE arrivals[i]]
  /\ UNCHANGED <<frames, next_serial, resumed>>

\* A turn of the loop where the top frame has no position in the user's file.
LookNowhere ==
  /\ phase = "look"
  /\ ~Positioned(Top.at)
  /\ phase' = "step"
  /\ UNCHANGED <<frames, next_serial, breakpoints, sat_at, resumed, outcome,
                 seen, arrivals>>

\* Machine::step makes progress: the rest of the loop's turn.
Progress ==
  /\ phase = "step"
  /\ phase' = "look"
  /\ UNCHANGED <<breakpoints, sat_at, resumed, outcome, seen, arrivals>>

\* A statement, a jump or a builtin call.
Advance ==
  /\ Progress
  /\ \E p \in Point :
       /\ Positioned(p) = Positioned(Top.at)
       /\ frames' = [frames EXCEPT ![Depth].at = p]
  /\ UNCHANGED next_serial

\* push_frame, the caller staying at its call.
Call ==
  /\ Progress
  /\ Depth < MAX_FRAMES /\ next_serial < MaxCalls
  /\ next_serial' = next_serial + 1
  /\ \E p \in Point \ EntryPoint :
       frames' = Append(frames, [serial |-> next_serial', at |-> p])

\* Return into a caller, which moves on to the call's target.
Return ==
  /\ Progress
  /\ Depth > 1
  /\ \E p \in Point :
       /\ Positioned(p) = Positioned(frames[Depth - 1].at)
       /\ frames' = [SubSeq(frames, 1, Depth - 1) EXCEPT ![Depth - 1].at = p]
  /\ UNCHANGED next_serial

\* The entry returns.
Finish ==
  /\ phase = "step"
  /\ Depth = 1
  /\ phase' = "over"
  /\ outcome' = [kind |-> "done", reason |-> "", hit |-> 0]
  /\ frames' = <<>>
  /\ UNCHANGED <<next_serial, breakpoints, sat_at, resumed, seen, arrivals>>

\* A trap, or a call past MAX_FRAMES; the frames stay for inspection.
Crash ==
  /\ phase = "step"
  /\ phase' = "over"
  /\ outcome' = [kind |-> "crashed", reason |-> "", hit |-> 0]
  /\ UNCHANGED <<frames, next_serial, breakpoints, sat_at, resumed, seen,
                 arrivals>>

InLoop == Look \/ LookNowhere \/ Advance \/ Call \/ Return \/ Finish \/ Crash

Next ==
  \/ SetBreakpoints
  \/ \E mode \in Modes : Resume(mode, FALSE)
  \/ \E mode \in {"StepOver", "StepIn"} : Resume(mode, TRUE)
  \/ InLoop

Spec == Init /\ [][Next]_vars
-----------------------------------------------------------------------------
\* A live frame, a history of the record and an installed breakpoint.
LiveFrame == [serial : Nat, at : Point]
Record == [serial : Nat, positions : SUBSET (Nat \X Nat)]
Installed == [spec : Specs, hits : Nat]

\* Types of the machine's stack, of the record and of the counters; a frame
\* looked at was handed out by the machine.
TypeOK ==
  /\ frames \in Seq(LiveFrame)
  /\ next_serial \in Nat
  /\ sat_at \in Seq(Record)
  /\ seen \subseteq (1 .. next_serial) \X (Nat \X Nat)
  /\ breakpoints \in Seq(Installed)
  /\ arrivals \in Seq(Nat) /\ Len(arrivals) = Len(breakpoints)

\* Cutting the record to the live stack loses nothing and mixes nothing up:
\* for every live frame it still says exactly where that frame has been, no
\* matter which calls came and went above it or used its index before
\* (debuggee.rs, sat_at: "this is the whole arrival record").
HistoryLosesNothing ==
  \A i \in 1 .. Depth :
    LET been == {s[2] : s \in {t \in seen : t[1] = frames[i].serial}}
    IN  IF History(i).serial = frames[i].serial
          THEN History(i).positions = been
          ELSE been = {}

\* A breakpoint is never counted twice for one frame instance, whenever it
\* was installed and however execution came back, and the first breakpoint
\* in the list is counted every time (debuggee.rs, arrives: "one arrival per
\* line per frame instance").  A later one is not when an earlier one stops
\* there: resume returns, and the place is no longer new to the frame.
HitsNeverDrift ==
  \A i \in DOMAIN breakpoints :
    /\ breakpoints[i].hits <= arrivals[i]
    /\ i = 1 => breakpoints[i].hits = arrivals[i]

StoppedBy(reason) ==
  phase = "paused" /\ outcome.kind = "stopped" /\ outcome.reason = reason

\* A resume that stops has got somewhere: a step ends at another place than
\* it began, `next` never in a call made by the frame it began in, `stepOut`
\* only when that frame is gone.
StepsKeepTheirPromise ==
  StoppedBy("step") /\ resumed.serial # 0 =>
    LET alive == \E i \in DOMAIN frames : frames[i].serial = resumed.serial
    IN  /\ ~(Top.serial = resumed.serial /\ Top.at = resumed.at)
        /\ resumed.mode = "StepOver" /\ alive => Top.serial = resumed.serial
        /\ resumed.mode = "StepOut" => ~alive
        /\ resumed.mode # "Continue"
=============================================================================
