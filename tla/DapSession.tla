----------------------------- MODULE DapSession -----------------------------
(***************************************************************************)
(* One debug session, crates/must-lsp/src/dap/mod.rs: requests are read    *)
(* one at a time and handled to the end, resumes included, so a handler is *)
(* one step.  What a resume comes to is the debuggee's business (Debuggee  *)
(* models it): a stop, the program's end or a crash.                       *)
(*                                                                         *)
(* Requests that only read (threads, stackTrace, scopes, variables,        *)
(* evaluate, breakpointLocations) and texts are left out.                  *)
(***************************************************************************)
EXTENDS Naturals, FiniteSets

CONSTANTS
  Launch,    \* launch requests
  None,      \* no launch
  MaxIds     \* bound: breakpoints ever requested

ASSUME NoneAssumption == None \notin Launch
ASSUME BoundAssumption == MaxIds \in Nat

VARIABLES
  session,  \* struct Session
  client,   \* what the client sent and was told
  open      \* not disconnected

vars == <<session, client, open>>

\* A launch request's arguments, and the debuggee as far as the session goes:
\* its program, its installed breakpoints, whether it crashed, and (ghosts)
\* whether it was ever resumed, was begun with noDebug, was stepped after a
\* crash.
Request == [launch : Launch, noDebug : BOOLEAN, stopOnEntry : BOOLEAN]
NoRequest == [launch |-> None, noDebug |-> FALSE, stopOnEntry |-> FALSE]
Debuggee == [launch : Launch, breakpoints : SUBSET (1 .. MaxIds),
             crashed : BOOLEAN, started : BOOLEAN, plain : BOOLEAN,
             revived : BOOLEAN]
NoDebuggee == [launch |-> None, breakpoints |-> {}, crashed |-> FALSE,
               started |-> FALSE, plain |-> FALSE, revived |-> FALSE]

Init ==
  /\ session = [configured |-> FALSE, pending_launch |-> NoRequest,
                debuggee |-> NoDebuggee, requested_breakpoints |-> {},
                next_breakpoint_id |-> 0]
  \* An orderly client launches one program at a time and drives it only
  \* while it has been told that it is stopped; the protocol asks no less,
  \* the session does not check it.
  /\ \E orderly \in BOOLEAN :
       client = [orderly |-> orderly, sent |-> {},
                 answers |-> [l \in Launch |-> 0], view |-> "idle",
                 surprised |-> FALSE]
  /\ open = TRUE
-----------------------------------------------------------------------------
\* The helpers take the session and the client as one record, [s, c], and
\* give what both are after the call.
World == [s |-> session, c |-> client]

\* Answer launch `l`: a program acknowledged is running.
Answered(w, l, ok) ==
  [w EXCEPT !.c.answers[l] = @ + 1,
            !.c.view = IF ok THEN "running" ELSE @]

\* Send an event about the program. The client is surprised by one about a
\* program it was not told of, or was told is over; a launch given up while
\* parked is announced by `terminated` alone.
Told(w, event) ==
  [w EXCEPT !.c.view = IF event = "stopped" THEN "stopped" ELSE "over",
            !.c.surprised = \/ @
                            \/ w.c.view = "over" /\ event \in {"stopped", "ended"}
                            \/ w.c.view = "idle" /\ event = "stopped"]

HasProgram(w) == w.s.debuggee # NoDebuggee
HasParked(w) == w.s.pending_launch # NoRequest

\* Mutant: a run already over is announced again.
EndRunTwice(w) ==
  LET given == IF HasParked(w)
                 THEN Answered(w, w.s.pending_launch.launch, FALSE) ELSE w
  IN  Told([given EXCEPT !.s.pending_launch = NoRequest,
                         !.s.debuggee = NoDebuggee], "ended")

\* Mutant: the parked launch is dropped without an answer.
EndRunForgetting(w) ==
  IF ~HasProgram(w) /\ ~HasParked(w) THEN w
  ELSE Told([w EXCEPT !.s.pending_launch = NoRequest,
                      !.s.debuggee = NoDebuggee], "ended")

\* end_run: `exited`, when there is a code, and `terminated` in one.
EndRun(w) ==
  IF ~HasProgram(w) /\ ~HasParked(w) THEN w
  ELSE LET given == IF HasParked(w)
                      THEN Answered(w, w.s.pending_launch.launch, FALSE) ELSE w
       IN  Told([given EXCEPT !.s.pending_launch = NoRequest,
                              !.s.debuggee = NoDebuggee], "ended")

\* Mutant: a program that ran to its end is announced and kept.
ReportKeeping(w, outcome) ==
  CASE outcome = "stopped" -> Told(w, "stopped")
    [] outcome = "done" -> Told(w, "ended")
    [] outcome = "crashed" ->
         [Told(w, "stopped") EXCEPT !.s.debuggee.crashed = TRUE]

\* report.
Report(w, outcome) ==
  CASE outcome = "stopped" -> Told(w, "stopped")
    [] outcome = "done" -> EndRun(w)
    [] outcome = "crashed" ->
         [Told(w, "stopped") EXCEPT !.s.debuggee.crashed = TRUE]

\* Resume the debuggee and report, in every way it can go: without
\* breakpoints or a mode that stops by itself, only to its end.
Resumed(w, stops) ==
  LET outcomes == {"done", "crashed"}
        \cup (IF stops \/ w.s.debuggee.breakpoints # {} THEN {"stopped"} ELSE {})
      going == [w EXCEPT !.s.debuggee.started = TRUE,
                         !.s.debuggee.revived = @ \/ w.s.debuggee.crashed]
  IN  {Report(going, o) : o \in outcomes}

\* begin.
Begin(w, request) ==
  IF ~HasProgram(w) THEN {w}
  ELSE Resumed([w EXCEPT !.s.debuggee.plain = request.noDebug,
                         !.s.debuggee.breakpoints =
                           IF request.noDebug THEN {} ELSE @],
               request.stopOnEntry /\ ~request.noDebug)

\* Mutant: the breakpoints asked for before the launch are not handed over.
PreparedBare(w, l) ==
  [w EXCEPT !.s.debuggee = [NoDebuggee EXCEPT !.launch = l]]

\* prepare_debuggee, when it succeeds: any earlier program is dropped.
Prepared(w, l) ==
  [w EXCEPT !.s.debuggee = [NoDebuggee EXCEPT
     !.launch = l, !.breakpoints = w.s.requested_breakpoints]]

Becomes(w) == open /\ session' = w.s /\ client' = w.c /\ UNCHANGED open
-----------------------------------------------------------------------------
\* The client sends launch `l` as it may.
Sent(l) == [World EXCEPT !.c.sent = @ \cup {l}, !.c.view = "idle"]
MayLaunch(l) ==
  /\ l \notin client.sent
  /\ client.orderly => client.view \in {"idle", "over"} /\ ~HasParked(World)

\* The program does not load: an error, and whatever was there stays.
LaunchFails(l) ==
  /\ MayLaunch(l)
  /\ Becomes(Answered([World EXCEPT !.c.sent = @ \cup {l}], l, FALSE))

LaunchSucceeds(request) ==
  /\ MayLaunch(request.launch)
  /\ LET w == Prepared(Sent(request.launch), request.launch)
     IN  IF session.configured
           THEN \E v \in Begin(Answered(w, request.launch, TRUE), request) :
                  Becomes(v)
           ELSE Becomes([w EXCEPT !.s.pending_launch = request])

ConfigurationDone ==
  LET w == [World EXCEPT !.s.configured = TRUE,
                         !.s.pending_launch = NoRequest]
      request == session.pending_launch
  IN  IF HasParked(World)
        THEN \E v \in Begin(Answered(w, request.launch, TRUE), request) :
               Becomes(v)
        ELSE Becomes(w)

\* setBreakpoints: every one gets an id; one whose hit condition does not
\* parse is reported and not installed.
SetBreakpoints ==
  \E n \in 0 .. MaxIds - session.next_breakpoint_id :
    LET top == session.next_breakpoint_id + n
    IN  \E accepted \in SUBSET (session.next_breakpoint_id + 1 .. top) :
       Becomes([World EXCEPT
         !.s.next_breakpoint_id = top,
         !.s.requested_breakpoints = accepted,
         !.s.debuggee.breakpoints =
           IF HasProgram(World) THEN accepted ELSE @])

\* Mutant: a crashed program is resumed like any other.
DriveOn(steps) ==
  /\ client.orderly => client.view = "stopped"
  /\ HasProgram(World)
  /\ \E v \in Resumed(World, steps) : Becomes(v)

\* continue, next, stepIn, stepOut; with no program, an error and no change.
Drive(steps) ==
  /\ client.orderly => client.view = "stopped"
  /\ HasProgram(World)
  /\ IF session.debuggee.crashed
       THEN Becomes(EndRun(World))
       ELSE \E v \in Resumed(World, steps) : Becomes(v)

Terminate == Becomes(EndRun(World))
Disconnect == open /\ open' = FALSE /\ UNCHANGED <<session, client>>

Next ==
  \/ \E l \in Launch : LaunchFails(l)
  \/ \E request \in Request : LaunchSucceeds(request)
  \/ ConfigurationDone
  \/ SetBreakpoints
  \/ \E steps \in BOOLEAN : Drive(steps)
  \/ Terminate
  \/ Disconnect

Spec == Init /\ [][Next]_vars
-----------------------------------------------------------------------------
Views == {"idle", "running", "stopped", "over"}
Ids == SUBSET (1 .. MaxIds)

SessionShape ==
  [configured : BOOLEAN, pending_launch : Request \cup {NoRequest},
   debuggee : Debuggee \cup {NoDebuggee}, requested_breakpoints : Ids,
   next_breakpoint_id : 0 .. MaxIds]
ClientShape ==
  [orderly : BOOLEAN, sent : SUBSET Launch, answers : [Launch -> Nat],
   view : Views, surprised : BOOLEAN]
WorldShape == [s : SessionShape, c : ClientShape]

TypeOK == World \in WorldShape /\ open \in BOOLEAN

\* What is installed in the program is what the client asked for last,
\* whether the program or the breakpoints came first (mod.rs, "transferred to
\* the debuggee when it exists"); a noDebug program apart.
BreakpointsTransferred ==
  HasProgram(World) /\ ~session.debuggee.plain =>
    session.debuggee.breakpoints = session.requested_breakpoints

\* A program begun with noDebug is never found paused, other than crashed:
\* breakpoints set before, in between or for an earlier program do not stop it.
NoDebugNeverPauses ==
  session.debuggee.plain => session.debuggee.crashed

\* A launch is answered once, at once or when it stops being the parked one
\* (mod.rs, end_run: "gets its answer here"), and a parked launch has the
\* program it prepared, so configurationDone acknowledges none in vain.  A
\* client that launches twice before configurationDone loses the first answer.
LaunchesAnswered ==
  /\ \A l \in client.sent :
       IF session.pending_launch.launch = l THEN client.answers[l] = 0
       ELSE IF client.orderly THEN client.answers[l] = 1
       ELSE client.answers[l] <= 1
  /\ HasParked(World) => session.debuggee.launch = session.pending_launch.launch

\* With an orderly client no program starts before configurationDone (mod.rs,
\* Session: "must not start until `configurationDone`") and none is stepped
\* again after it crashed (debuggee.rs: "the next resume terminates the
\* session").  `continue` while a launch is parked breaks both.
StartsAndEndsOnce ==
  client.orderly =>
    /\ session.debuggee.started => session.configured
    /\ ~session.debuggee.revived

\* An orderly client is never told of a program it does not know of, nor
\* twice of one's end (mod.rs, end_run: "nothing is sent twice").
NoSurprises == client.orderly => ~client.surprised

\* Between requests an orderly client and the session agree on whether there
\* is a program to drive: a program dropped was announced over, one that is
\* there was announced stopped.
ClientKnows ==
  client.orderly =>
    (client.view = "stopped" <=> HasProgram(World) /\ ~HasParked(World))

\* What an orderly client was told is what it needed to be told, once.
ClientIsTold == NoSurprises /\ ClientKnows
=============================================================================
