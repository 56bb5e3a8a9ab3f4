-------------------------- MODULE DapSession_proofs --------------------------
(***************************************************************************)
(* Proofs about the debug session, for any launches and any number of      *)
(* breakpoints.                                                            *)
(*                                                                         *)
(* A handler passes the session and the client through several helpers, so *)
(* the invariant is stated of any such pair: `Good(w)`.  One lemma per     *)
(* helper says which fields it changes; a lemma about Resumed says when a  *)
(* program may be set going; then each handler is a short case analysis.   *)
(***************************************************************************)
EXTENDS DapSession, TLAPS

\* What was installed is what was asked for, and a noDebug program that is
\* still there has crashed.
Installed(s) ==
  /\ s.debuggee # NoDebuggee /\ ~s.debuggee.plain =>
       s.debuggee.breakpoints = s.requested_breakpoints
  /\ s.debuggee.plain => s.debuggee.crashed

\* A launch is parked with its program, not begun, before configurationDone;
\* a program that is there without one is there after.
Parked(s) ==
  /\ s.pending_launch # NoRequest =>
       /\ s.debuggee.launch = s.pending_launch.launch
       /\ ~s.debuggee.plain /\ ~s.configured
  /\ s.debuggee # NoDebuggee => s.pending_launch # NoRequest \/ s.configured

\* The answers to each launch.
AnsweredOnce(s, c) ==
  \A l \in Launch :
    IF l \notin c.sent
      THEN c.answers[l] = 0 /\ s.pending_launch.launch # l
    ELSE IF s.pending_launch.launch = l THEN c.answers[l] = 0
    ELSE IF c.orderly THEN c.answers[l] = 1
    ELSE c.answers[l] <= 1

\* What an orderly client sees; while its launch is parked it has seen nothing
\* and nothing has run.
InStep(s, c) ==
  c.orderly =>
    /\ s.debuggee.started => s.configured
    /\ ~s.debuggee.revived
    /\ ~c.surprised
    /\ c.view = "stopped" <=> s.debuggee # NoDebuggee /\ s.pending_launch = NoRequest
    /\ s.pending_launch # NoRequest =>
         c.view = "idle" /\ ~s.debuggee.started /\ ~s.debuggee.crashed

Good(w) ==
  /\ w \in WorldShape
  /\ Installed(w.s) /\ Parked(w.s) /\ AnsweredOnce(w.s, w.c) /\ InStep(w.s, w.c)

IInv == Good(World) /\ open \in BOOLEAN

\* There is a program, or a parked launch, when it has a name.
LEMMA Named ==
  ASSUME NEW w \in WorldShape
  PROVE  /\ w.s.debuggee # NoDebuggee <=> w.s.debuggee.launch # None
         /\ w.s.debuggee # NoDebuggee => w.s.debuggee \in Debuggee
         /\ w.s.pending_launch # NoRequest <=> w.s.pending_launch.launch # None
         /\ w.s.pending_launch # NoRequest => w.s.pending_launch \in Request
<1>1. /\ w.s.debuggee \in Debuggee \cup {NoDebuggee}
      /\ w.s.pending_launch \in Request \cup {NoRequest}
  BY DEF WorldShape, SessionShape
<1>2. NoDebuggee.launch = None /\ NoRequest.launch = None
  BY DEF NoDebuggee, NoRequest
<1>3. ASSUME NEW d \in Debuggee PROVE d.launch # None
  BY NoneAssumption DEF Debuggee
<1>4. ASSUME NEW r \in Request PROVE r.launch # None
  BY NoneAssumption DEF Request
<1> QED  BY <1>1, <1>2, <1>3, <1>4

LEMMA InitEstablishes == Init => IInv
<1> SUFFICES ASSUME Init PROVE IInv
  OBVIOUS
<1> DEFINE w == World
<1>1. /\ session.configured = FALSE /\ session.pending_launch = NoRequest
      /\ session.debuggee = NoDebuggee /\ session.requested_breakpoints = {}
      /\ session \in SessionShape
  BY BoundAssumption DEF Init, SessionShape, Ids
<1>2. PICK orderly \in BOOLEAN :
        client = [orderly |-> orderly, sent |-> {},
                  answers |-> [l \in Launch |-> 0], view |-> "idle",
                  surprised |-> FALSE]
  BY DEF Init
<1>3. client \in ClientShape
  BY <1>2 DEF ClientShape, Views
<1>4. /\ client.sent = {} /\ client.view = "idle" /\ client.surprised = FALSE
      /\ \A l \in Launch : client.answers[l] = 0
  BY <1>2
<1>5. /\ World \in WorldShape /\ World.s = session /\ World.c = client
  BY <1>1, <1>3 DEF World, WorldShape
<1>6. /\ NoDebuggee.plain = FALSE /\ NoDebuggee.started = FALSE
      /\ NoDebuggee.revived = FALSE /\ NoRequest.launch = None
  BY DEF NoDebuggee, NoRequest
<1>7. Installed(session) /\ Parked(session)
  BY <1>1, <1>6 DEF Installed, Parked
<1>8. AnsweredOnce(session, client)
  BY <1>1, <1>4, <1>6, NoneAssumption DEF AnsweredOnce
<1>9. InStep(session, client)
  BY <1>1, <1>4, <1>6 DEF InStep
<1> QED  BY <1>5, <1>7, <1>8, <1>9 DEF IInv, Good, Init

\* What an event, or an answer, changes about the client.
LEMMA ToldFields ==
  ASSUME NEW w \in WorldShape, NEW event \in {"stopped", "ended"}
  PROVE  LET v == Told(w, event)
         IN  /\ v \in WorldShape /\ v.s = w.s
             /\ v.c.orderly = w.c.orderly /\ v.c.sent = w.c.sent
             /\ v.c.answers = w.c.answers
             /\ v.c.view = IF event = "stopped" THEN "stopped" ELSE "over"
             /\ ~w.c.surprised /\ w.c.view # "over"
                   /\ (w.c.view = "idle" => event = "ended") => ~v.c.surprised
<1> DEFINE now == IF event = "stopped" THEN "stopped" ELSE "over"
           jolt == \/ w.c.surprised
                   \/ w.c.view = "over" /\ event \in {"stopped", "ended"}
                   \/ w.c.view = "idle" /\ event = "stopped"
           v == [w EXCEPT !.c.view = now, !.c.surprised = jolt]
<1>1. Told(w, event) = v
  BY DEF Told
<1>2. now \in Views /\ jolt \in BOOLEAN
  BY DEF Views
<1>3. ~w.c.surprised /\ w.c.view # "over"
        /\ (w.c.view = "idle" => event = "ended") => ~jolt
  OBVIOUS
<1> HIDE DEF jolt
<1>4. /\ v \in WorldShape /\ v.s = w.s
      /\ v.c.orderly = w.c.orderly /\ v.c.sent = w.c.sent
      /\ v.c.answers = w.c.answers /\ v.c.view = now /\ v.c.surprised = jolt
  BY <1>2 DEF WorldShape, ClientShape
<1> QED  BY <1>1, <1>3, <1>4

LEMMA AnsweredFields ==
  ASSUME NEW w \in WorldShape, NEW l \in Launch, NEW ok \in BOOLEAN
  PROVE  LET v == Answered(w, l, ok)
         IN  /\ v \in WorldShape /\ v.s = w.s
             /\ v.c.orderly = w.c.orderly /\ v.c.sent = w.c.sent
             /\ v.c.view = (IF ok THEN "running" ELSE w.c.view)
             /\ v.c.surprised = w.c.surprised
             /\ \A k \in Launch : v.c.answers[k] = IF k = l THEN w.c.answers[k] + 1
                                                   ELSE w.c.answers[k]
<1> DEFINE now == IF ok THEN "running" ELSE w.c.view
           more == [w.c.answers EXCEPT ![l] = @ + 1]
           v == [w EXCEPT !.c.answers = more, !.c.view = now]
<1>1. w.c \in ClientShape /\ w.c.answers \in [Launch -> Nat]
  BY DEF WorldShape, ClientShape
<1>2. Answered(w, l, ok) = v
  BY <1>1 DEF Answered, WorldShape, ClientShape
<1>3. now \in Views /\ more \in [Launch -> Nat]
  BY <1>1 DEF Views, ClientShape
<1>4. \A k \in Launch : more[k] = IF k = l THEN w.c.answers[k] + 1 ELSE w.c.answers[k]
  BY <1>1
<1> HIDE DEF now, more
<1>5. /\ v \in WorldShape /\ v.s = w.s
      /\ v.c.orderly = w.c.orderly /\ v.c.sent = w.c.sent
      /\ v.c.surprised = w.c.surprised /\ v.c.view = now /\ v.c.answers = more
  BY <1>3 DEF WorldShape, ClientShape
<1> QED  BY <1>2, <1>4, <1>5 DEF now

LEMMA AcknowledgedFields ==
  ASSUME NEW w \in WorldShape, NEW l \in Launch
  PROVE  LET v == Answered(w, l, TRUE)
         IN  /\ v \in WorldShape /\ v.s = w.s
             /\ v.c.orderly = w.c.orderly /\ v.c.sent = w.c.sent
             /\ v.c.view = "running" /\ v.c.surprised = w.c.surprised
             /\ \A k \in Launch : v.c.answers[k] = IF k = l THEN w.c.answers[k] + 1
                                                   ELSE w.c.answers[k]
<1>1. PICK ok \in BOOLEAN : ok
  BY Zenon
<1>2. ok = TRUE
  BY <1>1, Zenon
<1> DEFINE v == Answered(w, l, ok)
<1>3. /\ v \in WorldShape /\ v.s = w.s
      /\ v.c.orderly = w.c.orderly /\ v.c.sent = w.c.sent
      /\ v.c.view = (IF ok THEN "running" ELSE w.c.view)
      /\ v.c.surprised = w.c.surprised
      /\ \A k \in Launch : v.c.answers[k] = IF k = l THEN w.c.answers[k] + 1
                                            ELSE w.c.answers[k]
  BY AnsweredFields
<1> HIDE DEF v
<1>4. v.c.view = "running"
  BY <1>1, <1>3
<1>5. v = Answered(w, l, TRUE)
  BY <1>2, Zenon DEF v
<1> QED  BY <1>3, <1>4, <1>5, Zenon

\* What end_run changes.
LEMMA EndRunFields ==
  ASSUME NEW w \in WorldShape, HasProgram(w) \/ HasParked(w)
  PROVE  LET v == EndRun(w)
         IN  /\ v \in WorldShape
             /\ v.s.configured = w.s.configured
             /\ v.s.pending_launch = NoRequest /\ v.s.debuggee = NoDebuggee
             /\ v.c.orderly = w.c.orderly /\ v.c.sent = w.c.sent
             /\ v.c.view = "over"
             /\ ~w.c.surprised /\ w.c.view # "over" => ~v.c.surprised
             /\ \A l \in Launch :
                  v.c.answers[l] = IF w.s.pending_launch.launch = l
                                     THEN w.c.answers[l] + 1 ELSE w.c.answers[l]
<1> DEFINE given == IF HasParked(w)
                      THEN Answered(w, w.s.pending_launch.launch, FALSE) ELSE w
           cleared == [given EXCEPT !.s.pending_launch = NoRequest,
                                    !.s.debuggee = NoDebuggee]
           v == EndRun(w)
<1>1. v = Told(cleared, "ended")
  BY DEF EndRun
<1>2. /\ w.s \in SessionShape /\ w.c \in ClientShape /\ w = [s |-> w.s, c |-> w.c]
  BY DEF WorldShape
<1>3. /\ given.s = w.s /\ given.c \in ClientShape
      /\ given \in WorldShape
      /\ given.c.orderly = w.c.orderly /\ given.c.sent = w.c.sent
      /\ given.c.view = w.c.view /\ given.c.surprised = w.c.surprised
      /\ \A l \in Launch :
           given.c.answers[l] = IF w.s.pending_launch.launch = l
                                  THEN w.c.answers[l] + 1 ELSE w.c.answers[l]
  <2>1. CASE HasParked(w)
    <3>1. w.s.pending_launch.launch \in Launch
      BY <2>1, Named DEF HasParked, Request
    <3>2. given = Answered(w, w.s.pending_launch.launch, FALSE)
      BY <2>1
    <3>3. /\ given.s = w.s /\ given \in WorldShape
          /\ given.c.orderly = w.c.orderly /\ given.c.sent = w.c.sent
          /\ given.c.view = w.c.view /\ given.c.surprised = w.c.surprised
          /\ \A k \in Launch :
               given.c.answers[k] = IF k = w.s.pending_launch.launch
                                      THEN w.c.answers[k] + 1 ELSE w.c.answers[k]
      <4> HIDE DEF given
      <4> QED  BY <3>1, <3>2, AnsweredFields, ZenonT(40)
    <3>4. given.c \in ClientShape
      BY <3>3 DEF WorldShape
    <3> HIDE DEF given
    <3> QED  BY <3>3, <3>4
  <2>2. CASE ~HasParked(w)
    <3>1. given = w /\ \A l \in Launch : w.s.pending_launch.launch # l
      BY <2>2, NoneAssumption DEF HasParked, NoRequest
    <3> QED  BY <3>1, <1>2
  <2> QED  BY <2>1, <2>2
<1> HIDE DEF given
<1>4. /\ cleared.s.configured = w.s.configured /\ cleared.c = given.c
      /\ cleared.s.pending_launch = NoRequest /\ cleared.s.debuggee = NoDebuggee
      /\ cleared.s \in SessionShape /\ cleared \in WorldShape
  BY <1>2, <1>3 DEF WorldShape, SessionShape
<1> HIDE DEF cleared
<1>5. /\ v.s = cleared.s /\ v \in WorldShape
      /\ v.c.orderly = cleared.c.orderly /\ v.c.sent = cleared.c.sent
      /\ v.c.answers = cleared.c.answers /\ v.c.view = "over"
      /\ ~cleared.c.surprised /\ cleared.c.view # "over" => ~v.c.surprised
  BY <1>1, <1>4, ToldFields
<1> HIDE DEF v
<1> QED  BY <1>3, <1>4, <1>5 DEF v

\* Ending a run leaves nothing behind and answers the launch parked with it.
LEMMA EndRunGood ==
  ASSUME NEW w \in WorldShape, HasProgram(w) \/ HasParked(w),
         AnsweredOnce(w.s, w.c),
         w.c.orderly => ~w.c.surprised /\ w.c.view # "over"
  PROVE  Good(EndRun(w))
<1> DEFINE v == EndRun(w)
<1>1. /\ v \in WorldShape
      /\ v.s.configured = w.s.configured
      /\ v.s.pending_launch = NoRequest /\ v.s.debuggee = NoDebuggee
      /\ v.c.orderly = w.c.orderly /\ v.c.sent = w.c.sent
      /\ v.c.view = "over"
      /\ ~w.c.surprised /\ w.c.view # "over" => ~v.c.surprised
      /\ \A l \in Launch :
           v.c.answers[l] = IF w.s.pending_launch.launch = l
                              THEN w.c.answers[l] + 1 ELSE w.c.answers[l]
  BY EndRunFields
<1> HIDE DEF v
<1>2. /\ ~NoDebuggee.plain /\ ~NoDebuggee.started /\ ~NoDebuggee.revived
      /\ NoRequest.launch = None
  BY DEF NoDebuggee, NoRequest
<1>3. Installed(v.s) /\ Parked(v.s)
  BY <1>1, <1>2 DEF Installed, Parked
<1>4. AnsweredOnce(v.s, v.c)
  <2>1. \A l \in Launch : v.s.pending_launch.launch # l
    BY <1>1, <1>2, NoneAssumption
  <2>2. \A l \in Launch : w.c.answers[l] \in Nat
    BY DEF WorldShape, ClientShape
  <2> QED  BY <1>1, <2>1, <2>2 DEF AnsweredOnce
<1>5. InStep(v.s, v.c)
  BY <1>1, <1>2 DEF InStep
<1> QED  BY <1>1, <1>3, <1>4, <1>5 DEF Good, v

\* When a program may be set going: there is one, an orderly client's launch
\* is not parked with it and it has not crashed, and if it was begun with
\* noDebug there is nothing it could stop at.
Ready(w, stops) ==
  /\ w \in WorldShape
  /\ HasProgram(w)
  /\ ~w.s.debuggee.plain => w.s.debuggee.breakpoints = w.s.requested_breakpoints
  /\ w.s.debuggee.plain /\ ~w.s.debuggee.crashed =>
       ~stops /\ w.s.debuggee.breakpoints = {}
  /\ Parked(w.s) /\ AnsweredOnce(w.s, w.c)
  /\ w.c.orderly =>
       /\ ~HasParked(w)
       /\ ~w.s.debuggee.revived /\ ~w.s.debuggee.crashed
       /\ ~w.c.surprised /\ w.c.view \in {"running", "stopped"}

LEMMA ResumedGood ==
  ASSUME NEW w, NEW stops \in BOOLEAN, Ready(w, stops), NEW v \in Resumed(w, stops)
  PROVE  Good(v)
<1> DEFINE outcomes == {"done", "crashed"}
             \cup (IF stops \/ w.s.debuggee.breakpoints # {} THEN {"stopped"} ELSE {})
           again == w.s.debuggee.revived \/ w.s.debuggee.crashed
           going == [w EXCEPT !.s.debuggee.started = TRUE,
                              !.s.debuggee.revived = again]
<1>1. /\ w \in WorldShape /\ w.s \in SessionShape /\ w.c \in ClientShape
      /\ HasProgram(w) /\ w.s.debuggee \in Debuggee
  BY Named DEF Ready, WorldShape, HasProgram
<1>2. PICK o \in outcomes : v = Report(going, o)
  BY <1>1 DEF Resumed, WorldShape, SessionShape, Debuggee
<1>3. again \in BOOLEAN /\ (w.c.orderly => ~again)
  BY DEF Ready
<1> HIDE DEF again
<1>4. /\ going \in WorldShape /\ going.c = w.c
      /\ going.s.configured = w.s.configured
      /\ going.s.pending_launch = w.s.pending_launch
      /\ going.s.requested_breakpoints = w.s.requested_breakpoints
      /\ going.s.debuggee \in Debuggee
      /\ going.s.debuggee.launch = w.s.debuggee.launch
      /\ going.s.debuggee.breakpoints = w.s.debuggee.breakpoints
      /\ going.s.debuggee.crashed = w.s.debuggee.crashed
      /\ going.s.debuggee.plain = w.s.debuggee.plain
      /\ going.s.debuggee.started = TRUE
      /\ going.s.debuggee.revived = again
  BY <1>1, <1>3 DEF WorldShape, SessionShape, Debuggee
<1> HIDE DEF going
<1>5. HasProgram(going) /\ (HasParked(going) <=> HasParked(w))
  BY <1>1, <1>4, Named DEF HasProgram, HasParked
<1>6. Parked(going.s) /\ AnsweredOnce(going.s, going.c)
  BY <1>1, <1>4, <1>5 DEF Ready, Parked, AnsweredOnce, HasProgram
<1>7. CASE o = "done"
  <2>1. v = EndRun(going)
    BY <1>2, <1>7 DEF Report
  <2> QED  BY <2>1, <1>4, <1>5, <1>6, EndRunGood DEF Ready
<1> DEFINE told == Told(going, "stopped")
<1>8. /\ told \in WorldShape /\ told.s = going.s
      /\ told.c.orderly = w.c.orderly /\ told.c.sent = w.c.sent
      /\ told.c.answers = w.c.answers /\ told.c.view = "stopped"
      /\ ~w.c.surprised /\ w.c.view # "over" /\ w.c.view # "idle" => ~told.c.surprised
  BY <1>4, ToldFields
<1> HIDE DEF told
<1>9. AnsweredOnce(told.s, told.c)
  BY <1>4, <1>6, <1>8 DEF AnsweredOnce
<1>10. Parked(w.s) /\ w.s.debuggee # NoDebuggee /\ (HasParked(w) \/ w.s.configured)
  BY <1>1 DEF Ready, Parked, HasProgram, HasParked
<1>11. CASE o = "stopped"
  <2>1. v = told
    BY <1>2, <1>11 DEF Report, told
  <2>2. ~w.s.debuggee.plain \/ w.s.debuggee.crashed
    BY <1>2, <1>11 DEF Ready
  <2>3. Installed(told.s)
    BY <2>2, <1>4, <1>8 DEF Ready, Installed
  <2>4. InStep(told.s, told.c)
    BY <1>3, <1>4, <1>5, <1>8, <1>10 DEF Ready, InStep, HasProgram, HasParked
  <2> QED  BY <2>1, <2>3, <2>4, <1>6, <1>8, <1>9 DEF Good
<1>12. CASE o = "crashed"
  <2>1. v = [told EXCEPT !.s.debuggee.crashed = TRUE]
    BY <1>2, <1>12 DEF Report, told
  <2>2. /\ v \in WorldShape /\ v.c = told.c
        /\ v.s.configured = told.s.configured
        /\ v.s.pending_launch = told.s.pending_launch
        /\ v.s.requested_breakpoints = told.s.requested_breakpoints
        /\ v.s.debuggee \in Debuggee
        /\ v.s.debuggee.launch = told.s.debuggee.launch
        /\ v.s.debuggee.breakpoints = told.s.debuggee.breakpoints
        /\ v.s.debuggee.crashed = TRUE
        /\ v.s.debuggee.plain = told.s.debuggee.plain
        /\ v.s.debuggee.started = told.s.debuggee.started
        /\ v.s.debuggee.revived = told.s.debuggee.revived
    BY <2>1, <1>4, <1>8 DEF WorldShape, SessionShape, Debuggee
  <2>3. v.s.debuggee # NoDebuggee
    BY <2>2, <1>4, <1>5, <1>8, Named DEF HasProgram
  <2>4. Installed(v.s)
    BY <2>2, <1>4, <1>8 DEF Ready, Installed
  <2>5. Parked(v.s) /\ AnsweredOnce(v.s, v.c)
    BY <2>2, <2>3, <1>5, <1>6, <1>8, <1>9 DEF Parked, AnsweredOnce, HasProgram
  <2>6. InStep(v.s, v.c)
    BY <2>2, <2>3, <1>3, <1>4, <1>5, <1>8, <1>10 DEF Ready, InStep, HasProgram, HasParked
  <2> QED  BY <2>2, <2>4, <2>5, <2>6 DEF Good
<1> QED  BY <1>2, <1>7, <1>11, <1>12

\* Beginning a program whose launch has just been answered.
LEMMA BeginGood ==
  ASSUME NEW w \in WorldShape, HasProgram(w), ~HasParked(w), w.s.configured,
         NEW request \in Request,
         w.s.debuggee.breakpoints = w.s.requested_breakpoints,
         AnsweredOnce(w.s, w.c),
         w.c.orderly => /\ ~w.s.debuggee.revived /\ ~w.s.debuggee.crashed
                        /\ ~w.c.surprised /\ w.c.view = "running",
         NEW v \in Begin(w, request)
  PROVE  Good(v)
<1> DEFINE stops == request.stopOnEntry /\ ~request.noDebug
           left == IF request.noDebug THEN {} ELSE w.s.debuggee.breakpoints
           u == [w EXCEPT !.s.debuggee.plain = request.noDebug,
                          !.s.debuggee.breakpoints = left]
<1>1. /\ w.s \in SessionShape /\ w.c \in ClientShape /\ w.s.debuggee \in Debuggee
  BY Named DEF WorldShape, HasProgram
<1>2. v \in Resumed(u, stops)
  BY <1>1 DEF Begin, WorldShape, SessionShape, Debuggee
<1>3. /\ stops \in BOOLEAN /\ left \in Ids /\ request.noDebug \in BOOLEAN
      /\ request.noDebug => ~stops /\ left = {}
      /\ ~request.noDebug => left = w.s.debuggee.breakpoints
  BY <1>1 DEF Request, Debuggee, Ids
<1> HIDE DEF stops, left
<1>4. /\ u \in WorldShape /\ u.c = w.c
      /\ u.s.configured = w.s.configured
      /\ u.s.pending_launch = w.s.pending_launch
      /\ u.s.requested_breakpoints = w.s.requested_breakpoints
      /\ u.s.debuggee \in Debuggee
      /\ u.s.debuggee.launch = w.s.debuggee.launch
      /\ u.s.debuggee.breakpoints = left
      /\ u.s.debuggee.plain = request.noDebug
      /\ u.s.debuggee.crashed = w.s.debuggee.crashed
      /\ u.s.debuggee.revived = w.s.debuggee.revived
  BY <1>1, <1>3 DEF WorldShape, SessionShape, Debuggee, Ids
<1> HIDE DEF u
<1>5. HasProgram(u) /\ ~HasParked(u)
  BY <1>1, <1>4, Named DEF HasProgram, HasParked
<1>6. Parked(u.s) /\ AnsweredOnce(u.s, u.c)
  BY <1>4, <1>5 DEF Parked, AnsweredOnce, HasParked
<1>7. Ready(u, stops)
  BY <1>3, <1>4, <1>5, <1>6 DEF Ready
<1> QED  BY <1>2, <1>3, <1>7, ResumedGood
-----------------------------------------------------------------------------
(* The handlers.                                                            *)

\* A handler that ends in a good pair keeps the invariant.
LEMMA BecomesKeeps ==
  ASSUME NEW w, Good(w), Becomes(w)
  PROVE  IInv'
<1>1. session' = w.s /\ client' = w.c /\ open' \in BOOLEAN
  BY DEF Becomes
<1>2. w \in [s : SessionShape, c : ClientShape]
  BY DEF Good, WorldShape
<1>3. World' = w
  BY <1>1, <1>2 DEF World
<1> QED  BY <1>1, <1>3 DEF IInv

\* The pair between requests, field by field.
LEMMA WorldFields ==
  ASSUME IInv
  PROVE  /\ World \in WorldShape /\ World.s = session /\ World.c = client
         /\ session \in SessionShape /\ client \in ClientShape
         /\ Installed(session) /\ Parked(session)
         /\ AnsweredOnce(session, client) /\ InStep(session, client)
<1>1. World \in WorldShape /\ World.s = session /\ World.c = client
  BY DEF IInv, Good, World
<1> QED  BY <1>1 DEF IInv, Good, WorldShape

LEMMA TerminateKeeps ==
  ASSUME IInv, Terminate
  PROVE  IInv'
<1>1. Becomes(EndRun(World))
  BY DEF Terminate
<1>2. CASE ~HasProgram(World) /\ ~HasParked(World)
  BY <1>1, <1>2, BecomesKeeps DEF EndRun, IInv
<1>3. CASE HasProgram(World) \/ HasParked(World)
  <2>1. client.orderly => ~client.surprised /\ client.view # "over"
    BY <1>3, WorldFields DEF InStep, HasProgram, HasParked
  <2>2. Good(EndRun(World))
    BY <1>3, <2>1, WorldFields, EndRunGood
  <2> QED  BY <1>1, <2>2, BecomesKeeps
<1> QED  BY <1>2, <1>3

LEMMA DriveKeeps ==
  ASSUME IInv, NEW steps \in BOOLEAN, Drive(steps)
  PROVE  IInv'
<1>1. /\ HasProgram(World) /\ (client.orderly => client.view = "stopped")
  BY DEF Drive
<1>2. client.orderly => /\ ~HasParked(World) /\ ~client.surprised
                        /\ ~session.debuggee.revived
  BY <1>1, WorldFields DEF InStep, HasParked
<1>3. CASE session.debuggee.crashed
  <2>1. Becomes(EndRun(World))
    BY <1>3 DEF Drive
  <2>2. Good(EndRun(World))
    BY <1>1, <1>2, WorldFields, EndRunGood
  <2> QED  BY <2>1, <2>2, BecomesKeeps
<1>4. CASE ~session.debuggee.crashed
  <2>1. PICK v \in Resumed(World, steps) : Becomes(v)
    BY <1>4 DEF Drive
  <2>2. Ready(World, steps)
    BY <1>1, <1>2, <1>4, WorldFields DEF Ready, Installed, HasProgram
  <2> QED  BY <2>1, <2>2, ResumedGood, BecomesKeeps
<1> QED  BY <1>3, <1>4

LEMMA LaunchFailsKeeps ==
  ASSUME IInv, NEW l \in Launch, LaunchFails(l)
  PROVE  IInv'
<1> DEFINE w == [World EXCEPT !.c.sent = @ \cup {l}]
           v == Answered(w, l, FALSE)
<1>1. Becomes(v) /\ l \notin client.sent
  BY DEF LaunchFails, MayLaunch
<1>2. /\ w \in WorldShape /\ w.s = session
      /\ w.c.sent = client.sent \cup {l} /\ w.c.orderly = client.orderly
      /\ w.c.answers = client.answers /\ w.c.view = client.view
      /\ w.c.surprised = client.surprised
  BY WorldFields DEF WorldShape, ClientShape
<1> HIDE DEF w
<1>3. /\ v \in WorldShape /\ v.s = session
      /\ v.c.sent = client.sent \cup {l} /\ v.c.orderly = client.orderly
      /\ v.c.view = client.view /\ v.c.surprised = client.surprised
      /\ \A k \in Launch : v.c.answers[k] =
           IF k = l THEN client.answers[k] + 1 ELSE client.answers[k]
  <2>1. v = Answered(w, l, FALSE)
    OBVIOUS
  <2> HIDE DEF v
  <2>2. /\ v \in WorldShape /\ v.s = w.s
        /\ v.c.orderly = w.c.orderly /\ v.c.sent = w.c.sent
        /\ v.c.view = w.c.view /\ v.c.surprised = w.c.surprised
        /\ \A k \in Launch : v.c.answers[k] = IF k = l THEN w.c.answers[k] + 1
                                              ELSE w.c.answers[k]
    BY <2>1, <1>2, AnsweredFields, ZenonT(40)
  <2> QED  BY <2>2, <1>2
<1> HIDE DEF v
<1>4. AnsweredOnce(v.s, v.c)
  <2>1. \A k \in Launch : client.answers[k] \in Nat
    BY WorldFields DEF ClientShape
  <2>2. client.answers[l] = 0 /\ session.pending_launch.launch # l
    BY <1>1, WorldFields DEF AnsweredOnce
  <2> QED  BY <1>3, <2>1, <2>2, WorldFields DEF AnsweredOnce
<1>5. Installed(v.s) /\ Parked(v.s) /\ InStep(v.s, v.c)
  BY <1>3, WorldFields DEF InStep
<1>6. Good(v)
  BY <1>3, <1>4, <1>5 DEF Good
<1> QED  BY <1>1, <1>6, BecomesKeeps

LEMMA LaunchSucceedsKeeps ==
  ASSUME IInv, NEW request \in Request, LaunchSucceeds(request)
  PROVE  IInv'
<1> DEFINE l == request.launch
           d == [NoDebuggee EXCEPT !.launch = l,
                                   !.breakpoints = session.requested_breakpoints]
           sent == Sent(l)
           w == Prepared(sent, l)
<1>1. /\ l \in Launch /\ l \notin client.sent
      /\ client.orderly => client.view \in {"idle", "over"} /\ ~HasParked(World)
  BY DEF LaunchSucceeds, MayLaunch, Request
<1>2. /\ sent \in WorldShape /\ sent.s = session
      /\ sent.c.sent = client.sent \cup {l} /\ sent.c.orderly = client.orderly
      /\ sent.c.answers = client.answers /\ sent.c.view = "idle"
      /\ sent.c.surprised = client.surprised
  BY <1>1, WorldFields DEF Sent, WorldShape, ClientShape, Views
<1>3. /\ d \in Debuggee /\ d.launch = l /\ d # NoDebuggee
      /\ d.breakpoints = session.requested_breakpoints
      /\ ~d.crashed /\ ~d.started /\ ~d.plain /\ ~d.revived
  <2>1. session.requested_breakpoints \in Ids
    BY WorldFields DEF SessionShape
  <2>2. /\ d.launch = l /\ d.breakpoints = session.requested_breakpoints
        /\ d \in Debuggee
    BY <1>1, <2>1 DEF NoDebuggee, Debuggee, Ids
  <2>3. d # NoDebuggee
    <3> HIDE DEF d
    <3>1. NoDebuggee.launch = None /\ l # None
      BY <1>1, NoneAssumption DEF NoDebuggee
    <3> QED  BY <2>2, <3>1
  <2>4. ~d.crashed /\ ~d.started /\ ~d.plain /\ ~d.revived
    BY DEF NoDebuggee
  <2> QED  BY <2>2, <2>3, <2>4
<1>4. /\ w \in WorldShape /\ w.c = sent.c /\ w.s.debuggee = d
      /\ w.s.configured = session.configured
      /\ w.s.pending_launch = session.pending_launch
      /\ w.s.requested_breakpoints = session.requested_breakpoints
      /\ w.s.next_breakpoint_id = session.next_breakpoint_id
  <2>1. w = [sent EXCEPT !.s.debuggee = d]
    BY <1>2 DEF Prepared
  <2> HIDE DEF d, sent, w
  <2> QED  BY <2>1, <1>2, <1>3 DEF WorldShape, SessionShape
<1>5. \A k \in Launch : client.answers[k] \in Nat
  BY WorldFields DEF ClientShape
<1>6. client.answers[l] = 0 /\ session.pending_launch.launch # l
  BY <1>1, WorldFields DEF AnsweredOnce
<1>7. client.orderly => ~client.surprised /\ session.pending_launch = NoRequest
  BY <1>1, WorldFields DEF InStep, HasParked
<1> HIDE DEF d, sent
<1>8. CASE session.configured
  <2> DEFINE a == Answered(w, l, TRUE)
  <2>1. PICK v \in Begin(a, request) : Becomes(v)
    BY <1>2, <1>8 DEF LaunchSucceeds, sent
  <2>2. /\ a \in WorldShape /\ a.s = w.s
        /\ a.c.orderly = client.orderly /\ a.c.sent = client.sent \cup {l}
        /\ a.c.view = "running" /\ a.c.surprised = client.surprised
        /\ \A k \in Launch : a.c.answers[k] =
             IF k = l THEN client.answers[k] + 1 ELSE client.answers[k]
    <3>1. a = Answered(w, l, TRUE)
      OBVIOUS
    <3> HIDE DEF a, w, l
    <3>2. /\ a \in WorldShape /\ a.s = w.s
          /\ a.c.orderly = w.c.orderly /\ a.c.sent = w.c.sent
          /\ a.c.view = "running" /\ a.c.surprised = w.c.surprised
          /\ \A k \in Launch : a.c.answers[k] = IF k = l THEN w.c.answers[k] + 1
                                                ELSE w.c.answers[k]
      BY <3>1, <1>1, <1>4, AcknowledgedFields
    <3>3. /\ w.c.orderly = client.orderly /\ w.c.sent = client.sent \cup {l}
          /\ w.c.surprised = client.surprised /\ w.c.answers = client.answers
      BY <1>2, <1>4
    <3> QED  BY <3>2, <3>3
  <2> HIDE DEF a, w
  <2>3. session.pending_launch = NoRequest
    BY <1>8, WorldFields DEF Parked
  <2>4. HasProgram(a) /\ ~HasParked(a)
    BY <2>2, <2>3, <1>3, <1>4 DEF HasProgram, HasParked
  <2>5. AnsweredOnce(a.s, a.c)
    BY <2>2, <1>4, <1>5, <1>6, WorldFields DEF AnsweredOnce
  <2>6. Good(v)
    <3>1. /\ a.s.configured /\ a.s.debuggee.breakpoints = a.s.requested_breakpoints
          /\ a.c.orderly => /\ ~a.s.debuggee.revived /\ ~a.s.debuggee.crashed
                            /\ ~a.c.surprised /\ a.c.view = "running"
      BY <2>2, <1>3, <1>4, <1>7, <1>8
    <3> QED  BY <3>1, <2>1, <2>2, <2>4, <2>5, BeginGood
  <2> QED  BY <2>1, <2>6, BecomesKeeps
<1>9. CASE ~session.configured
  <2> DEFINE v == [w EXCEPT !.s.pending_launch = request]
  <2>1. Becomes(v)
    BY <1>2, <1>9 DEF LaunchSucceeds, sent
  <2> HIDE DEF w
  <2>2. /\ v \in WorldShape /\ v.c = sent.c /\ v.s.debuggee = d
        /\ v.s.configured = session.configured
        /\ v.s.pending_launch = request
        /\ v.s.requested_breakpoints = session.requested_breakpoints
    BY <1>4 DEF WorldShape, SessionShape
  <2>3. v.s.pending_launch # NoRequest /\ v.s.pending_launch.launch = l
    BY <2>2, <1>1, NoneAssumption DEF NoRequest
  <2> HIDE DEF v
  <2>4. Installed(v.s) /\ Parked(v.s)
    BY <2>2, <2>3, <1>3, <1>9 DEF Installed, Parked
  <2>5. AnsweredOnce(v.s, v.c)
    <3>1. ASSUME NEW k \in Launch, k # l, k \in client.sent
          PROVE  /\ client.answers[k] <= 1
                 /\ client.orderly => client.answers[k] = 1
      <4>1. client.orderly => session.pending_launch.launch # k
        BY <1>7, NoneAssumption DEF NoRequest
      <4> QED  BY <3>1, <4>1, <1>5, WorldFields DEF AnsweredOnce
    <3>2. ASSUME NEW k \in Launch, k # l, k \notin client.sent
          PROVE  client.answers[k] = 0
      BY <3>2, WorldFields DEF AnsweredOnce
    <3> QED  BY <3>1, <3>2, <2>2, <2>3, <1>2, <1>6 DEF AnsweredOnce
  <2>6. InStep(v.s, v.c)
    BY <2>2, <2>3, <1>2, <1>3, <1>7 DEF InStep
  <2>7. Good(v)
    BY <2>2, <2>4, <2>5, <2>6 DEF Good
  <2> QED  BY <2>1, <2>7, BecomesKeeps
<1> QED  BY <1>8, <1>9

LEMMA ConfigurationDoneKeeps ==
  ASSUME IInv, ConfigurationDone
  PROVE  IInv'
<1> DEFINE w == [World EXCEPT !.s.configured = TRUE,
                              !.s.pending_launch = NoRequest]
           request == session.pending_launch
           l == request.launch
<1>1. /\ w \in WorldShape /\ w.c = client
      /\ w.s.configured = TRUE /\ w.s.pending_launch = NoRequest
      /\ w.s.debuggee = session.debuggee
      /\ w.s.requested_breakpoints = session.requested_breakpoints
  BY WorldFields DEF WorldShape, SessionShape
<1>2. CASE HasParked(World)
  <2> DEFINE a == Answered(w, l, TRUE)
  <2>1. PICK v \in Begin(a, request) : Becomes(v)
    BY <1>2 DEF ConfigurationDone
  <2> HIDE DEF w
  <2>2. request \in Request /\ l \in Launch
    BY <1>2, WorldFields, Named DEF HasParked, Request
  <2>3. /\ a \in WorldShape /\ a.s = w.s
        /\ a.c.orderly = w.c.orderly /\ a.c.sent = w.c.sent
        /\ a.c.view = "running" /\ a.c.surprised = w.c.surprised
        /\ \A k \in Launch : a.c.answers[k] = IF k = l THEN w.c.answers[k] + 1
                                              ELSE w.c.answers[k]
    <3>1. a = Answered(w, l, TRUE)
      OBVIOUS
    <3>2. w \in WorldShape /\ l \in Launch
      BY <2>2, <1>1
    <3> HIDE DEF a, l
    <3> QED  BY <3>1, <3>2, AcknowledgedFields
  <2> HIDE DEF a
  <2>4. /\ session.debuggee.launch = l /\ ~session.debuggee.plain
        /\ session.debuggee # NoDebuggee
    <3>1. session.debuggee.launch = l /\ ~session.debuggee.plain
      BY <1>2, WorldFields DEF Parked, HasParked
    <3>2. NoDebuggee.launch # l
      BY <2>2, NoneAssumption DEF NoDebuggee
    <3> QED  BY <3>1, <3>2
  <2>5. HasProgram(a) /\ ~HasParked(a)
    BY <2>3, <2>4, <1>1 DEF HasProgram, HasParked
  <2>6. a.s.configured /\ a.s.debuggee.breakpoints = a.s.requested_breakpoints
    BY <2>3, <2>4, <1>1, WorldFields DEF Installed
  <2>7. a.c.orderly => /\ ~a.s.debuggee.revived /\ ~a.s.debuggee.crashed
                       /\ ~a.c.surprised /\ a.c.view = "running"
    BY <2>3, <1>1, <1>2, WorldFields DEF InStep, HasParked
  <2>8. AnsweredOnce(a.s, a.c)
    <3>1. \A k \in Launch : client.answers[k] \in Nat /\ NoRequest.launch # k
      BY WorldFields, NoneAssumption DEF ClientShape, NoRequest
    <3> QED  BY <3>1, <2>2, <2>3, <1>1, WorldFields DEF AnsweredOnce
  <2>9. Good(v)
    BY <2>1, <2>2, <2>3, <2>5, <2>6, <2>7, <2>8, BeginGood
  <2> QED  BY <2>1, <2>9, BecomesKeeps
<1>3. CASE ~HasParked(World)
  <2>1. Becomes(w) /\ session.pending_launch = NoRequest
    BY <1>3, WorldFields DEF ConfigurationDone, HasParked
  <2> HIDE DEF w
  <2>2. Installed(w.s) /\ Parked(w.s)
    BY <1>1, WorldFields DEF Installed, Parked
  <2>3. AnsweredOnce(w.s, w.c)
    BY <2>1, <1>1, WorldFields DEF AnsweredOnce
  <2>4. InStep(w.s, w.c)
    BY <2>1, <1>1, WorldFields DEF InStep
  <2>5. Good(w)
    BY <2>2, <2>3, <2>4, <1>1 DEF Good
  <2> QED  BY <2>1, <2>5, BecomesKeeps
<1> QED  BY <1>2, <1>3

LEMMA SetBreakpointsKeeps ==
  ASSUME IInv, SetBreakpoints
  PROVE  IInv'
<1>1. session.next_breakpoint_id \in 0 .. MaxIds
  BY WorldFields DEF SessionShape
<1>2. PICK n \in 0 .. MaxIds - session.next_breakpoint_id :
        LET top == session.next_breakpoint_id + n
        IN  \E accepted \in SUBSET (session.next_breakpoint_id + 1 .. top) :
              Becomes([World EXCEPT
                !.s.next_breakpoint_id = top,
                !.s.requested_breakpoints = accepted,
                !.s.debuggee.breakpoints =
                  IF HasProgram(World) THEN accepted ELSE @])
  BY DEF SetBreakpoints
<1> DEFINE top == session.next_breakpoint_id + n
<1>3. PICK accepted \in SUBSET (session.next_breakpoint_id + 1 .. top) :
        Becomes([World EXCEPT
          !.s.next_breakpoint_id = top,
          !.s.requested_breakpoints = accepted,
          !.s.debuggee.breakpoints =
            IF HasProgram(World) THEN accepted ELSE @])
  BY <1>2
<1>4. top \in 0 .. MaxIds /\ accepted \in Ids
  BY <1>1, BoundAssumption DEF Ids
<1> HIDE DEF top
<1> DEFINE now == IF HasProgram(World) THEN accepted
                  ELSE session.debuggee.breakpoints
           d == [session.debuggee EXCEPT !.breakpoints = now]
           v == [World EXCEPT !.s.next_breakpoint_id = top,
                              !.s.requested_breakpoints = accepted,
                              !.s.debuggee = d]
<1>5. Becomes(v)
  <2>1. v = [World EXCEPT
               !.s.next_breakpoint_id = top,
               !.s.requested_breakpoints = accepted,
               !.s.debuggee.breakpoints =
                 IF HasProgram(World) THEN accepted ELSE @]
    BY WorldFields DEF WorldShape, SessionShape
  <2> QED  BY <2>1, <1>3
<1>6. /\ d \in Debuggee \cup {NoDebuggee}
      /\ d.launch = session.debuggee.launch /\ d.plain = session.debuggee.plain
      /\ d.crashed = session.debuggee.crashed /\ d.started = session.debuggee.started
      /\ d.revived = session.debuggee.revived
      /\ session.debuggee # NoDebuggee => d.breakpoints = accepted
      /\ d = NoDebuggee <=> session.debuggee = NoDebuggee
  <2>1. CASE session.debuggee = NoDebuggee
    BY <2>1, WorldFields DEF HasProgram, NoDebuggee
  <2>2. CASE session.debuggee # NoDebuggee
    <3>1. session.debuggee \in Debuggee /\ now = accepted
      BY <2>2, WorldFields, Named DEF HasProgram
    <3> HIDE DEF now
    <3>2. /\ d \in Debuggee
          /\ d.launch = session.debuggee.launch /\ d.plain = session.debuggee.plain
          /\ d.crashed = session.debuggee.crashed /\ d.started = session.debuggee.started
          /\ d.revived = session.debuggee.revived /\ d.breakpoints = accepted
      BY <3>1, <1>4 DEF Debuggee, Ids
    <3> HIDE DEF d
    <3>3. d # NoDebuggee
      BY <3>2, NoneAssumption DEF Debuggee, NoDebuggee
    <3> QED  BY <2>2, <3>2, <3>3
  <2> QED  BY <2>1, <2>2
<1> HIDE DEF d, now
<1>7. /\ v \in WorldShape /\ v.c = client /\ v.s.debuggee = d
      /\ v.s.configured = session.configured
      /\ v.s.pending_launch = session.pending_launch
      /\ v.s.requested_breakpoints = accepted
  BY <1>4, <1>6, WorldFields DEF WorldShape, SessionShape
<1> HIDE DEF v
<1>8. Installed(v.s) /\ Parked(v.s) /\ AnsweredOnce(v.s, v.c) /\ InStep(v.s, v.c)
  <2>1. Installed(v.s)
    BY <1>6, <1>7, WorldFields DEF Installed
  <2>2. Parked(v.s)
    BY <1>6, <1>7, WorldFields DEF Parked
  <2>3. AnsweredOnce(v.s, v.c)
    BY <1>7, WorldFields DEF AnsweredOnce
  <2>4. InStep(v.s, v.c)
    BY <1>6, <1>7, WorldFields DEF InStep
  <2> QED  BY <2>1, <2>2, <2>3, <2>4
<1>9. Good(v)
  BY <1>7, <1>8 DEF Good
<1> QED  BY <1>5, <1>9, BecomesKeeps

LEMMA NextKeeps ==
  ASSUME IInv, [Next]_vars
  PROVE  IInv'
<1>1. ASSUME NEW l \in Launch, LaunchFails(l) PROVE IInv'
  BY <1>1, LaunchFailsKeeps
<1>2. ASSUME NEW request \in Request, LaunchSucceeds(request) PROVE IInv'
  BY <1>2, LaunchSucceedsKeeps
<1>3. CASE ConfigurationDone
  BY <1>3, ConfigurationDoneKeeps
<1>4. CASE SetBreakpoints
  BY <1>4, SetBreakpointsKeeps
<1>5. ASSUME NEW steps \in BOOLEAN, Drive(steps) PROVE IInv'
  BY <1>5, DriveKeeps
<1>6. CASE Terminate
  BY <1>6, TerminateKeeps
<1>7. CASE Disconnect \/ UNCHANGED vars
  <2>1. World' = World /\ open' \in BOOLEAN
    BY <1>7 DEF Disconnect, vars, World, IInv
  <2> QED  BY <2>1 DEF IInv
<1> QED  BY <1>1, <1>2, <1>3, <1>4, <1>5, <1>6, <1>7 DEF Next

LEMMA Inductive == Spec => []IInv
<1>1. IInv /\ [Next]_vars => IInv'
  BY NextKeeps
<1> QED  BY InitEstablishes, <1>1, PTL DEF Spec
-----------------------------------------------------------------------------
(* The theorems.                                                            *)

\* The session and its client keep their types.
THEOREM TypeCorrect == Spec => []TypeOK
<1>1. IInv => TypeOK
  BY DEF IInv, Good, TypeOK
<1> QED  BY Inductive, <1>1, PTL

\* Whatever comes first, the program or its breakpoints, and however often
\* either is replaced, what is installed is what was asked for last.
THEOREM Transferred == Spec => []BreakpointsTransferred
<1>1. IInv => BreakpointsTransferred
  BY WorldFields DEF Installed, BreakpointsTransferred, HasProgram
<1> QED  BY Inductive, <1>1, PTL

\* A noDebug program is never found paused: it has crashed or is gone.
THEOREM NoDebugRuns == Spec => []NoDebugNeverPauses
<1>1. IInv => NoDebugNeverPauses
  BY WorldFields DEF Installed, NoDebugNeverPauses
<1> QED  BY Inductive, <1>1, PTL

\* Each launch is answered at most once by anyone's session, exactly once by
\* an orderly client's when it is no longer parked, and a parked launch is
\* the one whose program is there.
THEOREM EachLaunchAnswered == Spec => []LaunchesAnswered
<1>1. IInv => LaunchesAnswered
  <2> SUFFICES ASSUME IInv PROVE LaunchesAnswered
    OBVIOUS
  <2>1. client.sent \subseteq Launch
    BY WorldFields DEF ClientShape
  <2> QED  BY <2>1, WorldFields DEF AnsweredOnce, Parked, LaunchesAnswered, HasParked
<1> QED  BY Inductive, <1>1, PTL

\* An orderly client's program starts after configurationDone and is not
\* resumed once it has crashed.
THEOREM StartAndEnd == Spec => []StartsAndEndsOnce
<1>1. IInv => StartsAndEndsOnce
  BY WorldFields DEF InStep, StartsAndEndsOnce
<1> QED  BY Inductive, <1>1, PTL

\* An orderly client hears nothing about a program it does not know of, one
\* end of each, and agrees with the session on whether there is a program.
THEOREM ClientHears == Spec => []ClientIsTold
<1>1. IInv => ClientIsTold
  <2>1. IInv => NoSurprises
    BY WorldFields DEF InStep, NoSurprises
  <2>2. IInv => ClientKnows
    BY WorldFields DEF InStep, ClientKnows, HasProgram, HasParked
  <2> QED  BY <2>1, <2>2 DEF ClientIsTold
<1> QED  BY Inductive, <1>1, PTL
=============================================================================
