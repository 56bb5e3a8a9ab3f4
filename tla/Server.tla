------------------------------- MODULE Server -------------------------------
(***************************************************************************)
(* The language server, crates/must-lsp/src/lib.rs and pool.rs: a main     *)
(* loop that owns the documents, a queue of tasks each holding a snapshot  *)
(* of the database, a fixed pool of workers, and the publish generations   *)
(* that keep a late task from reaching a document that has moved on.       *)
(*                                                                         *)
(* A text is the number of the edit that brought it.  The salsa setter     *)
(* marks every snapshot alive as edited under (its queries may unwind) and, *)
(* with SetterWaits, does not write before all of them are dropped.  What  *)
(* the analysis computes, params that do not parse, the refresh nudge and  *)
(* the capabilities are left out.                                          *)
(***************************************************************************)
EXTENDS Naturals, Sequences, FiniteSets

CONSTANTS
  Uri,          \* the documents the client names
  Id,           \* the request ids it uses, each once
  Worker,       \* the threads of the pool (WORKER_THREADS)
  SetterWaits,  \* whether salsa's setter waits for the snapshots to drop
  MayHang,      \* whether a program started by must.run may loop for ever
  MaxStamps     \* bound on opens and edits in one session

ASSUME BooleanAssumption == SetterWaits \in BOOLEAN /\ MayHang \in BOOLEAN
ASSUME MaxStampsAssumption == MaxStamps \in Nat
ASSUME FiniteAssumption == IsFiniteSet(Uri)
ASSUME IdAssumption == "none" \notin Id

VARIABLES
  by_uri,      \* uri -> [state, file]: FileMaps::by_uri
  by_file,     \* FileMaps::by_file, input -> uri, in minting order
  text,        \* the salsa inputs' texts, by input
  diagnostics_generation,  \* uri -> generation, on the documents that have one
  next_generation,
  main,        \* where the main loop is, and in which document
  queue,       \* the pool's channel
  working,     \* worker -> what it is at
  answers,     \* id -> the responses sent for it, <<>> before the request
  asked,       \* the ids requested so far
  shown,       \* uri -> text whose diagnostics were last sent
  edits,       \* the texts the client has sent so far
  stamped,     \* history: uri -> text its latest publish was stamped for
  missed       \* history: uri -> why its latest publish will never be sent

files  == <<by_uri, by_file, text>>
stamps == <<diagnostics_generation, next_generation, stamped>>
pool   == <<queue, working>>
client == <<answers, asked, shown, edits>>
vars   == <<files, stamps, pool, client, main, missed>>

FileState == {"Unknown", "Open", "Closed"}
NoFile == 0
Empty == 0            \* the text of a closed document, and of a clearing
Kind == {"query", "tokens", "run"}
Response == {"ok", "content_modified", "internal_error", "bad_request"}

\* A task and the snapshot it took: the document's state and text at that
\* instant, and the documents whose inputs were set since.
Task == [kind : Kind \cup {"diagnostics"}, uri : Uri, id : Id \cup {"none"},
         generation : Nat, text : Nat, edited_since : SUBSET Uri]
Outcome == {"computing", "hung", "ok", "cancelled", "panicked"}

NoTask == [kind |-> "none", uri |-> "none", id |-> "none",
           generation |-> 0, text |-> 0, edited_since |-> {}]
Free == [task |-> NoTask, outcome |-> "idle"]
Busy(w) == working[w].outcome # "idle"
InQueue == {queue[i] : i \in DOMAIN queue}
Alive == (InQueue \cup {working[w].task : w \in Worker}) \ {NoTask}

Rest == [at |-> "idle", uri |-> "none", to |-> "none"]
Idle == main = Rest
Goto(place) == main' = [main EXCEPT !.at = place]
-----------------------------------------------------------------------------
Init ==
  /\ by_uri = [u \in Uri |-> [state |-> "Unknown", file |-> NoFile]]
  /\ by_file = <<>>
  /\ text = <<>>
  /\ diagnostics_generation = [u \in {} |-> 0]
  /\ next_generation = 0
  /\ main = Rest
  /\ queue = <<>>
  /\ working = [w \in Worker |-> Free]
  /\ answers = [i \in Id |-> <<>>]
  /\ asked = {}
  /\ shown = [u \in Uri |-> Empty]
  /\ edits = 0
  /\ stamped = [u \in Uri |-> Empty]
  /\ missed = [u \in Uri |-> "no"]
-----------------------------------------------------------------------------
(* The main loop.  A notification is handled in the steps another thread    *)
(* can tell apart: set the input, stamp or retire the generation, spawn the *)
(* task or send the clearing.                                               *)

\* salsa's cancellation: every snapshot alive notes that `u` is being set.
Edited(task, u) == [task EXCEPT !.edited_since = @ \cup {u}]

BeginSet(u, to) ==
  /\ main' = [at |-> "set", uri |-> u, to |-> to]
  /\ queue' = [i \in DOMAIN queue |-> Edited(queue[i], u)]
  /\ working' = [w \in Worker |->
       IF Busy(w) THEN [working[w] EXCEPT !.task = Edited(@, u)] ELSE Free]

\* Minting an input sets nothing: no snapshot is cancelled and none waited for.
Minted(u) ==
  /\ by_uri' = [by_uri EXCEPT ![u] = [state |-> "Open", file |-> Len(text) + 1]]
  /\ by_file' = Append(by_file, u)
  /\ text' = Append(text, edits + 1)

\* Mutant: a reopen mints a new input instead of reviving the parked one.
DidOpenMinting(u) ==
  /\ Idle
  /\ edits < MaxStamps
  /\ edits' = edits + 1
  /\ IF by_uri[u].state # "Open"
       THEN /\ Minted(u)
            /\ main' = [at |-> "stamp", uri |-> u, to |-> "Open"]
            /\ UNCHANGED pool
       ELSE BeginSet(u, "Open") /\ UNCHANGED files
  /\ UNCHANGED <<stamps, answers, asked, shown, missed>>

\* didOpen: mint on the first, revive the parked input (or, against the
\* protocol, reset the open one) on the others.
DidOpen(u) ==
  /\ Idle
  /\ edits < MaxStamps
  /\ edits' = edits + 1
  /\ IF by_uri[u].state = "Unknown"
       THEN /\ Minted(u)
            /\ main' = [at |-> "stamp", uri |-> u, to |-> "Open"]
            /\ UNCHANGED pool
       ELSE BeginSet(u, "Open") /\ UNCHANGED files
  /\ UNCHANGED <<stamps, answers, asked, shown, missed>>

\* didChange, ignored for a document that is not open.
DidChange(u) ==
  /\ Idle
  /\ by_uri[u].state = "Open"
  /\ edits < MaxStamps
  /\ edits' = edits + 1
  /\ BeginSet(u, "Open")
  /\ UNCHANGED <<files, stamps, answers, asked, shown, missed>>

\* didClose: an open document is emptied first; one closed already is only
\* cleared again; an unknown one is none of the server's business.
DidClose(u) ==
  /\ Idle
  /\ \/ by_uri[u].state = "Open" /\ BeginSet(u, "Closed")
     \/ /\ by_uri[u].state = "Closed"
        /\ main' = [at |-> "retire", uri |-> u, to |-> "Closed"]
        /\ UNCHANGED pool
  /\ UNCHANGED <<files, stamps, client, missed>>

\* AnalysisHost::set_file_text returns, and the file maps are replaced.
SetText ==
  /\ main.at = "set"
  /\ SetterWaits => Alive = {}
  /\ text' = [text EXCEPT ![by_uri[main.uri].file] =
                 IF main.to = "Open" THEN edits ELSE Empty]
  /\ by_uri' = [by_uri EXCEPT ![main.uri].state = main.to]
  /\ Goto(IF main.to = "Open" THEN "stamp" ELSE "retire")
  /\ UNCHANGED <<by_file, stamps, pool, client, missed>>

\* bump_generation, under the lock.
BumpGeneration ==
  /\ main.at = "stamp"
  /\ next_generation' = next_generation + 1
  /\ diagnostics_generation' =
       [v \in DOMAIN diagnostics_generation \cup {main.uri} |->
          IF v = main.uri THEN next_generation' ELSE diagnostics_generation[v]]
  /\ stamped' = [stamped EXCEPT ![main.uri] = text[by_uri[main.uri].file]]
  /\ missed' = [missed EXCEPT ![main.uri] = "no"]
  /\ Goto("spawn")
  /\ UNCHANGED <<files, pool, client>>

\* A task holds what its snapshot saw of the document.
NewTask(kind, u, id, generation) ==
  [kind |-> kind, uri |-> u, id |-> id, generation |-> generation,
   text |-> IF by_uri[u].state = "Open" THEN text[by_uri[u].file] ELSE Empty,
   edited_since |-> {}]

\* The rest of publish_diagnostics: snapshot and hand the task to the pool.
PublishDiagnostics ==
  /\ main.at = "spawn"
  /\ queue' = Append(queue, NewTask("diagnostics", main.uri, "none", next_generation))
  /\ main' = Rest
  /\ UNCHANGED <<files, stamps, working, client, missed>>

\* Mutant: closing leaves the document's generation behind.
RetireNothing ==
  /\ main.at = "retire"
  /\ Goto("clear")
  /\ UNCHANGED <<files, stamps, pool, client, missed>>

\* retire_generation, under the lock.
RetireGeneration ==
  /\ main.at = "retire"
  /\ diagnostics_generation' =
       [v \in DOMAIN diagnostics_generation \ {main.uri} |-> diagnostics_generation[v]]
  /\ Goto("clear")
  /\ UNCHANGED <<files, next_generation, stamped, pool, client, missed>>

\* send_diagnostics with nothing in it.
ClearDiagnostics ==
  /\ main.at = "clear"
  /\ shown' = [shown EXCEPT ![main.uri] = Empty]
  /\ main' = Rest
  /\ UNCHANGED <<files, stamps, pool, answers, asked, edits, missed>>

Answered(id, response) == [answers EXCEPT ![id] = Append(@, response)]

\* dispatch_request: params or a method the server cannot read, and a tokens
\* pull that raced ahead of didOpen, are answered on the spot.
DispatchRequest(id, kind, u) ==
  /\ Idle
  /\ id \notin asked
  /\ asked' = asked \cup {id}
  /\ \/ /\ answers' = Answered(id, "bad_request")
        /\ UNCHANGED queue
     \/ /\ kind = "tokens" /\ by_uri[u].state # "Open"
        /\ answers' = Answered(id, "content_modified")
        /\ UNCHANGED queue
     \/ /\ kind = "tokens" => by_uri[u].state = "Open"
        /\ queue' = Append(queue, NewTask(kind, u, id, 0))
        /\ UNCHANGED answers
  /\ UNCHANGED <<files, stamps, working, main, shown, edits, missed>>

\* Shutdown and exit: the loop returns; what the pool still does is up to the
\* process that is ending.
Shutdown ==
  /\ Idle
  /\ main' = [Rest EXCEPT !.at = "stopped"]
  /\ UNCHANGED <<files, stamps, pool, client, missed>>
-----------------------------------------------------------------------------
(* The workers.                                                             *)

Take(w) ==
  /\ ~Busy(w)
  /\ queue # <<>>
  /\ working' = [working EXCEPT ![w] = [task |-> Head(queue), outcome |-> "computing"]]
  /\ queue' = Tail(queue)
  /\ UNCHANGED <<files, stamps, client, main, missed>>

\* What the closure under `cancellable` comes to.  Only a snapshot edited
\* under unwinds as cancelled, but it need not (it may be past its last query,
\* and must.run evaluates in a database of its own).
Outcomes(task) ==
  {"ok", "panicked"}
    \cup (IF task.edited_since = {} THEN {} ELSE {"cancelled"})
    \cup (IF MayHang /\ task.kind = "run" /\ task.text # Empty THEN {"hung"} ELSE {})

Compute(w) ==
  /\ working[w].outcome = "computing"
  /\ \E outcome \in Outcomes(working[w].task) :
       working' = [working EXCEPT ![w].outcome = outcome]
  /\ UNCHANGED <<files, stamps, queue, client, main, missed>>

ResponseTo(outcome) ==
  CASE outcome = "ok" -> "ok"
    [] outcome = "cancelled" -> "content_modified"
    [] OTHER -> "internal_error"

\* Mutant: a panic is left to the pool, which answers nothing.
RespondUnlessPanicked(task, outcome) ==
  /\ answers' = IF outcome = "panicked" THEN answers
                ELSE Answered(task.id, ResponseTo(outcome))
  /\ UNCHANGED <<shown, missed>>

\* One response per request, the panic caught around the handler included.
Respond(task, outcome) ==
  /\ answers' = Answered(task.id, ResponseTo(outcome))
  /\ UNCHANGED <<shown, missed>>

\* Mutant: only the newest publish of the whole session is current.
NewestOfAll(task) ==
  /\ task.uri \in DOMAIN diagnostics_generation
  /\ task.generation = next_generation

\* Mutant: any open document will do.
StillOpen(task) == task.uri \in DOMAIN diagnostics_generation

Current(task) ==
  /\ task.uri \in DOMAIN diagnostics_generation
  /\ diagnostics_generation[task.uri] = task.generation

Why(task, outcome) ==
  CASE outcome = "panicked" -> "panic"
    [] task.edited_since \ {task.uri} # {} -> "other edit"
    [] OTHER -> "own edit"

\* The end of a diagnostics task: the check and the send are one critical
\* section; a cancelled one returns before it, a panic dies in the pool.
SendIfCurrent(task, outcome) ==
  /\ shown' = IF outcome = "ok" /\ Current(task)
                THEN [shown EXCEPT ![task.uri] = task.text] ELSE shown
  /\ missed' = IF outcome # "ok" /\ Current(task)
                 THEN [missed EXCEPT ![task.uri] = Why(task, outcome)] ELSE missed
  /\ UNCHANGED answers

\* Mutant: a panic takes the worker with it.
FinishOrDie(w) ==
  LET task == working[w].task  outcome == working[w].outcome
  IN  /\ outcome \in {"ok", "cancelled", "panicked"}
      /\ IF task.kind = "diagnostics" THEN SendIfCurrent(task, outcome)
                                       ELSE Respond(task, outcome)
      /\ working' = [working EXCEPT ![w] =
           IF outcome = "panicked" THEN [Free EXCEPT !.outcome = "dead"] ELSE Free]
      /\ UNCHANGED <<files, stamps, queue, asked, edits, main>>

\* The task ends, its snapshot drops, and the worker lives on.
Finish(w) ==
  LET task == working[w].task  outcome == working[w].outcome
  IN  /\ outcome \in {"ok", "cancelled", "panicked"}
      /\ IF task.kind = "diagnostics" THEN SendIfCurrent(task, outcome)
                                       ELSE Respond(task, outcome)
      /\ working' = [working EXCEPT ![w] = Free]
      /\ UNCHANGED <<files, stamps, queue, asked, edits, main>>

MainStep ==
  \/ SetText \/ BumpGeneration \/ PublishDiagnostics
  \/ RetireGeneration \/ ClearDiagnostics

WorkerStep(w) == Take(w) \/ Compute(w) \/ Finish(w)

Client ==
  \/ \E u \in Uri : DidOpen(u) \/ DidChange(u) \/ DidClose(u)
  \/ \E id \in Id, kind \in Kind, u \in Uri : DispatchRequest(id, kind, u)
  \/ Shutdown

Next == Client \/ MainStep \/ \E w \in Worker : WorkerStep(w)

Spec == Init /\ [][Next]_vars

\* The scheduler runs the main loop and every worker; the client owes nothing.
Fairness == WF_vars(MainStep) /\ \A w \in Worker : WF_vars(WorkerStep(w))

FairSpec == Spec /\ Fairness
-----------------------------------------------------------------------------
(* Properties.                                                              *)

\* "Memory grows with distinct documents, not with open events": every
\* document the client has named has one input, the same through any number
\* of closes and reopens; the reverse map says the same; and between two
\* messages a closed document's input is empty and an open one's is not.
OneInputPerDocument ==
  /\ \A u \in Uri :
       IF by_uri[u].state = "Unknown"
         THEN by_uri[u].file = NoFile
         ELSE by_uri[u].file \in DOMAIN by_file /\ by_file[by_uri[u].file] = u
  /\ Len(by_file) = Cardinality({u \in Uri : by_uri[u].state # "Unknown"})
  /\ Len(text) = Len(by_file)
  /\ Idle => \A u \in Uri :
       /\ by_uri[u].state = "Closed" => text[by_uri[u].file] = Empty
       /\ by_uri[u].state = "Open" => text[by_uri[u].file] # Empty

\* The generation map is bounded by the open documents: between two messages
\* it has an entry for each of them and for no other.
GenerationsAreOpenDocuments ==
  Idle => DOMAIN diagnostics_generation = {u \in Uri : by_uri[u].state = "Open"}

\* Documents, inputs and generations stay in step, whatever is opened twice,
\* closed twice or changed while closed; a generation in use was issued.
DocumentsInStep ==
  /\ OneInputPerDocument
  /\ GenerationsAreOpenDocuments
  /\ \A u \in DOMAIN diagnostics_generation :
       diagnostics_generation[u] \in 1..next_generation

Pending(u) == \E task \in Alive : task.kind = "diagnostics" /\ Current(task)
                                  /\ task.uri = u

\* No result is lost silently: between two messages an open document shows
\* the diagnostics of its own text, or they are on their way, or they will
\* never come because an edit to ANOTHER document cancelled them or because
\* computing them panicked -- the two cases publish_diagnostics accepts.
NoDiagnosticsLost ==
  Idle => \A u \in Uri : by_uri[u].state = "Open" =>
    \/ shown[u] = text[by_uri[u].file]
    \/ Pending(u)
    \/ missed[u] \in {"panic", "other edit"}

\* Every request id gets exactly one response: none before the answer is
\* owed, one task that owes it from then on, and nothing after it, whatever
\* panics or is cancelled in between.
OneResponsePerRequest ==
  \A id \in Id :
    LET owing == {i \in DOMAIN queue : queue[i].id = id}
        at    == {w \in Worker : Busy(w) /\ working[w].task.id = id}
    IN  Len(answers[id]) + Cardinality(owing) + Cardinality(at)
          = IF id \in asked THEN 1 ELSE 0

\* What the client is shown of each document follows DiagnosticsFeed: the
\* latest text's result or a clearing, never a result that was overtaken by
\* an edit or by a close and reopen while a worker held it.
Feed == INSTANCE DiagnosticsFeed WITH
          latest <- [u \in DOMAIN diagnostics_generation |-> stamped[u]],
          shown  <- shown
ImplementsFeed == Feed!Spec

Stopped == main.at = "stopped"

\* A worker at a program that never ends.
Hung(w) == working[w].outcome = "hung"

\* Every request is answered, unless the server is told to stop, the request
\* runs a program that never ends, or such programs have every worker
\* (WORKER_THREADS, "one slow request does not hold up the next").
RequestsAnswered ==
  \A id \in Id :
    (id \in asked) ~> (\/ answers[id] # <<>>
                       \/ Stopped
                       \/ \E w \in Worker : Hung(w) /\ working[w].task.id = id
                       \/ \A w \in Worker : Hung(w))

\* The one thing that stops the main loop for good: setting an input waits for
\* the snapshot of a program that never ends.
HeldUp == main.at = "set" /\ \E w \in Worker : Hung(w)

\* The main loop comes back for the next message, or a program that never ends
\* holds it up (set_file_text; the pool catches what panics).
MainLoopKeepsGoing == []<>(Idle \/ Stopped \/ HeldUp)

\* Once the client stops typing in a document, it ends up showing that
\* document's diagnostics, or they were missed as NoDiagnosticsLost allows, or
\* a program that never ends holds the main loop, or every worker.
DiagnosticsSettle ==
  \A u \in Uri :
    []<>(\/ Stopped
         \/ by_uri[u].state # "Open"
         \/ shown[u] = text[by_uri[u].file]
         \/ missed[u] \in {"panic", "other edit"}
         \/ HeldUp
         \/ \A w \in Worker : Hung(w))
=============================================================================
