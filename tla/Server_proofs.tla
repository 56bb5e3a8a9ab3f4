---------------------------- MODULE Server_proofs ----------------------------
(***************************************************************************)
(* Proofs about the language server, for any documents, requests, workers   *)
(* and number of edits, and for both contracts of the setter: the files,    *)
(* inputs and generations stay in step, each request is answered once, what  *)
(* the client is shown follows DiagnosticsFeed, and nothing is lost without *)
(* a reason.                                                               *)
(*                                                                         *)
(* None of the four is inductive: the main loop changes files and           *)
(* generations in two steps, a task keeps what it saw for as long as it     *)
(* lives, counting the holders of a request says nothing of which, and a    *)
(* task that its own document's edit cancels is excused only by the text    *)
(* that is then on its way in.                                             *)
(***************************************************************************)
EXTENDS Server, FiniteSetTheorems, SequenceTheorems, TLAPS

Places == {"idle", "stopped", "set", "stamp", "spawn", "retire", "clear"}

\* The tasks there are: diagnostics owe no answer, the others owe one.
Tasks == {task \in Task : task.kind = "diagnostics" <=> task.id = "none"}
Working == [task : Tasks, outcome : Outcome] \cup {Free}

MainInv(m) ==
  /\ m \in [at : Places, uri : Uri \cup {"none"}, to : {"Open", "Closed", "none"}]
  /\ m.at \notin {"idle", "stopped"} => m.uri \in Uri
  /\ m.at = "set" => m.to # "none"

TypeInv ==
  /\ by_uri \in [Uri -> [state : FileState, file : Nat]]
  /\ by_file \in Seq(Uri)
  /\ text \in Seq(Nat)
  /\ DOMAIN diagnostics_generation \subseteq Uri
  /\ \A u \in DOMAIN diagnostics_generation :
       diagnostics_generation[u] \in 1..next_generation
  /\ diagnostics_generation = [u \in DOMAIN diagnostics_generation |-> diagnostics_generation[u]]
  /\ next_generation \in Nat
  /\ MainInv(main)
  /\ queue \in Seq(Tasks)
  /\ working \in [Worker -> Working]
  /\ answers \in [Id -> Seq(Response)]
  /\ asked \in SUBSET Id
  /\ shown \in [Uri -> Nat]
  /\ stamped \in [Uri -> Nat]
  /\ edits \in Nat /\ edits <= MaxStamps

FileOf(u) == by_uri[u].file
State(u) == by_uri[u].state

\* The documents and what the main loop is doing to one of them.
DocInv ==
  /\ \A u \in Uri : IF State(u) = "Unknown" THEN FileOf(u) = NoFile
                    ELSE FileOf(u) \in 1..Len(by_file) /\ by_file[FileOf(u)] = u
  /\ Len(by_file) = Cardinality({u \in Uri : State(u) # "Unknown"})
  /\ Len(text) = Len(by_file)
  /\ \A u \in Uri : /\ State(u) = "Closed" => text[FileOf(u)] = Empty
                    /\ State(u) = "Open" => text[FileOf(u)] # Empty
  /\ \A u \in Uri : \/ main.at \in {"stamp", "retire"} /\ u = main.uri
                    \/ u \in DOMAIN diagnostics_generation <=> State(u) = "Open"
  /\ main.at \in {"stamp", "spawn"} => State(main.uri) = "Open"
  /\ main.at \in {"retire", "clear"} => State(main.uri) = "Closed"
  /\ main.at = "set" => State(main.uri) # "Unknown"

\* A result that would be sent is of the text stamped last.
Fresh(task, generations, newest, st) ==
  task.kind = "diagnostics" =>
    /\ task.generation <= newest
    /\ task.uri \in DOMAIN generations /\ generations[task.uri] = task.generation
         => task.text = st[task.uri]
TasksFresh ==
  /\ \A i \in 1..Len(queue) :
       Fresh(queue[i], diagnostics_generation, next_generation, stamped)
  /\ \A w \in Worker :
       Fresh(working[w].task, diagnostics_generation, next_generation, stamped)

Bringing == main.at = "stamp" \/ (main.at = "set" /\ main.to = "Open")

FeedInv ==
  /\ \A u \in Uri : stamped[u] <= edits /\ shown[u] <= edits
  /\ Bringing => edits > 0 /\ \A u \in Uri : stamped[u] < edits /\ shown[u] < edits
  /\ main.at = "stamp" => text[FileOf(main.uri)] = edits
  /\ main.at = "spawn" => /\ diagnostics_generation[main.uri] = next_generation
                          /\ text[FileOf(main.uri)] = stamped[main.uri]
  /\ TasksFresh

\* Where the one answer of a request is: not asked for, given, or owed by the
\* task at one place of the queue or in the hands of one worker.
QueuedAt(q, id) == {i \in 1..Len(q) : q[i].id = id}
HeldBy(work, id) == {w \in Worker : work[w].outcome # "idle" /\ work[w].task.id = id}
Once(given, wanted, at, by) ==
  \/ ~wanted /\ given = <<>> /\ at = {} /\ by = {}
  \/ wanted /\ Len(given) = 1 /\ at = {} /\ by = {}
  \/ wanted /\ given = <<>> /\ (\E i : at = {i}) /\ by = {}
  \/ wanted /\ given = <<>> /\ at = {} /\ (\E w : by = {w})
OnceInv ==
  \A id \in Id : Once(answers[id], id \in asked, QueuedAt(queue, id), HeldBy(working, id))

IInv == TypeInv /\ DocInv /\ FeedInv /\ OnceInv
-----------------------------------------------------------------------------
LEMMA EditedTask ==
  ASSUME NEW task \in Tasks, NEW u \in Uri
  PROVE  /\ Edited(task, u) \in Tasks
         /\ Edited(task, u).kind = task.kind /\ Edited(task, u).uri = task.uri
         /\ Edited(task, u).id = task.id /\ Edited(task, u).text = task.text
         /\ Edited(task, u).generation = task.generation
BY DEF Edited, Tasks, Task

LEMMA FreeWorker ==
  /\ NoTask.kind = "none" /\ Free.task = NoTask /\ Free.outcome = "idle"
  /\ Free \in Working
BY DEF NoTask, Free, Working

LEMMA BusyWorker ==
  ASSUME TypeInv, NEW w \in Worker
  PROVE  IF Busy(w) THEN working[w] \in [task : Tasks, outcome : Outcome]
                    ELSE working[w] = Free
BY FreeWorker DEF TypeInv, MainInv, Working, Busy, Outcome

\* Marking the snapshots changes no task the properties can tell apart.
LEMMA Marking ==
  ASSUME TypeInv, NEW u \in Uri, NEW to \in {"Open", "Closed"}, BeginSet(u, to)
  PROVE  /\ queue' \in Seq(Tasks) /\ Len(queue') = Len(queue)
         /\ \A i \in 1..Len(queue) : queue'[i] = Edited(queue[i], u)
         /\ working' \in [Worker -> Working]
         /\ \A w \in Worker : IF Busy(w) THEN /\ working'[w].outcome = working[w].outcome
                                              /\ working'[w].task = Edited(working[w].task, u)
                                         ELSE working'[w] = working[w]
<1>1. queue \in Seq(Tasks) /\ DOMAIN queue = 1..Len(queue) /\ Len(queue) \in Nat
  BY DEF TypeInv, MainInv
<1>2. queue' = [i \in 1..Len(queue) |-> Edited(queue[i], u)]
  BY <1>1 DEF BeginSet
<1>3. \A i \in 1..Len(queue) : Edited(queue[i], u) \in Tasks
  BY <1>1, EditedTask
<1>4. queue' \in Seq(Tasks) /\ Len(queue') = Len(queue)
  BY <1>1, <1>2, <1>3
<1>5. working' = [w \in Worker |->
                   IF Busy(w) THEN [working[w] EXCEPT !.task = Edited(@, u)] ELSE Free]
  BY DEF BeginSet
<1>6. ASSUME NEW w \in Worker
      PROVE  /\ working'[w] \in Working
             /\ IF Busy(w) THEN /\ working'[w].outcome = working[w].outcome
                                /\ working'[w].task = Edited(working[w].task, u)
                           ELSE working'[w] = working[w]
  <2>1. CASE Busy(w)
    <3>1. working[w] \in [task : Tasks, outcome : Outcome]
      BY <2>1, BusyWorker
    <3>2. Edited(working[w].task, u) \in Tasks
      BY <3>1, EditedTask
    <3> QED  BY <1>5, <2>1, <3>1, <3>2 DEF Working
  <2>2. CASE ~Busy(w)
    BY <1>5, <2>2, BusyWorker, FreeWorker
  <2> QED  BY <2>1, <2>2
<1> QED  BY <1>2, <1>4, <1>5, <1>6

\* A document that is known has an input of its own.
LEMMA KnownDocuments ==
  ASSUME TypeInv, DocInv, NEW u \in Uri, State(u) # "Unknown"
  PROVE  /\ FileOf(u) \in 1..Len(by_file) /\ by_file[FileOf(u)] = u
         /\ FileOf(u) \in 1..Len(text) /\ text[FileOf(u)] \in Nat
         /\ \A v \in Uri : FileOf(v) = FileOf(u) => v = u
<1>1. /\ \A v \in Uri : IF State(v) = "Unknown" THEN FileOf(v) = NoFile
                        ELSE FileOf(v) \in 1..Len(by_file) /\ by_file[FileOf(v)] = v
      /\ Len(text) = Len(by_file)
  BY DEF DocInv
<1>2. text \in Seq(Nat)
  BY DEF TypeInv, MainInv
<1>3. FileOf(u) \in 1..Len(by_file) /\ by_file[FileOf(u)] = u /\ FileOf(u) # NoFile
  BY <1>1 DEF NoFile
<1>4. FileOf(u) \in 1..Len(text)
  BY <1>1, <1>3
<1>5. text[FileOf(u)] \in Nat
  BY <1>2, <1>4
<1>6. ASSUME NEW v \in Uri, FileOf(v) = FileOf(u) PROVE v = u
  BY <1>1, <1>3, <1>6
<1> QED  BY <1>3, <1>4, <1>5, <1>6

LEMMA NewTasks ==
  ASSUME TypeInv, DocInv, NEW kind \in Kind \cup {"diagnostics"}, NEW u \in Uri,
         NEW id \in Id \cup {"none"}, kind = "diagnostics" <=> id = "none",
         NEW generation \in Nat
  PROVE  NewTask(kind, u, id, generation) \in Tasks
<1>1. State(u) = "Open" => text[FileOf(u)] \in Nat
  BY KnownDocuments
<1> QED  BY <1>1 DEF NewTask, Tasks, Task, Empty, State, FileOf

LEMMA InitTypes == Init => TypeInv
<1> SUFFICES ASSUME Init PROVE TypeInv
  OBVIOUS
<1>1. /\ by_uri = [u \in Uri |-> [state |-> "Unknown", file |-> NoFile]]
      /\ by_file = <<>> /\ text = <<>> /\ diagnostics_generation = [u \in {} |-> 0]
      /\ next_generation = 0 /\ main = Rest /\ queue = <<>>
      /\ working = [w \in Worker |-> Free] /\ answers = [i \in Id |-> <<>>]
      /\ asked = {} /\ shown = [u \in Uri |-> Empty] /\ edits = 0
      /\ stamped = [u \in Uri |-> Empty]
  BY DEF Init
<1>2. by_uri \in [Uri -> [state : FileState, file : Nat]]
  BY <1>1 DEF FileState, NoFile
<1>3. by_file \in Seq(Uri) /\ text \in Seq(Nat) /\ queue \in Seq(Tasks)
  BY <1>1
<1>4. /\ DOMAIN diagnostics_generation = {}
      /\ diagnostics_generation = [u \in DOMAIN diagnostics_generation |-> diagnostics_generation[u]]
  BY <1>1
<1>5. /\ main \in [at : Places, uri : Uri \cup {"none"}, to : {"Open", "Closed", "none"}]
      /\ main.at = "idle"
  BY <1>1 DEF Rest, Places
<1>6. working \in [Worker -> Working]
  BY <1>1, FreeWorker
<1>7. answers \in [Id -> Seq(Response)]
  BY <1>1
<1>8. shown \in [Uri -> Nat] /\ stamped \in [Uri -> Nat]
  BY <1>1 DEF Empty
<1> QED  BY <1>1, <1>2, <1>3, <1>4, <1>5, <1>6, <1>7, <1>8, MaxStampsAssumption DEF TypeInv, MainInv

LEMMA MainTypes ==
  ASSUME NEW at \in Places, NEW u \in Uri, NEW to \in {"Open", "Closed"}
  PROVE  MainInv([at |-> at, uri |-> u, to |-> to])
BY DEF MainInv

LEMMA TypesNext == IInv /\ [Next]_vars => TypeInv'
<1> SUFFICES ASSUME IInv, [Next]_vars PROVE TypeInv'
  OBVIOUS
<1>t. TypeInv /\ DocInv
  BY DEF IInv
<1>r. MainInv(Rest)
  BY DEF Rest, Places, MainInv
<1>p. {"set", "stamp", "spawn", "retire", "clear"} \subseteq Places
  BY DEF Places
<1>1. ASSUME NEW u \in Uri, DidOpen(u) PROVE TypeInv'
  <2>1. edits < MaxStamps /\ edits' = edits + 1
        /\ UNCHANGED <<stamps, answers, asked, shown>>
    BY <1>1 DEF DidOpen
  <2>2. edits' \in Nat /\ edits' <= MaxStamps
    BY <1>t, <2>1, MaxStampsAssumption DEF TypeInv
  <2>3. CASE by_uri[u].state = "Unknown"
    <3>1. /\ by_uri' = [by_uri EXCEPT ![u] = [state |-> "Open", file |-> Len(text) + 1]]
          /\ by_file' = Append(by_file, u) /\ text' = Append(text, edits + 1)
          /\ main' = [at |-> "stamp", uri |-> u, to |-> "Open"] /\ UNCHANGED pool
      BY <1>1, <2>3 DEF DidOpen, Minted
    <3>2. by_uri' \in [Uri -> [state : FileState, file : Nat]]
      BY <1>t, <3>1 DEF TypeInv, FileState
    <3>3. by_file' \in Seq(Uri) /\ text' \in Seq(Nat)
      BY <1>t, <3>1 DEF TypeInv
    <3>4. MainInv(main')
      BY <1>p, <3>1, MainTypes
    <3> QED  BY <1>t, <2>1, <2>2, <3>1, <3>2, <3>3, <3>4 DEF TypeInv, stamps, pool
  <2>4. CASE by_uri[u].state # "Unknown"
    <3>1. BeginSet(u, "Open") /\ UNCHANGED files
      BY <1>1, <2>4 DEF DidOpen
    <3>2. main' = [at |-> "set", uri |-> u, to |-> "Open"]
      BY <3>1 DEF BeginSet
    <3>3. MainInv(main')
      BY <1>p, <3>2, MainTypes
    <3>4. queue' \in Seq(Tasks) /\ working' \in [Worker -> Working]
      BY <1>t, <3>1, Marking
    <3> QED  BY <1>t, <2>1, <2>2, <3>1, <3>3, <3>4 DEF TypeInv, stamps, files
  <2> QED  BY <2>3, <2>4
<1>2. ASSUME NEW u \in Uri, DidChange(u) PROVE TypeInv'
  <2>1. edits' = edits + 1 /\ edits < MaxStamps /\ BeginSet(u, "Open")
        /\ UNCHANGED <<files, stamps, answers, asked, shown>>
    BY <1>2 DEF DidChange
  <2>2. edits' \in Nat /\ edits' <= MaxStamps
    BY <1>t, <2>1, MaxStampsAssumption DEF TypeInv
  <2>3. main' = [at |-> "set", uri |-> u, to |-> "Open"]
    BY <2>1 DEF BeginSet
  <2>4. MainInv(main')
    BY <1>p, <2>3, MainTypes
  <2>5. queue' \in Seq(Tasks) /\ working' \in [Worker -> Working]
    BY <1>t, <2>1, Marking
  <2> QED  BY <1>t, <2>1, <2>2, <2>4, <2>5 DEF TypeInv, stamps, files
<1>3. ASSUME NEW u \in Uri, DidClose(u) PROVE TypeInv'
  <2>1. UNCHANGED <<files, stamps, client>>
    BY <1>3 DEF DidClose
  <2>2. CASE BeginSet(u, "Closed")
    <3>1. main' = [at |-> "set", uri |-> u, to |-> "Closed"]
      BY <2>2 DEF BeginSet
    <3>2. MainInv(main')
      BY <1>p, <3>1, MainTypes
    <3>3. queue' \in Seq(Tasks) /\ working' \in [Worker -> Working]
      BY <1>t, <2>2, Marking
    <3> QED  BY <1>t, <2>1, <3>2, <3>3 DEF TypeInv, stamps, files, client
  <2>3. CASE main' = [at |-> "retire", uri |-> u, to |-> "Closed"] /\ UNCHANGED pool
    <3>1. MainInv(main')
      BY <1>p, <2>3, MainTypes
    <3> QED  BY <1>t, <2>1, <2>3, <3>1 DEF TypeInv, stamps, files, client, pool
  <2> QED  BY <1>3, <2>2, <2>3 DEF DidClose
<1>4. ASSUME SetText PROVE TypeInv'
  <2>1. /\ main.at = "set" /\ main.uri \in Uri /\ main.to \in {"Open", "Closed"}
        /\ State(main.uri) # "Unknown"
    BY <1>t, <1>4 DEF SetText, TypeInv, MainInv, DocInv
  <2>2. FileOf(main.uri) \in 1..Len(text)
    BY <1>t, <2>1, KnownDocuments
  <2>3. text' = [text EXCEPT ![FileOf(main.uri)] = IF main.to = "Open" THEN edits ELSE Empty]
        /\ by_uri' = [by_uri EXCEPT ![main.uri].state = main.to]
        /\ main' = [main EXCEPT !.at = IF main.to = "Open" THEN "stamp" ELSE "retire"]
        /\ UNCHANGED <<by_file, stamps, pool, client>>
    BY <1>4 DEF SetText, Goto, FileOf
  <2>4. text' \in Seq(Nat)
    <3> DEFINE new == IF main.to = "Open" THEN edits ELSE Empty
    <3>1. new \in Nat /\ text \in Seq(Nat)
      BY <1>t DEF TypeInv, Empty
    <3>2. text' = [text EXCEPT ![FileOf(main.uri)] = new]
      BY <2>3
    <3> HIDE DEF new
    <3> QED  BY <2>2, <3>1, <3>2, ExceptSeq
  <2>5. by_uri' \in [Uri -> [state : FileState, file : Nat]]
    BY <1>t, <2>1, <2>3 DEF TypeInv, FileState
  <2>6. MainInv(main')
    <3>1. MainInv(main)
      BY <1>t DEF TypeInv
    <3> QED  BY <1>p, <2>1, <2>3, <3>1 DEF MainInv
  <2> QED  BY <1>t, <2>3, <2>4, <2>5, <2>6 DEF TypeInv, stamps, pool, client
<1>5. ASSUME BumpGeneration PROVE TypeInv'
  <2>1. main.at = "stamp" /\ main.uri \in Uri /\ State(main.uri) = "Open"
    BY <1>t, <1>5 DEF BumpGeneration, TypeInv, MainInv, DocInv
  <2>2. text[FileOf(main.uri)] \in Nat
    BY <1>t, <2>1, KnownDocuments
  <2>3. /\ next_generation' = next_generation + 1
        /\ diagnostics_generation' = [v \in DOMAIN diagnostics_generation \cup {main.uri} |->
              IF v = main.uri THEN next_generation' ELSE diagnostics_generation[v]]
        /\ stamped' = [stamped EXCEPT ![main.uri] = text[FileOf(main.uri)]]
        /\ main' = [main EXCEPT !.at = "spawn"]
        /\ UNCHANGED <<files, pool, client>>
    BY <1>5 DEF BumpGeneration, Goto, FileOf
  <2>4. /\ DOMAIN diagnostics_generation' = DOMAIN diagnostics_generation \cup {main.uri}
        /\ \A u \in DOMAIN diagnostics_generation' :
             diagnostics_generation'[u] \in 1..next_generation'
        /\ next_generation' \in Nat
    BY <1>t, <2>3 DEF TypeInv
  <2>5. diagnostics_generation' = [u \in DOMAIN diagnostics_generation' |-> diagnostics_generation'[u]]
    BY <2>3
  <2>6. stamped' \in [Uri -> Nat]
    BY <1>t, <2>2, <2>3 DEF TypeInv
  <2>7. MainInv(main')
    <3>1. MainInv(main)
      BY <1>t DEF TypeInv
    <3> QED  BY <1>p, <2>1, <2>3, <3>1 DEF MainInv
  <2> QED  BY <1>t, <2>1, <2>3, <2>4, <2>5, <2>6, <2>7 DEF TypeInv, files, pool, client
<1>6. ASSUME PublishDiagnostics PROVE TypeInv'
  <2>1. main.uri \in Uri /\ next_generation \in Nat
    BY <1>t, <1>6 DEF PublishDiagnostics, TypeInv, MainInv
  <2>2. NewTask("diagnostics", main.uri, "none", next_generation) \in Tasks
    BY <1>t, <2>1, NewTasks
  <2>3. queue' \in Seq(Tasks)
    BY <1>t, <1>6, <2>2 DEF PublishDiagnostics, TypeInv
  <2> QED  BY <1>t, <1>r, <1>6, <2>3 DEF TypeInv, PublishDiagnostics, files, stamps, client
<1>7. ASSUME RetireGeneration PROVE TypeInv'
  <2>1. /\ main.at = "retire" /\ main.uri \in Uri
        /\ diagnostics_generation' =
             [v \in DOMAIN diagnostics_generation \ {main.uri} |-> diagnostics_generation[v]]
        /\ main' = [main EXCEPT !.at = "clear"]
        /\ UNCHANGED <<files, next_generation, stamped, pool, client>>
    BY <1>t, <1>7 DEF RetireGeneration, Goto, TypeInv, MainInv
  <2>2. /\ DOMAIN diagnostics_generation' \subseteq Uri
        /\ \A u \in DOMAIN diagnostics_generation' :
             diagnostics_generation'[u] \in 1..next_generation
    BY <1>t, <2>1 DEF TypeInv
  <2>3. diagnostics_generation' = [u \in DOMAIN diagnostics_generation' |-> diagnostics_generation'[u]]
    BY <2>1
  <2>4. MainInv(main')
    <3>1. MainInv(main)
      BY <1>t DEF TypeInv
    <3> QED  BY <1>p, <2>1, <3>1 DEF MainInv
  <2> QED  BY <1>t, <2>1, <2>2, <2>3, <2>4 DEF TypeInv, files, pool, client
<1>8. ASSUME ClearDiagnostics PROVE TypeInv'
  <2>1. shown' = [shown EXCEPT ![main.uri] = Empty] /\ main' = Rest
        /\ UNCHANGED <<files, stamps, pool, answers, asked, edits>>
    BY <1>8 DEF ClearDiagnostics
  <2>2. shown' \in [Uri -> Nat]
    BY <1>t, <2>1 DEF TypeInv, Empty
  <2> QED  BY <1>t, <1>r, <2>1, <2>2 DEF TypeInv, files, stamps, pool
<1>9. ASSUME NEW id \in Id, NEW kind \in Kind, NEW u \in Uri, DispatchRequest(id, kind, u)
      PROVE TypeInv'
  <2>1. asked' = asked \cup {id} /\ UNCHANGED <<files, stamps, working, main, shown, edits>>
    BY <1>9 DEF DispatchRequest
  <2>2. asked' \in SUBSET Id
    BY <1>t, <2>1 DEF TypeInv
  <2>3. ASSUME NEW r \in Response, answers' = Answered(id, r) PROVE answers' \in [Id -> Seq(Response)]
    BY <1>t, <2>3 DEF TypeInv, Answered
  <2>4. NewTask(kind, u, id, 0) \in Tasks
    BY <1>t, NewTasks, IdAssumption DEF Kind
  <2>5. answers' \in [Id -> Seq(Response)] /\ queue' \in Seq(Tasks)
    <3>1. CASE answers' = Answered(id, "bad_request") /\ UNCHANGED queue
      BY <1>t, <2>3, <3>1 DEF TypeInv, Response
    <3>2. CASE answers' = Answered(id, "content_modified") /\ UNCHANGED queue
      BY <1>t, <2>3, <3>2 DEF TypeInv, Response
    <3>3. CASE queue' = Append(queue, NewTask(kind, u, id, 0)) /\ UNCHANGED answers
      <4>1. queue \in Seq(Tasks) /\ answers \in [Id -> Seq(Response)]
        BY <1>t DEF TypeInv
      <4> QED  BY <2>4, <3>3, <4>1
    <3> QED  BY <1>9, <3>1, <3>2, <3>3 DEF DispatchRequest
  <2> QED  BY <1>t, <2>1, <2>2, <2>5 DEF TypeInv, files, stamps
<1>10. ASSUME Shutdown PROVE TypeInv'
  <2>1. MainInv(main')
    BY <1>10 DEF Shutdown, Rest, Places, MainInv
  <2> QED  BY <1>t, <1>10, <2>1 DEF TypeInv, Shutdown, files, stamps, pool, client
<1>11. ASSUME NEW w \in Worker, Take(w) PROVE TypeInv'
  <2>1. queue \in Seq(Tasks) /\ queue # <<>>
    BY <1>t, <1>11 DEF TypeInv, Take
  <2>2. Head(queue) \in Tasks /\ Tail(queue) \in Seq(Tasks)
    BY <2>1
  <2>3. working' \in [Worker -> Working]
    BY <1>t, <1>11, <2>2 DEF TypeInv, Take, Working, Outcome
  <2> QED  BY <1>t, <1>11, <2>2, <2>3 DEF TypeInv, Take, files, stamps, client
<1>12. ASSUME NEW w \in Worker, Compute(w) PROVE TypeInv'
  <2>1. Busy(w) /\ working[w] \in [task : Tasks, outcome : Outcome]
    BY <1>t, <1>12, BusyWorker DEF Compute, Busy
  <2>2. PICK outcome \in Outcomes(working[w].task) :
          working' = [working EXCEPT ![w].outcome = outcome]
    BY <1>12 DEF Compute
  <2>3. outcome \in Outcome
    BY <2>2 DEF Outcomes, Outcome
  <2>4. working' \in [Worker -> Working]
    BY <1>t, <2>1, <2>2, <2>3 DEF TypeInv, Working
  <2> QED  BY <1>t, <1>12, <2>4 DEF TypeInv, Compute, files, stamps, client
<1>13. ASSUME NEW w \in Worker, Finish(w) PROVE TypeInv'
  <2> DEFINE task == working[w].task  outcome == working[w].outcome
  <2>1. Busy(w) /\ task \in Tasks
    BY <1>t, <1>13, BusyWorker DEF Finish, Busy
  <2>2. working' = [working EXCEPT ![w] = Free]
        /\ UNCHANGED <<files, stamps, queue, asked, edits, main>>
    BY <1>13 DEF Finish
  <2>3. working' \in [Worker -> Working]
    BY <1>t, <2>2, FreeWorker DEF TypeInv
  <2>4. ResponseTo(outcome) \in Response
    BY DEF ResponseTo, Response
  <2>5. shown' \in [Uri -> Nat] /\ answers' \in [Id -> Seq(Response)]
    <3>1. CASE task.kind = "diagnostics"
      <4>1. SendIfCurrent(task, outcome)
        BY <1>13, <3>1 DEF Finish
      <4>2. task.text \in Nat
        BY <2>1 DEF Tasks, Task
      <4> QED  BY <1>t, <4>1, <4>2 DEF SendIfCurrent, TypeInv
    <3>2. CASE task.kind # "diagnostics"
      <4>1. Respond(task, outcome)
        BY <1>13, <3>2 DEF Finish
      <4>2. answers \in [Id -> Seq(Response)] /\ UNCHANGED shown
            /\ answers' = [answers EXCEPT ![task.id] = Append(@, ResponseTo(outcome))]
        BY <1>t, <4>1 DEF Respond, Answered, TypeInv
      <4>3. task.id \in Id
        BY <2>1, <3>2 DEF Tasks, Task
      <4> HIDE DEF task, outcome
      <4> QED  BY <1>t, <2>4, <4>2, <4>3 DEF TypeInv
    <3> QED  BY <3>1, <3>2
  <2> QED  BY <1>t, <2>2, <2>3, <2>5 DEF TypeInv, files, stamps
<1>14. CASE UNCHANGED vars
  BY <1>t, <1>14 DEF TypeInv, vars, files, stamps, pool, client
<1> QED
  BY <1>1, <1>2, <1>3, <1>4, <1>5, <1>6, <1>7, <1>8, <1>9, <1>10, <1>11, <1>12, <1>13, <1>14
  DEF Next, Client, MainStep, WorkerStep
-----------------------------------------------------------------------------
LEMMA InitDocs == Init => DocInv
<1> SUFFICES ASSUME Init PROVE DocInv
  OBVIOUS
<1>1. /\ by_uri = [u \in Uri |-> [state |-> "Unknown", file |-> NoFile]]
      /\ by_file = <<>> /\ text = <<>> /\ DOMAIN diagnostics_generation = {}
      /\ main.at = "idle"
  BY DEF Init, Rest
<1>2. \A u \in Uri : State(u) = "Unknown" /\ FileOf(u) = NoFile
  BY <1>1 DEF State, FileOf
<1>3. {u \in Uri : State(u) # "Unknown"} = {}
  BY <1>2
<1>4. Len(by_file) = Cardinality({u \in Uri : State(u) # "Unknown"}) /\ Len(text) = Len(by_file)
  BY <1>1, <1>3, FS_EmptySet
<1> QED  BY <1>1, <1>2, <1>4 DEF DocInv

\* Steps that leave the files alone and move the main loop between states
\* that ask no more of them.
LEMMA FilesKept ==
  ASSUME DocInv, UNCHANGED files, NEW at, NEW m, main'.at = at, main'.uri = m,
         \A u \in Uri : (at \in {"stamp", "retire"} /\ u = m)
                      \/ (u \in DOMAIN diagnostics_generation' <=> State(u) = "Open"),
         at \in {"stamp", "spawn"} => State(m) = "Open",
         at \in {"retire", "clear"} => State(m) = "Closed",
         at = "set" => State(m) # "Unknown"
  PROVE  DocInv'
<1>1. \A u : State(u)' = State(u) /\ FileOf(u)' = FileOf(u)
  BY DEF State, FileOf, files
<1>2. (State(main.uri))' = State(m)
  BY DEF State, files
<1>3. by_file' = by_file /\ text' = text
  BY DEF files
<1>4. {u \in Uri : State(u) # "Unknown"}' = {u \in Uri : State(u) # "Unknown"}
  BY <1>1
<1> QED  BY <1>1, <1>2, <1>3, <1>4 DEF DocInv

LEMMA DocsNext == IInv /\ [Next]_vars => DocInv'
<1> SUFFICES ASSUME IInv, [Next]_vars PROVE DocInv'
  OBVIOUS
<1>t. TypeInv /\ DocInv /\ FeedInv
  BY DEF IInv
<1>i. Idle => /\ main.at = "idle"
              /\ \A u \in Uri : u \in DOMAIN diagnostics_generation <=> State(u) = "Open"
  BY <1>t DEF Idle, Rest, DocInv
<1>s. Rest.at = "idle"
  BY DEF Rest
<1>b. ASSUME Idle, NEW u \in Uri, NEW to \in {"Open", "Closed"}, BeginSet(u, to),
             State(u) # "Unknown", UNCHANGED <<files, diagnostics_generation>>
      PROVE  DocInv'
  <2>1. main' = [at |-> "set", uri |-> u, to |-> to]
    BY <1>b DEF BeginSet
  <2> QED  BY <1>t, <1>i, <1>b, <2>1, FilesKept
<1>c. ASSUME Idle, NEW u \in Uri, State(u) = "Closed",
             main' = [at |-> "retire", uri |-> u, to |-> "Closed"],
             UNCHANGED <<files, diagnostics_generation>>
      PROVE  DocInv'
  BY <1>t, <1>i, <1>c, FilesKept
<1>1. ASSUME NEW u \in Uri, DidOpen(u) PROVE DocInv'
  <2>1. Idle /\ UNCHANGED <<stamps, answers, asked, shown>>
    BY <1>1 DEF DidOpen
  <2>2. CASE State(u) = "Unknown"
    <3>1. /\ by_uri' = [by_uri EXCEPT ![u] = [state |-> "Open", file |-> Len(text) + 1]]
          /\ by_file' = Append(by_file, u) /\ text' = Append(text, edits + 1)
          /\ main' = [at |-> "stamp", uri |-> u, to |-> "Open"]
      BY <1>1, <2>2 DEF DidOpen, Minted, State
    <3>2. by_uri \in [Uri -> [state : FileState, file : Nat]] /\ by_file \in Seq(Uri)
          /\ text \in Seq(Nat) /\ edits \in Nat /\ Len(text) = Len(by_file)
      BY <1>t DEF TypeInv, MainInv, DocInv
    <3>3. /\ State(u)' = "Open" /\ FileOf(u)' = Len(text) + 1
          /\ \A v \in Uri \ {u} : State(v)' = State(v) /\ FileOf(v)' = FileOf(v)
      BY <3>1, <3>2 DEF State, FileOf
    <3>4. /\ Len(by_file') = Len(by_file) + 1 /\ Len(text') = Len(text) + 1
          /\ \A i \in 1..Len(by_file) : by_file'[i] = by_file[i] /\ text'[i] = text[i]
          /\ by_file'[Len(by_file) + 1] = u /\ text'[Len(text) + 1] = edits + 1
      BY <3>1, <3>2
    <3>5. ASSUME NEW v \in Uri
          PROVE  /\ IF State(v)' = "Unknown" THEN FileOf(v)' = NoFile
                    ELSE FileOf(v)' \in 1..Len(by_file') /\ by_file'[FileOf(v)'] = v
                 /\ State(v)' = "Closed" => text'[FileOf(v)'] = Empty
                 /\ State(v)' = "Open" => text'[FileOf(v)'] # Empty
      <4>1. CASE v = u
        BY <3>2, <3>3, <3>4, <4>1 DEF Empty
      <4>2. CASE v # u
        <5>1. State(v)' = State(v) /\ FileOf(v)' = FileOf(v)
          BY <3>3, <4>2
        <5>2. CASE State(v) = "Unknown"
          BY <1>t, <5>1, <5>2 DEF DocInv
        <5>3. CASE State(v) # "Unknown"
          <6>1. FileOf(v) \in 1..Len(by_file) /\ by_file[FileOf(v)] = v
            BY <1>t, <5>3, KnownDocuments
          <6>2. /\ State(v) = "Closed" => text[FileOf(v)] = Empty
                /\ State(v) = "Open" => text[FileOf(v)] # Empty
            BY <1>t DEF DocInv
          <6>3. Len(by_file) \in Nat
            BY <3>2
          <6> QED  BY <3>4, <5>1, <5>3, <6>1, <6>2, <6>3
        <5> QED  BY <5>2, <5>3
      <4> QED  BY <4>1, <4>2
    <3>6. Len(by_file') = Cardinality({v \in Uri : State(v)' # "Unknown"})
      <4> DEFINE known == {v \in Uri : State(v) # "Unknown"}
      <4>1. {v \in Uri : State(v)' # "Unknown"} = known \cup {u} /\ u \notin known
        BY <2>2, <3>3
      <4>2. IsFiniteSet(known)
        BY FiniteAssumption, FS_Subset
      <4>3. Cardinality(known \cup {u}) = Cardinality(known) + 1
        BY <4>1, <4>2, FS_AddElement
      <4>4. Len(by_file) = Cardinality(known)
        BY <1>t DEF DocInv
      <4> QED  BY <3>4, <4>1, <4>3, <4>4
    <3>7. Len(text') = Len(by_file')
      BY <3>2, <3>4
    <3>8. \A v \in Uri \ {u} : v \in DOMAIN diagnostics_generation' <=> State(v)' = "Open"
      BY <1>i, <2>1, <3>3 DEF stamps
    <3>9. main'.at = "stamp" /\ main'.uri = u /\ (State(main.uri))' = "Open"
      BY <3>1, <3>3 DEF State
    <3> QED  BY <3>5, <3>6, <3>7, <3>8, <3>9 DEF DocInv
  <2>3. CASE State(u) # "Unknown"
    BY <1>1, <1>b, <2>1, <2>3 DEF DidOpen, State, stamps
  <2> QED  BY <2>2, <2>3
<1>2. ASSUME NEW u \in Uri, DidChange(u) PROVE DocInv'
  BY <1>2, <1>b DEF DidChange, State, stamps
<1>3. ASSUME NEW u \in Uri, DidClose(u) PROVE DocInv'
  <2>1. Idle /\ UNCHANGED <<files, stamps>>
    BY <1>3 DEF DidClose
  <2>2. CASE State(u) = "Open" /\ BeginSet(u, "Closed")
    BY <1>b, <2>1, <2>2 DEF stamps
  <2>3. CASE State(u) = "Closed" /\ main' = [at |-> "retire", uri |-> u, to |-> "Closed"]
    BY <1>c, <2>1, <2>3 DEF stamps
  <2>4. \/ State(u) = "Open" /\ BeginSet(u, "Closed")
        \/ State(u) = "Closed" /\ main' = [at |-> "retire", uri |-> u, to |-> "Closed"]
    BY <1>3 DEF DidClose, State
  <2> QED  BY <2>2, <2>3, <2>4
<1>4. ASSUME SetText PROVE DocInv'
  <2>m. PICK m \in Uri : m = main.uri
    BY <1>t, <1>4 DEF SetText, TypeInv, MainInv
  <2> DEFINE new == IF main.to = "Open" THEN edits ELSE Empty
  <2>1. /\ main.at = "set" /\ m \in Uri /\ main.to \in {"Open", "Closed"}
        /\ State(m) # "Unknown"
    BY <1>t, <1>4, <2>m DEF SetText, TypeInv, MainInv, DocInv
  <2>2. text' = [text EXCEPT ![FileOf(m)] = new]
        /\ by_uri' = [by_uri EXCEPT ![m].state = main.to]
        /\ main' = [main EXCEPT !.at = IF main.to = "Open" THEN "stamp" ELSE "retire"]
        /\ by_file' = by_file /\ UNCHANGED stamps
    BY <1>4, <2>m DEF SetText, Goto, FileOf
  <2>3. /\ FileOf(m) \in 1..Len(text)
        /\ \A v \in Uri : FileOf(v) = FileOf(m) => v = m
    BY <1>t, <2>1, KnownDocuments
  <2>4. by_uri \in [Uri -> [state : FileState, file : Nat]] /\ text \in Seq(Nat)
        /\ Len(text) = Len(by_file) /\ main.uri = m
        /\ main \in [at : Places, uri : Uri \cup {"none"}, to : {"Open", "Closed", "none"}]
    BY <1>t, <2>m DEF TypeInv, MainInv, DocInv
  <2>5. /\ State(m)' = main.to /\ FileOf(m)' = FileOf(m)
        /\ \A v \in Uri : FileOf(v)' = FileOf(v)
        /\ \A v \in Uri \ {m} : State(v)' = State(v)
    BY <2>1, <2>2, <2>4 DEF State, FileOf
  <2>6. /\ Len(text') = Len(text) /\ text'[FileOf(m)] = new
        /\ \A i \in 1..Len(text) : i # FileOf(m) => text'[i] = text[i]
    <3>1. DOMAIN text' = DOMAIN text
      BY <2>2
    <3>2. new \in Nat
      BY <1>t DEF TypeInv, MainInv, Empty
    <3> HIDE DEF new
    <3>3. text' \in Seq(Nat)
      BY <2>2, <2>3, <2>4, <3>2, ExceptSeq
    <3> QED  BY <2>2, <2>3, <2>4, <3>1, <3>3
  <2>7. (main.to = "Open" => new # Empty) /\ (main.to = "Closed" => new = Empty)
    BY <1>t, <2>1 DEF FeedInv, Bringing, Empty, TypeInv, MainInv
  <2>8. main'.uri = m /\ (State(main.uri))' = main.to
        /\ main'.at = (IF main.to = "Open" THEN "stamp" ELSE "retire")
    BY <2>2, <2>4, <2>5 DEF State
  <2> HIDE DEF new
  <2>9. ASSUME NEW v \in Uri
        PROVE  /\ IF State(v)' = "Unknown" THEN FileOf(v)' = NoFile
                  ELSE FileOf(v)' \in 1..Len(by_file') /\ by_file'[FileOf(v)'] = v
               /\ State(v)' = "Closed" => text'[FileOf(v)'] = Empty
               /\ State(v)' = "Open" => text'[FileOf(v)'] # Empty
    <3>1. CASE v = m
      <4>1. FileOf(m) \in 1..Len(by_file) /\ by_file[FileOf(m)] = m
        BY <1>t, <2>1, KnownDocuments
      <4> QED  BY <2>1, <2>2, <2>5, <2>6, <2>7, <3>1, <4>1
    <3>2. CASE v # m
      <4>1. State(v)' = State(v) /\ FileOf(v)' = FileOf(v)
        BY <2>5, <3>2
      <4>2. CASE State(v) = "Unknown"
        BY <1>t, <4>1, <4>2 DEF DocInv
      <4>3. CASE State(v) # "Unknown"
        <5>1. /\ FileOf(v) \in 1..Len(by_file) /\ by_file[FileOf(v)] = v
              /\ FileOf(v) # FileOf(m) /\ FileOf(v) \in 1..Len(text)
          BY <1>t, <2>3, <3>2, <4>3, KnownDocuments
        <5>2. /\ State(v) = "Closed" => text[FileOf(v)] = Empty
              /\ State(v) = "Open" => text[FileOf(v)] # Empty
          BY <1>t DEF DocInv
        <5> QED  BY <2>2, <2>6, <4>1, <4>3, <5>1, <5>2
      <4> QED  BY <4>2, <4>3
    <3> QED  BY <3>1, <3>2
  <2>10. Len(by_file') = Cardinality({v \in Uri : State(v)' # "Unknown"})
    <3>1. {v \in Uri : State(v)' # "Unknown"} = {v \in Uri : State(v) # "Unknown"}
      BY <2>1, <2>5
    <3> QED  BY <1>t, <2>2, <3>1 DEF DocInv
  <2>11. Len(text') = Len(by_file')
    BY <2>2, <2>4, <2>6
  <2>12. \A v \in Uri \ {m} : v \in DOMAIN diagnostics_generation' <=> State(v)' = "Open"
    BY <1>t, <2>1, <2>2, <2>4, <2>5 DEF DocInv, stamps
  <2> QED  BY <2>1, <2>8, <2>9, <2>10, <2>11, <2>12 DEF DocInv
<1>5. ASSUME BumpGeneration PROVE DocInv'
  <2>1. main.at = "stamp" /\ main.uri \in Uri /\ State(main.uri) = "Open"
    BY <1>t, <1>5 DEF BumpGeneration, TypeInv, MainInv, DocInv
  <2>2. /\ DOMAIN diagnostics_generation' = DOMAIN diagnostics_generation \cup {main.uri}
        /\ main'.at = "spawn" /\ main'.uri = main.uri /\ UNCHANGED files
    BY <1>t, <1>5 DEF BumpGeneration, Goto, TypeInv, MainInv
  <2>3. \A u \in Uri : u \in DOMAIN diagnostics_generation' <=> State(u) = "Open"
    BY <1>t, <2>1, <2>2 DEF DocInv
  <2> QED  BY <1>t, <2>1, <2>2, <2>3, FilesKept
<1>6. ASSUME PublishDiagnostics PROVE DocInv'
  <2>1. \A u \in Uri : u \in DOMAIN diagnostics_generation <=> State(u) = "Open"
    BY <1>t, <1>6 DEF PublishDiagnostics, DocInv
  <2>2. UNCHANGED <<files, diagnostics_generation>> /\ main' = Rest
    BY <1>6 DEF PublishDiagnostics, stamps
  <2> QED  BY <1>t, <1>s, <2>1, <2>2, FilesKept
<1>7. ASSUME RetireGeneration PROVE DocInv'
  <2>1. main.at = "retire" /\ main.uri \in Uri /\ State(main.uri) = "Closed"
    BY <1>t, <1>7 DEF RetireGeneration, TypeInv, MainInv, DocInv
  <2>2. /\ DOMAIN diagnostics_generation' = DOMAIN diagnostics_generation \ {main.uri}
        /\ main'.at = "clear" /\ main'.uri = main.uri /\ UNCHANGED files
    BY <1>t, <1>7 DEF RetireGeneration, Goto, TypeInv, MainInv
  <2>3. \A u \in Uri : u \in DOMAIN diagnostics_generation' <=> State(u) = "Open"
    BY <1>t, <2>1, <2>2 DEF DocInv
  <2> QED  BY <1>t, <2>1, <2>2, <2>3, FilesKept
<1>8. ASSUME ClearDiagnostics PROVE DocInv'
  <2>1. \A u \in Uri : u \in DOMAIN diagnostics_generation <=> State(u) = "Open"
    BY <1>t, <1>8 DEF ClearDiagnostics, DocInv
  <2>2. UNCHANGED <<files, diagnostics_generation>> /\ main' = Rest
    BY <1>8 DEF ClearDiagnostics, stamps
  <2> QED  BY <1>t, <1>s, <2>1, <2>2, FilesKept
<1>10. ASSUME Shutdown PROVE DocInv'
  <2>1. main'.at = "stopped" /\ UNCHANGED <<files, diagnostics_generation>> /\ Idle
    BY <1>10 DEF Shutdown, stamps, Rest
  <2> QED  BY <1>t, <1>i, <2>1, FilesKept
<1>11. ASSUME UNCHANGED <<files, diagnostics_generation, main>> PROVE DocInv'
  BY <1>t, <1>11 DEF DocInv, files, State, FileOf
<1>12. ASSUME NEW id \in Id, NEW kind \in Kind, NEW u \in Uri, DispatchRequest(id, kind, u)
       PROVE  DocInv'
  BY <1>11, <1>12 DEF DispatchRequest, stamps
<1>13. ASSUME NEW w \in Worker, WorkerStep(w) PROVE DocInv'
  BY <1>11, <1>13 DEF WorkerStep, Take, Compute, Finish, stamps
<1>14. CASE UNCHANGED vars
  BY <1>11, <1>14 DEF vars, stamps
<1> QED
  BY <1>1, <1>2, <1>3, <1>4, <1>5, <1>6, <1>7, <1>8, <1>10, <1>12, <1>13, <1>14
  DEF Next, Client, MainStep
-----------------------------------------------------------------------------
LEMMA InitFeed == Init => FeedInv
<1> SUFFICES ASSUME Init PROVE FeedInv
  OBVIOUS
<1>1. /\ main.at = "idle" /\ queue = <<>> /\ working = [w \in Worker |-> Free] /\ edits = 0
      /\ shown = [u \in Uri |-> 0] /\ stamped = [u \in Uri |-> 0]
  BY DEF Init, Rest, Empty
<1>2. TasksFresh
  BY <1>1, FreeWorker DEF TasksFresh, Fresh
<1> QED  BY <1>1, <1>2 DEF FeedInv, Bringing

\* With the generations and stamps as they were, a step may only drop tasks,
\* pass them on, or mark their snapshots.
LEMMA TasksStayFresh ==
  ASSUME TypeInv, TasksFresh, UNCHANGED stamps,
         \/ UNCHANGED pool
         \/ \E u \in Uri, to \in {"Open", "Closed"} : BeginSet(u, to)
  PROVE  TasksFresh'
<1>1. CASE UNCHANGED pool
  BY <1>1 DEF TasksFresh, stamps, pool
<1>2. ASSUME NEW u \in Uri, NEW to \in {"Open", "Closed"}, BeginSet(u, to) PROVE TasksFresh'
  <2>1. ASSUME NEW i \in 1..Len(queue')
        PROVE  Fresh(queue'[i], diagnostics_generation', next_generation', stamped')
    <3>1. i \in 1..Len(queue) /\ queue'[i] = Edited(queue[i], u)
      BY <1>2, Marking
    <3>2. queue[i] \in Tasks
      BY <3>1 DEF TypeInv, MainInv
    <3>3. Fresh(queue[i], diagnostics_generation, next_generation, stamped)
      BY <3>1 DEF TasksFresh
    <3> QED  BY <3>1, <3>2, <3>3, EditedTask DEF Fresh, stamps
  <2>2. ASSUME NEW w \in Worker
        PROVE  Fresh(working'[w].task, diagnostics_generation', next_generation', stamped')
    <3>1. Fresh(working[w].task, diagnostics_generation, next_generation, stamped)
      BY DEF TasksFresh
    <3>2. CASE Busy(w)
      <4>1. working'[w].task = Edited(working[w].task, u) /\ working[w].task \in Tasks
        BY <1>2, <3>2, Marking, BusyWorker
      <4> QED  BY <3>1, <4>1, EditedTask DEF Fresh, stamps
    <3>3. CASE ~Busy(w)
      <4>1. working'[w] = working[w]
        BY <1>2, <3>3, Marking
      <4> QED  BY <3>1, <4>1 DEF stamps
    <3> QED  BY <3>2, <3>3
  <2> QED  BY <2>1, <2>2 DEF TasksFresh
<1> QED  BY <1>1, <1>2

LEMMA FeedNext == IInv /\ [Next]_vars => FeedInv'
<1> SUFFICES ASSUME IInv, [Next]_vars PROVE FeedInv'
  OBVIOUS
<1>t. TypeInv /\ DocInv /\ FeedInv /\ TasksFresh
  BY DEF IInv, FeedInv
<1>n. /\ edits \in Nat /\ next_generation \in Nat
      /\ shown \in [Uri -> Nat] /\ stamped \in [Uri -> Nat]
      /\ \A u \in Uri : stamped[u] <= edits /\ shown[u] <= edits
  BY <1>t DEF TypeInv, MainInv, FeedInv
<1>1. ASSUME NEW u \in Uri, DidOpen(u) PROVE FeedInv'
  <2>1. edits' = edits + 1 /\ UNCHANGED <<stamps, shown>>
    BY <1>1 DEF DidOpen
  <2>2. /\ edits' > 0
        /\ \A v \in Uri : stamped'[v] < edits' /\ shown'[v] < edits'
        /\ \A v \in Uri : stamped'[v] <= edits' /\ shown'[v] <= edits'
    BY <1>n, <2>1 DEF stamps
  <2>3. CASE State(u) = "Unknown"
    <3>1. Minted(u) /\ main' = [at |-> "stamp", uri |-> u, to |-> "Open"] /\ UNCHANGED pool
      BY <1>1, <2>3 DEF DidOpen, State
    <3>2. text'[(FileOf(main.uri))'] = edits'
      <4>1. (FileOf(main.uri))' = Len(text) + 1
        BY <1>t, <3>1 DEF Minted, FileOf, TypeInv, MainInv
      <4> QED  BY <1>t, <2>1, <3>1, <4>1 DEF Minted, TypeInv, MainInv
    <3>3. TasksFresh'
      BY <1>t, <2>1, <3>1, TasksStayFresh
    <3> QED  BY <1>n, <2>2, <3>1, <3>2, <3>3 DEF FeedInv, Bringing
  <2>4. CASE State(u) # "Unknown"
    <3>1. BeginSet(u, "Open") /\ main' = [at |-> "set", uri |-> u, to |-> "Open"]
      BY <1>1, <2>4 DEF DidOpen, State, BeginSet
    <3>2. TasksFresh'
      BY <1>t, <2>1, <3>1, TasksStayFresh
    <3> QED  BY <1>n, <2>2, <3>1, <3>2 DEF FeedInv, Bringing
  <2> QED  BY <2>3, <2>4
<1>2. ASSUME NEW u \in Uri, DidChange(u) PROVE FeedInv'
  <2>1. /\ edits' = edits + 1 /\ UNCHANGED <<stamps, shown>>
        /\ BeginSet(u, "Open") /\ main' = [at |-> "set", uri |-> u, to |-> "Open"]
    BY <1>2 DEF DidChange, BeginSet
  <2>2. /\ edits' > 0
        /\ \A v \in Uri : stamped'[v] < edits' /\ shown'[v] < edits'
        /\ \A v \in Uri : stamped'[v] <= edits' /\ shown'[v] <= edits'
    BY <1>n, <2>1 DEF stamps
  <2>3. TasksFresh'
    BY <1>t, <2>1, TasksStayFresh
  <2> QED  BY <1>n, <2>1, <2>2, <2>3 DEF FeedInv, Bringing
<1>3. ASSUME NEW u \in Uri, DidClose(u) PROVE FeedInv'
  <2>1. /\ UNCHANGED <<stamps, shown, edits>>
        /\ \/ BeginSet(u, "Closed") /\ main' = [at |-> "set", uri |-> u, to |-> "Closed"]
           \/ UNCHANGED pool /\ main' = [at |-> "retire", uri |-> u, to |-> "Closed"]
    BY <1>3 DEF DidClose, BeginSet, client
  <2>2. TasksFresh'
    BY <1>t, <2>1, TasksStayFresh
  <2>3. main'.at \in {"set", "retire"} /\ main'.to = "Closed"
    BY <2>1
  <2> QED  BY <1>n, <2>1, <2>2, <2>3 DEF FeedInv, Bringing, stamps
<1>4. ASSUME SetText PROVE FeedInv'
  <2>m. PICK m \in Uri : m = main.uri
    BY <1>t, <1>4 DEF SetText, TypeInv, MainInv
  <2>1. /\ main.at = "set" /\ main.to \in {"Open", "Closed"} /\ State(m) # "Unknown"
        /\ text' = [text EXCEPT ![FileOf(m)] = IF main.to = "Open" THEN edits ELSE Empty]
        /\ by_uri' = [by_uri EXCEPT ![m].state = main.to]
        /\ main' = [main EXCEPT !.at = IF main.to = "Open" THEN "stamp" ELSE "retire"]
        /\ UNCHANGED <<stamps, pool, shown, edits>>
    BY <1>t, <1>4, <2>m DEF SetText, TypeInv, MainInv, DocInv, Goto, FileOf, client
  <2>2. FileOf(m) \in 1..Len(text)
    BY <1>t, <2>1, KnownDocuments
  <2>3. main'.uri = m /\ main'.to = main.to
        /\ main'.at = (IF main.to = "Open" THEN "stamp" ELSE "retire")
    BY <1>t, <2>m, <2>1 DEF TypeInv, MainInv
  <2>4. (FileOf(main.uri))' = FileOf(m)
    BY <1>t, <2>1, <2>3 DEF FileOf, TypeInv, MainInv
  <2>5. main.to = "Open" => text'[FileOf(m)] = edits
    BY <1>t, <2>1, <2>2 DEF TypeInv, MainInv
  <2>6. TasksFresh'
    BY <1>t, <2>1, TasksStayFresh
  <2>7. Bringing' => Bringing
    BY <2>1, <2>3 DEF Bringing
  <2> QED  BY <1>t, <1>n, <2>1, <2>3, <2>4, <2>5, <2>6, <2>7 DEF FeedInv, stamps
<1>5. ASSUME BumpGeneration PROVE FeedInv'
  <2>m. PICK m \in Uri : m = main.uri
    BY <1>t, <1>5 DEF BumpGeneration, TypeInv, MainInv
  <2>1. /\ main.at = "stamp" /\ text[FileOf(m)] = edits
        /\ next_generation' = next_generation + 1
        /\ diagnostics_generation' = [v \in DOMAIN diagnostics_generation \cup {m} |->
              IF v = m THEN next_generation' ELSE diagnostics_generation[v]]
        /\ stamped' = [stamped EXCEPT ![m] = edits]
        /\ main'.at = "spawn" /\ main'.uri = m
        /\ UNCHANGED <<files, pool, shown, edits>>
    BY <1>t, <1>5, <2>m DEF BumpGeneration, Goto, FileOf, FeedInv, client, TypeInv, MainInv
  <2>2. stamped' \in [Uri -> Nat] /\ \A v \in Uri : stamped'[v] <= edits
    BY <1>n, <2>1
  <2>3. diagnostics_generation'[m] = next_generation'
    BY <2>1
  <2>4. text'[(FileOf(main.uri))'] = stamped'[m]
    BY <1>n, <2>1 DEF FileOf, files
  <2>5. ASSUME NEW task,
               Fresh(task, diagnostics_generation, next_generation, stamped),
               task.kind = "diagnostics" => task.uri \in Uri /\ task.generation \in Nat
        PROVE  Fresh(task, diagnostics_generation', next_generation', stamped')
    <3>1. CASE task.kind # "diagnostics"
      BY <3>1 DEF Fresh
    <3>2. CASE task.kind = "diagnostics" /\ task.uri = m
      BY <1>n, <2>1, <2>5, <3>2 DEF Fresh
    <3>3. CASE task.kind = "diagnostics" /\ task.uri # m
      BY <1>n, <2>1, <2>5, <3>3 DEF Fresh
    <3> QED  BY <3>1, <3>2, <3>3
  <2>6. TasksFresh'
    <3>1. \A i \in 1..Len(queue) : queue[i] \in Tasks
      BY <1>t DEF TypeInv, MainInv
    <3>2. \A w \in Worker : working[w].task \in Tasks \/ working[w].task = NoTask
      BY <1>t, BusyWorker, FreeWorker
    <3>3. \A task \in Tasks : task.uri \in Uri /\ task.generation \in Nat
      BY DEF Tasks, Task
    <3> QED  BY <1>t, <2>1, <2>5, <3>1, <3>2, <3>3, FreeWorker DEF TasksFresh, pool
  <2> QED  BY <1>n, <2>1, <2>2, <2>3, <2>4, <2>6 DEF FeedInv, Bringing
<1>6. ASSUME PublishDiagnostics PROVE FeedInv'
  <2>m. PICK m \in Uri : m = main.uri
    BY <1>t, <1>6 DEF PublishDiagnostics, TypeInv, MainInv
  <2> DEFINE new == NewTask("diagnostics", m, "none", next_generation)
  <2>1. /\ main.at = "spawn" /\ queue' = Append(queue, new) /\ main'.at = "idle"
        /\ UNCHANGED <<stamps, working, shown, edits>>
    BY <1>6, <2>m DEF PublishDiagnostics, Rest, client
  <2>2. State(m) = "Open" /\ text[FileOf(m)] = stamped[m]
    BY <1>t, <2>m, <2>1 DEF DocInv, FeedInv
  <2>3. Fresh(new, diagnostics_generation, next_generation, stamped)
    BY <1>n, <2>2 DEF Fresh, NewTask, State, FileOf
  <2> HIDE DEF new
  <2>4. TasksFresh'
    <3>1. queue \in Seq(Tasks)
      BY <1>t DEF TypeInv, MainInv
    <3> QED  BY <1>t, <2>1, <2>3, <3>1, AppendProperties DEF TasksFresh, stamps
  <2> QED  BY <1>n, <2>1, <2>4 DEF FeedInv, Bringing, stamps
<1>7. ASSUME RetireGeneration PROVE FeedInv'
  <2>1. /\ diagnostics_generation' =
             [v \in DOMAIN diagnostics_generation \ {main.uri} |-> diagnostics_generation[v]]
        /\ main'.at = "clear" /\ UNCHANGED <<next_generation, stamped, pool, shown, edits>>
    BY <1>t, <1>7 DEF RetireGeneration, Goto, client, TypeInv, MainInv
  <2>2. TasksFresh'
    BY <1>t, <2>1 DEF TasksFresh, Fresh, pool
  <2> QED  BY <1>n, <2>1, <2>2 DEF FeedInv, Bringing
<1>8. ASSUME ClearDiagnostics PROVE FeedInv'
  <2>1. /\ shown' = [shown EXCEPT ![main.uri] = 0] /\ main'.at = "idle"
        /\ UNCHANGED <<stamps, pool, edits>>
    BY <1>8 DEF ClearDiagnostics, Empty, Rest
  <2>2. TasksFresh'
    BY <1>t, <2>1, TasksStayFresh
  <2> QED  BY <1>n, <2>1, <2>2 DEF FeedInv, Bringing, stamps
<1>9. ASSUME NEW id \in Id, NEW kind \in Kind, NEW u \in Uri, DispatchRequest(id, kind, u)
      PROVE  FeedInv'
  <2> DEFINE new == NewTask(kind, u, id, 0)
  <2>1. /\ UNCHANGED <<files, stamps, working, main, shown, edits>>
        /\ UNCHANGED queue \/ queue' = Append(queue, new)
    BY <1>9 DEF DispatchRequest
  <2>2. new.kind # "diagnostics"
    BY DEF NewTask, Kind
  <2> HIDE DEF new
  <2>3. queue \in Seq(Tasks)
    BY <1>t DEF TypeInv, MainInv
  <2>4. TasksFresh'
    <3>1. CASE UNCHANGED queue
      BY <1>t, <2>1, <3>1 DEF TasksFresh, stamps
    <3>2. CASE queue' = Append(queue, new)
      <4>1. Fresh(new, diagnostics_generation, next_generation, stamped)
        BY <2>2 DEF Fresh
      <4> QED  BY <1>t, <2>1, <2>3, <3>2, <4>1, AppendProperties DEF TasksFresh, stamps
    <3> QED  BY <2>1, <3>1, <3>2
  <2> QED  BY <1>t, <2>1, <2>4 DEF FeedInv, Bringing, files, stamps, FileOf
<1>10. ASSUME Shutdown PROVE FeedInv'
  <2>1. main'.at = "stopped" /\ UNCHANGED <<stamps, pool, shown, edits>>
    BY <1>10 DEF Shutdown, Rest, client
  <2>2. TasksFresh'
    BY <1>t, <2>1, TasksStayFresh
  <2> QED  BY <1>n, <2>1, <2>2 DEF FeedInv, Bringing, stamps
<1>11. ASSUME UNCHANGED <<files, stamps, main, shown, edits>>, TasksFresh' PROVE FeedInv'
  BY <1>t, <1>11 DEF FeedInv, Bringing, files, stamps, FileOf
<1>12. ASSUME NEW w \in Worker, Take(w) PROVE FeedInv'
  <2>1. /\ queue \in Seq(Tasks) /\ queue # <<>> /\ queue' = Tail(queue)
        /\ working' = [working EXCEPT ![w] = [task |-> Head(queue), outcome |-> "computing"]]
        /\ UNCHANGED <<files, stamps, main, shown, edits>>
    BY <1>t, <1>12 DEF Take, TypeInv, MainInv, client
  <2>2. /\ Len(queue') = Len(queue) - 1 /\ Head(queue) = queue[1] /\ Len(queue) >= 1
        /\ \A i \in 1..Len(queue') : queue'[i] = queue[i + 1] /\ i + 1 \in 1..Len(queue)
    BY <2>1
  <2>3. TasksFresh'
    <3>1. \A v \in Worker : working'[v].task = IF v = w THEN Head(queue) ELSE working[v].task
      BY <1>t, <2>1 DEF TypeInv, MainInv
    <3> QED  BY <1>t, <2>1, <2>2, <3>1 DEF TasksFresh, stamps
  <2> QED  BY <1>11, <2>1, <2>3
<1>13. ASSUME NEW w \in Worker, Compute(w) PROVE FeedInv'
  <2>1. UNCHANGED <<files, stamps, main, shown, edits, queue>>
    BY <1>13 DEF Compute, client
  <2>2. PICK outcome : working' = [working EXCEPT ![w].outcome = outcome]
    BY <1>13 DEF Compute
  <2>3. \A v \in Worker : working'[v].task = working[v].task
    <3>1. working[w] \in [task : Tasks, outcome : Outcome]
      BY <1>t, <1>13, BusyWorker DEF Compute, Busy
    <3> QED  BY <1>t, <2>2, <3>1 DEF TypeInv, MainInv
  <2>4. TasksFresh'
    BY <1>t, <2>1, <2>3 DEF TasksFresh, stamps
  <2> QED  BY <1>11, <2>1, <2>4
<1>14. ASSUME NEW w \in Worker, Finish(w) PROVE FeedInv'
  <2> DEFINE task == working[w].task  outcome == working[w].outcome
  <2>1. /\ working' = [working EXCEPT ![w] = Free]
        /\ UNCHANGED <<files, stamps, queue, edits, main>>
    BY <1>14 DEF Finish
  <2>2. TasksFresh'
    <3>1. \A v \in Worker : working'[v].task = IF v = w THEN NoTask ELSE working[v].task
      BY <1>t, <2>1, FreeWorker DEF TypeInv, MainInv
    <3>2. Fresh(NoTask, diagnostics_generation, next_generation, stamped)
      BY FreeWorker DEF Fresh
    <3> QED  BY <1>t, <2>1, <3>1, <3>2 DEF TasksFresh, stamps
  <2>3. \/ shown' = shown
        \/ task.uri \in Uri /\ shown' = [shown EXCEPT ![task.uri] = stamped[task.uri]]
    <3>1. CASE task.kind = "diagnostics"
      <4>1. SendIfCurrent(task, outcome)
        BY <1>14, <3>1 DEF Finish
      <4>2. task \in Tasks
        BY <1>t, <1>14, BusyWorker DEF Finish, Busy
      <4>3. task.uri \in Uri
        BY <4>2 DEF Tasks, Task
      <4>4. Current(task) => task.text = stamped[task.uri]
        BY <1>t, <3>1 DEF TasksFresh, Fresh, Current
      <4> QED  BY <4>1, <4>3, <4>4 DEF SendIfCurrent
    <3>2. CASE task.kind # "diagnostics"
      BY <1>14, <3>2 DEF Finish, Respond
    <3> QED  BY <3>1, <3>2
  <2> HIDE DEF task
  <2>4. \A u \in Uri : shown'[u] = shown[u] \/ shown'[u] = stamped[u]
    BY <1>n, <2>3
  <2>5. Bringing' <=> Bringing
    BY <2>1 DEF Bringing
  <2>6. \A u \in Uri : shown'[u] <= edits
    BY <1>n, <2>4
  <2>7. Bringing => \A u \in Uri : shown'[u] < edits
    BY <1>t, <2>4 DEF FeedInv
  <2> QED  BY <1>t, <2>1, <2>2, <2>5, <2>6, <2>7 DEF FeedInv, files, stamps, FileOf
<1>15. CASE UNCHANGED vars
  <2>1. TasksFresh'
    BY <1>t, <1>15, TasksStayFresh DEF vars
  <2> QED  BY <1>11, <1>15, <2>1 DEF vars, client
<1> QED
  BY <1>1, <1>2, <1>3, <1>4, <1>5, <1>6, <1>7, <1>8, <1>9, <1>10, <1>12, <1>13, <1>14, <1>15
  DEF Next, Client, MainStep, WorkerStep
-----------------------------------------------------------------------------
LEMMA InitOnce == Init => OnceInv
<1> SUFFICES ASSUME Init, NEW id \in Id
             PROVE  Once(answers[id], id \in asked, QueuedAt(queue, id), HeldBy(working, id))
  BY DEF OnceInv
<1>1. answers[id] = <<>> /\ id \notin asked /\ queue = <<>> /\ working = [w \in Worker |-> Free]
  BY DEF Init
<1>2. QueuedAt(queue, id) = {} /\ HeldBy(working, id) = {}
  BY <1>1, FreeWorker DEF QueuedAt, HeldBy
<1> QED  BY <1>1, <1>2 DEF Once

LEMMA OnceNext == IInv /\ [Next]_vars => OnceInv'
<1> SUFFICES ASSUME IInv, [Next]_vars, NEW id \in Id
             PROVE  Once(answers'[id], id \in asked', QueuedAt(queue', id), HeldBy(working', id))
  BY DEF OnceInv
<1> DEFINE at == QueuedAt(queue, id)
           by == HeldBy(working, id)
<1>t. TypeInv /\ DocInv /\ Once(answers[id], id \in asked, at, by)
  BY DEF IInv, OnceInv
<1>q. queue \in Seq(Tasks) /\ Len(queue) \in Nat
  BY <1>t DEF TypeInv, MainInv
<1>k. ASSUME UNCHANGED <<answers, asked, pool>>
      PROVE  Once(answers'[id], id \in asked', QueuedAt(queue', id), HeldBy(working', id))
  BY <1>t, <1>k DEF pool
\* Marking moves no task.
<1>b. ASSUME NEW u \in Uri, NEW to \in {"Open", "Closed"}, BeginSet(u, to), UNCHANGED <<answers, asked>>
      PROVE  Once(answers'[id], id \in asked', QueuedAt(queue', id), HeldBy(working', id))
  <2>1. QueuedAt(queue', id) = at
    <3>1. \A i \in 1..Len(queue) : queue'[i].id = queue[i].id
      <4>1. \A i \in 1..Len(queue) : queue[i] \in Tasks
        BY <1>q
      <4> QED  BY <1>t, <1>b, <4>1, Marking, EditedTask
    <3> QED  BY <1>t, <1>b, <3>1, Marking DEF QueuedAt
  <2>2. HeldBy(working', id) = by
    <3>1. ASSUME NEW w \in Worker
          PROVE  /\ working'[w].outcome = working[w].outcome
                 /\ working'[w].outcome # "idle" => working'[w].task.id = working[w].task.id
      <4>1. CASE Busy(w)
        <5>1. working[w].task \in Tasks
          BY <1>t, <4>1, BusyWorker
        <5> QED  BY <1>t, <1>b, <4>1, <5>1, Marking, EditedTask
      <4>2. CASE ~Busy(w)
        <5>1. working'[w] = working[w]
          BY <1>t, <1>b, <4>2, Marking
        <5> QED  BY <5>1
      <4> QED  BY <4>1, <4>2
    <3> QED  BY <3>1 DEF HeldBy
  <2> QED  BY <1>t, <1>b, <2>1, <2>2
\* A task joins the end of the queue.
<1>a. ASSUME NEW new \in Tasks, queue' = Append(queue, new)
      PROVE  QueuedAt(queue', id) = IF new.id = id THEN at \cup {Len(queue) + 1} ELSE at
  <2>1. /\ Len(queue') = Len(queue) + 1 /\ queue'[Len(queue) + 1] = new
        /\ \A i \in 1..Len(queue) : queue'[i] = queue[i]
    BY <1>q, <1>a
  <2>2. \A i : i \in 1..Len(queue') <=> i \in 1..Len(queue) \/ i = Len(queue) + 1
    BY <1>q, <2>1
  <2>3. \A i : i \in QueuedAt(queue', id) <=> i \in at \/ (i = Len(queue) + 1 /\ new.id = id)
    BY <2>1, <2>2 DEF QueuedAt
  <2> HIDE DEF at
  <2> QED  BY <2>3
<1>1. ASSUME NEW u \in Uri, DidOpen(u) \/ DidChange(u) \/ DidClose(u)
      PROVE  Once(answers'[id], id \in asked', QueuedAt(queue', id), HeldBy(working', id))
  <2>1. /\ UNCHANGED <<answers, asked>>
        /\ BeginSet(u, "Open") \/ BeginSet(u, "Closed") \/ UNCHANGED pool
    BY <1>1 DEF DidOpen, DidChange, DidClose, client
  <2> QED  BY <1>k, <1>b, <2>1
<1>2. ASSUME SetText \/ BumpGeneration \/ RetireGeneration \/ ClearDiagnostics \/ Shutdown
      PROVE  Once(answers'[id], id \in asked', QueuedAt(queue', id), HeldBy(working', id))
  BY <1>k, <1>2 DEF SetText, BumpGeneration, RetireGeneration, ClearDiagnostics, Shutdown, client
<1>3. ASSUME PublishDiagnostics
      PROVE  Once(answers'[id], id \in asked', QueuedAt(queue', id), HeldBy(working', id))
  <2> DEFINE new == NewTask("diagnostics", main.uri, "none", next_generation)
  <2>1. queue' = Append(queue, new) /\ UNCHANGED <<working, answers, asked>>
    BY <1>3 DEF PublishDiagnostics, client
  <2>2. new \in Tasks
    BY <1>t, <1>3, NewTasks DEF PublishDiagnostics, TypeInv, MainInv
  <2>3. new.id # id
    BY IdAssumption DEF NewTask
  <2> HIDE DEF new
  <2> QED  BY <1>t, <1>a, <2>1, <2>2, <2>3
<1>4. ASSUME NEW r \in Id, NEW kind \in Kind, NEW u \in Uri, DispatchRequest(r, kind, u)
      PROVE  Once(answers'[id], id \in asked', QueuedAt(queue', id), HeldBy(working', id))
  <2> DEFINE new == NewTask(kind, u, r, 0)
  <2>1. /\ r \notin asked /\ asked' = asked \cup {r} /\ UNCHANGED working
        /\ \/ /\ \E response \in Response : answers' = Answered(r, response)
              /\ UNCHANGED queue
           \/ queue' = Append(queue, new) /\ UNCHANGED answers
    BY <1>4 DEF DispatchRequest, Response
  <2>2. new \in Tasks /\ new.id = r
    <3>1. new \in Tasks
      BY <1>t, NewTasks, IdAssumption DEF Kind
    <3> QED  BY <3>1 DEF NewTask
  <2> HIDE DEF new
  <2>3. CASE UNCHANGED queue /\ \E response \in Response : answers' = Answered(r, response)
    <3>1. CASE r = id
      <4>1. answers[id] = <<>> /\ at = {} /\ by = {}
        BY <1>t, <2>1, <3>1 DEF Once
      <4>2. Len(answers'[id]) = 1
        BY <1>t, <2>3, <3>1, <4>1 DEF Answered, TypeInv, MainInv
      <4> QED  BY <2>1, <2>3, <3>1, <4>1, <4>2 DEF Once
    <3>2. CASE r # id
      <4>1. answers'[id] = answers[id]
        BY <1>t, <2>3, <3>2 DEF Answered, TypeInv, MainInv
      <4>2. id \in asked' <=> id \in asked
        BY <2>1, <3>2
      <4> QED  BY <1>t, <2>1, <2>3, <4>1, <4>2
    <3> QED  BY <3>1, <3>2
  <2>4. CASE queue' = Append(queue, new) /\ UNCHANGED answers
    <3>1. CASE r = id
      <4>1. answers[id] = <<>> /\ at = {} /\ by = {}
        BY <1>t, <2>1, <3>1 DEF Once
      <4>2. QueuedAt(queue', id) = {Len(queue) + 1}
        BY <1>a, <2>2, <2>4, <3>1, <4>1
      <4> QED  BY <2>1, <2>4, <3>1, <4>1, <4>2 DEF Once
    <3>2. CASE r # id
      <4>1. QueuedAt(queue', id) = at
        BY <1>a, <2>2, <2>4, <3>2
      <4>2. id \in asked' <=> id \in asked
        BY <2>1, <3>2
      <4> QED  BY <1>t, <2>1, <2>4, <4>1, <4>2
    <3> QED  BY <3>1, <3>2
  <2> QED  BY <2>1, <2>3, <2>4
<1>5. ASSUME NEW w \in Worker, Take(w)
      PROVE  Once(answers'[id], id \in asked', QueuedAt(queue', id), HeldBy(working', id))
  <2>1. /\ ~Busy(w) /\ queue # <<>> /\ queue' = Tail(queue) /\ UNCHANGED <<answers, asked>>
        /\ working' = [working EXCEPT ![w] = [task |-> Head(queue), outcome |-> "computing"]]
    BY <1>5 DEF Take, client
  <2>2. /\ Len(queue') = Len(queue) - 1 /\ Head(queue) = queue[1] /\ Len(queue) >= 1
        /\ \A i \in 1..Len(queue') : queue'[i] = queue[i + 1]
    BY <1>q, <2>1
  <2>3. \A v \in Worker : working'[v] = IF v = w THEN [task |-> Head(queue), outcome |-> "computing"]
                                              ELSE working[v]
    BY <1>t, <2>1 DEF TypeInv, MainInv
  <2>4. w \notin by
    BY <2>1 DEF HeldBy, Busy
  <2>5. \A i \in Nat : i \in QueuedAt(queue', id) <=> i + 1 \in at /\ i # 0
    BY <1>q, <2>2 DEF QueuedAt
  <2>6. at \subseteq Nat /\ QueuedAt(queue', id) \subseteq Nat /\ 0 \notin at
    BY DEF QueuedAt
  <2>7. CASE queue[1].id = id
    <3>1. 1 \in at
      BY <1>q, <2>2, <2>7 DEF QueuedAt
    <3>2. at = {1} /\ by = {} /\ id \in asked /\ answers[id] = <<>>
      <4> HIDE DEF at, by
      <4> QED  BY <1>t, <3>1 DEF Once
    <3>3. QueuedAt(queue', id) = {}
      <4> HIDE DEF at
      <4> QED  BY <2>5, <2>6, <3>2
    <3>4. HeldBy(working', id) = {w}
      BY <2>2, <2>3, <2>7, <3>2 DEF HeldBy
    <3> QED  BY <2>1, <3>2, <3>3, <3>4 DEF Once
  <2>8. CASE queue[1].id # id
    <3>1. 1 \notin at
      BY <2>8 DEF QueuedAt
    <3>2. HeldBy(working', id) = by
      BY <2>2, <2>3, <2>4, <2>8 DEF HeldBy
    <3>3. at = {} => QueuedAt(queue', id) = {}
      <4> HIDE DEF at
      <4> QED  BY <2>5, <2>6
    <3>4. ASSUME NEW i, at = {i} PROVE QueuedAt(queue', id) = {i - 1}
      <4> HIDE DEF at
      <4>1. i \in Nat /\ i # 0 /\ i # 1 /\ i - 1 \in Nat
        BY <2>6, <3>1, <3>4
      <4>2. \A k \in Nat : k \in QueuedAt(queue', id) <=> k = i - 1
        BY <2>5, <3>4, <4>1
      <4> QED  BY <2>6, <4>1, <4>2
    <3> HIDE DEF at, by
    <3> QED  BY <1>t, <2>1, <3>2, <3>3, <3>4 DEF Once
  <2> QED  BY <2>7, <2>8
<1>6. ASSUME NEW w \in Worker, Compute(w)
      PROVE  Once(answers'[id], id \in asked', QueuedAt(queue', id), HeldBy(working', id))
  <2>1. UNCHANGED <<answers, asked, queue>> /\ working[w].outcome = "computing"
    BY <1>6 DEF Compute, client
  <2>2. PICK outcome \in Outcomes(working[w].task) : working' = [working EXCEPT ![w].outcome = outcome]
    BY <1>6 DEF Compute
  <2>3. outcome # "idle"
    BY <2>2 DEF Outcomes
  <2>4. \A v \in Worker : /\ working'[v].task = working[v].task
                          /\ working'[v].outcome # "idle" <=> working[v].outcome # "idle"
    <3>1. working[w] \in [task : Tasks, outcome : Outcome]
      BY <1>t, <2>1, BusyWorker DEF Busy
    <3> QED  BY <1>t, <2>1, <2>2, <2>3, <3>1 DEF TypeInv, MainInv
  <2>5. HeldBy(working', id) = by
    <3>1. \A v \in Worker :
            (working'[v].outcome # "idle" /\ working'[v].task.id = id)
              <=> (working[v].outcome # "idle" /\ working[v].task.id = id)
      BY <2>4
    <3> QED  BY <3>1 DEF HeldBy
  <2> QED  BY <1>t, <2>1, <2>5
<1>7. ASSUME NEW w \in Worker, Finish(w)
      PROVE  Once(answers'[id], id \in asked', QueuedAt(queue', id), HeldBy(working', id))
  <2> DEFINE task == working[w].task  outcome == working[w].outcome
  <2>1. UNCHANGED <<queue, asked>> /\ working' = [working EXCEPT ![w] = Free] /\ Busy(w)
    BY <1>7 DEF Finish, Busy
  <2>2. task \in Tasks
    BY <1>t, <2>1, BusyWorker
  <2>3. HeldBy(working', id) = by \ {w}
    <3>1. \A v \in Worker : working'[v] = IF v = w THEN Free ELSE working[v]
      BY <1>t, <2>1 DEF TypeInv, MainInv
    <3> QED  BY <3>1, FreeWorker DEF HeldBy
  <2>4. CASE task.id = id
    <3>1. w \in by
      BY <2>1, <2>4 DEF HeldBy, Busy
    <3>2. by = {w} /\ at = {} /\ id \in asked /\ answers[id] = <<>>
      <4> HIDE DEF at, by
      <4> QED  BY <1>t, <3>1 DEF Once
    <3>3. task.kind # "diagnostics"
      BY <2>2, <2>4, IdAssumption DEF Tasks
    <3>4. answers' = [answers EXCEPT ![id] = Append(@, ResponseTo(outcome))]
      BY <1>7, <2>4, <3>3 DEF Finish, Respond, Answered
    <3>5. Len(answers'[id]) = 1
      BY <1>t, <3>2, <3>4 DEF TypeInv, MainInv
    <3>6. HeldBy(working', id) = {}
      <4> HIDE DEF by
      <4> QED  BY <2>3, <3>2
    <3> QED  BY <2>1, <3>2, <3>5, <3>6 DEF Once
  <2>5. CASE task.id # id
    <3>1. answers'[id] = answers[id]
      BY <1>t, <1>7, <2>5 DEF Finish, Respond, SendIfCurrent, Answered, TypeInv, MainInv
    <3>2. w \notin by
      BY <2>5 DEF HeldBy
    <3>3. HeldBy(working', id) = by
      <4> HIDE DEF by
      <4> QED  BY <2>3, <3>2
    <3> QED  BY <1>t, <2>1, <3>1, <3>3
  <2> QED  BY <2>4, <2>5
<1>8. CASE UNCHANGED vars
  BY <1>k, <1>8 DEF vars, client
<1> QED
  BY <1>1, <1>2, <1>3, <1>4, <1>5, <1>6, <1>7, <1>8
  DEF Next, Client, MainStep, WorkerStep
-----------------------------------------------------------------------------
LEMMA InvInductive == Spec => []IInv
<1>1. Init => IInv
  BY InitTypes, InitDocs, InitFeed, InitOnce DEF IInv
<1>2. IInv /\ [Next]_vars => IInv'
  BY TypesNext, DocsNext, FeedNext, OnceNext DEF IInv
<1> QED  BY <1>1, <1>2, PTL DEF Spec

\* Documents, inputs and generations stay in step (FileMaps and
\* diagnostics_generation): one input for each document ever opened, empty
\* while it is closed, and one generation for each open document.
THEOREM DocumentsStayInStep == Spec => []DocumentsInStep
<1>1. IInv => DocumentsInStep
  <2> SUFFICES ASSUME IInv PROVE DocumentsInStep
    OBVIOUS
  <2>1. TypeInv /\ DocInv
    BY DEF IInv
  <2>2. DOMAIN by_file = 1..Len(by_file)
    BY <2>1 DEF TypeInv, MainInv
  <2>3. OneInputPerDocument
    BY <2>1, <2>2 DEF OneInputPerDocument, DocInv, State, FileOf
  <2>4. GenerationsAreOpenDocuments
    <3>1. Idle => \A u \in Uri : u \in DOMAIN diagnostics_generation <=> State(u) = "Open"
      BY <2>1 DEF Idle, Rest, DocInv
    <3> QED  BY <2>1, <3>1 DEF GenerationsAreOpenDocuments, State, TypeInv, MainInv
  <2> QED  BY <2>1, <2>3, <2>4 DEF DocumentsInStep, TypeInv, MainInv
<1> QED  BY <1>1, InvInductive, PTL

\* Each request id gets one response and no second one (dispatch_request and
\* respond), whatever panics, is cancelled or is still in the queue.
THEOREM AnsweredOnce == Spec => []OneResponsePerRequest
<1>1. IInv => OneResponsePerRequest
  <2> SUFFICES ASSUME IInv, NEW id \in Id
               PROVE  Len(answers[id]) + Cardinality({i \in DOMAIN queue : queue[i].id = id})
                        + Cardinality({w \in Worker : Busy(w) /\ working[w].task.id = id})
                        = IF id \in asked THEN 1 ELSE 0
    BY DEF OneResponsePerRequest
  <2>1. /\ TypeInv
        /\ Once(answers[id], id \in asked, QueuedAt(queue, id), HeldBy(working, id))
    BY DEF IInv, OnceInv
  <2>2. {i \in DOMAIN queue : queue[i].id = id} = QueuedAt(queue, id)
    BY <2>1 DEF QueuedAt, TypeInv, MainInv
  <2>3. {w \in Worker : Busy(w) /\ working[w].task.id = id} = HeldBy(working, id)
    BY DEF HeldBy, Busy
  <2>4. Cardinality({}) = 0 /\ (\A x : Cardinality({x}) = 1) /\ Len(<<>>) = 0
    BY FS_EmptySet, FS_Singleton
  <2> DEFINE given == answers[id]
             at == QueuedAt(queue, id)
             by == HeldBy(working, id)
  <2>5. \/ id \notin asked /\ given = <<>> /\ at = {} /\ by = {}
        \/ id \in asked /\ Len(given) = 1 /\ at = {} /\ by = {}
        \/ id \in asked /\ given = <<>> /\ (\E i : at = {i}) /\ by = {}
        \/ id \in asked /\ given = <<>> /\ at = {} /\ (\E w : by = {w})
    BY <2>1 DEF Once
  <2>6. Len(given) + Cardinality(at) + Cardinality(by) = IF id \in asked THEN 1 ELSE 0
    <3> HIDE DEF given, at, by
    <3>1. CASE id \notin asked /\ given = <<>> /\ at = {} /\ by = {}
      BY <2>4, <3>1
    <3>2. CASE id \in asked /\ Len(given) = 1 /\ at = {} /\ by = {}
      BY <2>4, <3>2
    <3>3. CASE id \in asked /\ given = <<>> /\ (\E i : at = {i}) /\ by = {}
      <4>1. Cardinality(at) = 1
        BY <2>4, <3>3
      <4> QED  BY <2>4, <3>3, <4>1
    <3>4. CASE id \in asked /\ given = <<>> /\ at = {} /\ (\E w : by = {w})
      <4>1. Cardinality(by) = 1
        BY <2>4, <3>4
      <4> QED  BY <2>4, <3>4, <4>1
    <3> QED  BY <2>5, <3>1, <3>2, <3>3, <3>4
  <2> QED  BY <2>2, <2>3, <2>6
<1> QED  BY <1>1, InvInductive, PTL

LEMMA FeedStep == IInv /\ [Next]_vars => [Feed!Next]_(Feed!vars)
<1> SUFFICES ASSUME IInv, [Next]_vars PROVE [Feed!Next]_(Feed!vars)
  OBVIOUS
<1> DEFINE latest == [u \in DOMAIN diagnostics_generation |-> stamped[u]]
<1>t. TypeInv /\ DocInv /\ FeedInv /\ TasksFresh
  BY DEF IInv, FeedInv
<1>1. ASSUME UNCHANGED <<stamps, shown>> PROVE UNCHANGED Feed!vars
  BY <1>1 DEF Feed!vars, stamps
\* Stamping a text puts it up.
<1>2. ASSUME BumpGeneration PROVE Feed!Next
  <2>m. PICK m \in Uri : m = main.uri
    BY <1>t, <1>2 DEF BumpGeneration, TypeInv, MainInv
  <2>1. /\ Bringing /\ text[FileOf(m)] = edits
        /\ DOMAIN diagnostics_generation' = DOMAIN diagnostics_generation \cup {m}
        /\ stamped' = [stamped EXCEPT ![m] = edits] /\ shown' = shown
    BY <1>t, <1>2, <2>m DEF BumpGeneration, FeedInv, FileOf, Bringing, client
  <2>2. /\ edits \in 1..MaxStamps
        /\ \A u \in Uri : stamped[u] < edits /\ shown[u] < edits
    BY <1>t, <2>1, MaxStampsAssumption DEF FeedInv, TypeInv, MainInv
  <2>3. latest' = [v \in DOMAIN latest \cup {m} |-> IF v = m THEN edits ELSE latest[v]]
    BY <1>t, <2>1 DEF TypeInv, MainInv
  <2>4. PICK t \in Feed!Text : t = edits
    BY <2>2 DEF Feed!Text
  <2>5. Feed!Put(m, t)
    BY <1>t, <2>1, <2>2, <2>3, <2>4 DEF Feed!Put, TypeInv, MainInv
  <2> QED  BY <2>5 DEF Feed!Next
\* Retiring the generation takes the document off the watched ones.
<1>3. ASSUME RetireGeneration PROVE [Feed!Next]_(Feed!vars)
  <2>m. PICK m \in Uri : m = main.uri
    BY <1>t, <1>3 DEF RetireGeneration, TypeInv, MainInv
  <2>1. /\ DOMAIN diagnostics_generation' = DOMAIN diagnostics_generation \ {m}
        /\ stamped' = stamped /\ shown' = shown
    BY <1>3, <2>m DEF RetireGeneration, client
  <2>2. latest' = [v \in DOMAIN latest \ {m} |-> latest[v]]
    BY <2>1
  <2>3. CASE m \in DOMAIN diagnostics_generation
    BY <2>1, <2>2, <2>3 DEF Feed!Next, Feed!Unwatch
  <2>4. CASE m \notin DOMAIN diagnostics_generation
    <3>1. latest' = latest
      BY <2>1, <2>4
    <3> QED  BY <2>1, <3>1 DEF Feed!vars
  <2> QED  BY <2>3, <2>4
<1>4. ASSUME ClearDiagnostics PROVE Feed!Next
  <2>m. PICK m \in Uri : m = main.uri
    BY <1>t, <1>4 DEF ClearDiagnostics, TypeInv, MainInv
  <2>1. m \notin DOMAIN diagnostics_generation
    BY <1>t, <1>4, <2>m DEF ClearDiagnostics, DocInv
  <2>2. shown' = [shown EXCEPT ![m] = 0] /\ UNCHANGED <<diagnostics_generation, stamped>>
    BY <1>4, <2>m DEF ClearDiagnostics, Empty, stamps
  <2> QED  BY <2>1, <2>2 DEF Feed!Next, Feed!ClearUp, Feed!Clear
\* Sending is publishing the text stamped last, or sending it once more.
<1>5. ASSUME NEW w \in Worker, Finish(w) PROVE [Feed!Next]_(Feed!vars)
  <2> DEFINE task == working[w].task  outcome == working[w].outcome
  <2>1. UNCHANGED stamps
    BY <1>5 DEF Finish
  <2>2. CASE shown' = shown
    BY <1>1, <2>1, <2>2
  <2>3. CASE shown' # shown
    <3>1. task.kind = "diagnostics"
      BY <1>5, <2>3 DEF Finish, Respond
    <3>2. SendIfCurrent(task, outcome)
      BY <1>5, <3>1 DEF Finish
    <3>3. Current(task) /\ shown' = [shown EXCEPT ![task.uri] = task.text]
      BY <2>3, <3>2 DEF SendIfCurrent
    <3>4. /\ task.uri \in Uri /\ task.uri \in DOMAIN diagnostics_generation
          /\ task.text = stamped[task.uri]
      BY <1>t, <3>1, <3>3 DEF TasksFresh, Fresh, Current, TypeInv, MainInv
    <3> HIDE DEF task
    <3>5. shown[task.uri] # stamped[task.uri]
      BY <1>t, <2>3, <3>3, <3>4 DEF TypeInv, MainInv
    <3>6. Feed!Publish(task.uri)
      BY <2>1, <3>3, <3>4, <3>5 DEF Feed!Publish, stamps
    <3> QED  BY <3>4, <3>6 DEF Feed!Next
  <2> QED  BY <2>2, <2>3
<1>6. CASE UNCHANGED vars
  BY <1>1, <1>6 DEF vars, client
<1>7. ASSUME NEW u \in Uri, DidOpen(u) \/ DidChange(u) \/ DidClose(u) PROVE UNCHANGED Feed!vars
  BY <1>1, <1>7 DEF DidOpen, DidChange, DidClose, client
<1>8. ASSUME SetText \/ PublishDiagnostics \/ Shutdown PROVE UNCHANGED Feed!vars
  BY <1>1, <1>8 DEF SetText, PublishDiagnostics, Shutdown, client
<1>9. ASSUME NEW w \in Worker, Take(w) \/ Compute(w) PROVE UNCHANGED Feed!vars
  BY <1>1, <1>9 DEF Take, Compute, client
<1>10. ASSUME NEW id \in Id, NEW kind \in Kind, NEW u \in Uri, DispatchRequest(id, kind, u)
       PROVE  UNCHANGED Feed!vars
  BY <1>1, <1>10 DEF DispatchRequest
<1> QED
  BY <1>2, <1>3, <1>4, <1>5, <1>6, <1>7, <1>8, <1>9, <1>10
  DEF Next, Client, MainStep, WorkerStep

\* What the client is shown implements DiagnosticsFeed: a result that was
\* overtaken by an edit, or by a close and a reopen, never reaches it.
THEOREM NothingStaleIsShown == Spec => ImplementsFeed
<1>1. Init => Feed!Init
  BY DEF Init, Feed!Init, Feed!Clear, Empty
<1> QED  BY <1>1, InvInductive, FeedStep, PTL DEF Spec, ImplementsFeed, Feed!Spec
-----------------------------------------------------------------------------
(* No result is lost silently.  What the properties of the pool come to is    *)
(* a set of tasks: AliveOf is Alive, without the idle workers' NoTask.        *)

AliveOf(q, work) ==
  {q[i] : i \in 1..Len(q)}
    \cup {work[w].task : w \in {v \in Worker : work[v].outcome # "idle"}}

Awaited(tasks, generations, u) ==
  \E task \in tasks : /\ task.kind = "diagnostics" /\ task.uri = u
                      /\ u \in DOMAIN generations /\ generations[u] = task.generation

\* A task that is still current and was edited under in its own document: the
\* main loop is between setting that text and dating it.
Overtaken(task, generations) ==
  /\ task.kind = "diagnostics" /\ task.uri \in task.edited_since
  /\ task.uri \in DOMAIN generations /\ generations[task.uri] = task.generation
OwnEdits(tasks, generations, m) ==
  \A task \in tasks :
    Overtaken(task, generations) => m.uri = task.uri /\ m.at \in {"set", "stamp", "retire"}

CancelledIn(work) ==
  \A w \in Worker : work[w].outcome = "cancelled" => work[w].task.edited_since # {}

\* What a document that nothing is being done to shows, or will.
Told(u) == \/ shown[u] = stamped[u]
           \/ Awaited(AliveOf(queue, working), diagnostics_generation, u)
           \/ missed[u] \in {"panic", "other edit"}
InHand(u) == main.uri = u /\ main.at \in {"set", "stamp", "spawn"}
ToldInv == \A u \in Uri : State(u) = "Open" /\ ~InHand(u)
                            => text[FileOf(u)] = stamped[u] /\ Told(u)

LossInv ==
  /\ OwnEdits(AliveOf(queue, working), diagnostics_generation, main)
  /\ CancelledIn(working)
  /\ missed \in [Uri -> {"no", "panic", "other edit", "own edit"}]
  /\ ToldInv

LEMMA AliveIs ==
  ASSUME NEW q \in Seq(Tasks), NEW work \in [Worker -> Working]
  PROVE  /\ AliveOf(q, work) \subseteq Tasks
         /\ ({q[i] : i \in DOMAIN q} \cup {work[w].task : w \in Worker}) \ {NoTask}
              = AliveOf(q, work)
<1>1. NoTask \notin Tasks
  BY FreeWorker DEF Tasks, Task, Kind
<1>2. \A i \in 1..Len(q) : q[i] \in Tasks
  OBVIOUS
<1>3. ASSUME NEW w \in Worker
      PROVE  IF work[w].outcome # "idle" THEN work[w].task \in Tasks ELSE work[w].task = NoTask
  BY FreeWorker DEF Working, Outcome
<1>4. DOMAIN q = 1..Len(q)
  OBVIOUS
<1> QED  BY <1>1, <1>2, <1>3, <1>4 DEF AliveOf

LEMMA AliveMarked ==
  ASSUME TypeInv, NEW u \in Uri, NEW to \in {"Open", "Closed"}, BeginSet(u, to)
  PROVE  AliveOf(queue', working') = {Edited(task, u) : task \in AliveOf(queue, working)}
<1>1. /\ Len(queue') = Len(queue)
      /\ \A i \in 1..Len(queue) : queue'[i] = Edited(queue[i], u)
      /\ \A w \in Worker : IF Busy(w) THEN /\ working'[w].outcome = working[w].outcome
                                           /\ working'[w].task = Edited(working[w].task, u)
                                      ELSE working'[w] = working[w]
  BY Marking
<1>2. \A w \in Worker : working'[w].outcome = working[w].outcome
  BY <1>1
<1>3. \A w \in Worker : working[w].outcome # "idle"
                          => working'[w].task = Edited(working[w].task, u)
  BY <1>1 DEF Busy
<1> QED  BY <1>1, <1>2, <1>3 DEF AliveOf

LEMMA AliveAppended ==
  ASSUME TypeInv, NEW new, queue' = Append(queue, new), UNCHANGED working
  PROVE  AliveOf(queue', working') = AliveOf(queue, working) \cup {new}
<1>1. queue \in Seq(Tasks) /\ Len(queue) \in Nat
  BY DEF TypeInv
<1>2. /\ Len(queue') = Len(queue) + 1 /\ queue'[Len(queue) + 1] = new
      /\ \A i \in 1..Len(queue) : queue'[i] = queue[i]
  BY <1>1
<1>3. 1..Len(queue') = 1..Len(queue) \cup {Len(queue) + 1}
  BY <1>1, <1>2
<1>4. {queue'[i] : i \in 1..Len(queue')} = {queue[i] : i \in 1..Len(queue)} \cup {new}
  BY <1>2, <1>3
<1> QED  BY <1>4 DEF AliveOf

LEMMA AliveTaken ==
  ASSUME TypeInv, NEW w \in Worker, Take(w)
  PROVE  AliveOf(queue', working') = AliveOf(queue, working)
<1>1. /\ queue \in Seq(Tasks) /\ queue # <<>> /\ queue' = Tail(queue) /\ ~Busy(w)
      /\ working' = [working EXCEPT ![w] = [task |-> Head(queue), outcome |-> "computing"]]
      /\ working \in [Worker -> Working]
  BY DEF Take, TypeInv
<1>2. /\ Len(queue') = Len(queue) - 1 /\ Head(queue) = queue[1]
      /\ Len(queue) \in Nat /\ Len(queue) >= 1
      /\ \A i \in 1..Len(queue') : queue'[i] = queue[i + 1]
  BY <1>1
<1>3. {queue[i] : i \in 1..Len(queue)} = {queue'[i] : i \in 1..Len(queue')} \cup {Head(queue)}
  <2>1. ASSUME NEW i \in 1..Len(queue)
        PROVE  queue[i] = Head(queue) \/ \E j \in 1..Len(queue') : queue[i] = queue'[j]
    <3>1. CASE i = 1
      BY <1>2, <3>1
    <3>2. CASE i # 1
      <4>1. i - 1 \in 1..Len(queue') /\ (i - 1) + 1 = i
        BY <1>2, <3>2
      <4> QED  BY <1>2, <4>1
    <3> QED  BY <3>1, <3>2
  <2>2. \A j \in 1..Len(queue') : \E i \in 1..Len(queue) : queue'[j] = queue[i]
    BY <1>2
  <2>3. \E i \in 1..Len(queue) : Head(queue) = queue[i]
    <3>1. 1 \in 1..Len(queue)
      BY <1>2
    <3> QED  BY <1>2, <3>1
  <2> DEFINE before == {queue[i] : i \in 1..Len(queue)}
             after == {queue'[i] : i \in 1..Len(queue')}
  <2>4. before \subseteq after \cup {Head(queue)}
    BY <2>1
  <2>5. after \subseteq before
    BY <2>2
  <2>6. Head(queue) \in before
    BY <2>3
  <2> HIDE DEF before, after
  <2>7. before = after \cup {Head(queue)}
    BY <2>4, <2>5, <2>6
  <2> QED  BY <2>7 DEF before, after
<1>4. /\ working'[w].task = Head(queue) /\ working'[w].outcome # "idle"
      /\ working[w].outcome = "idle"
      /\ \A v \in Worker \ {w} : working'[v] = working[v]
  BY <1>1 DEF Busy
<1>5. {working'[v].task : v \in {v \in Worker : working'[v].outcome # "idle"}}
        = {working[v].task : v \in {v \in Worker : working[v].outcome # "idle"}}
            \cup {Head(queue)}
  BY <1>4
<1> QED  BY <1>3, <1>5 DEF AliveOf

LEMMA AliveComputed ==
  ASSUME TypeInv, NEW w \in Worker, Compute(w)
  PROVE  /\ AliveOf(queue', working') = AliveOf(queue, working)
         /\ CancelledIn(working) => CancelledIn(working')
<1>1. working[w] \in [task : Tasks, outcome : Outcome] /\ working \in [Worker -> Working]
      /\ working[w].outcome = "computing"
  BY BusyWorker DEF Compute, Busy, TypeInv
<1>2. PICK outcome \in Outcomes(working[w].task) :
        working' = [working EXCEPT ![w].outcome = outcome]
  BY DEF Compute
<1>3. /\ outcome # "idle"
      /\ outcome = "cancelled" => working[w].task.edited_since # {}
  BY <1>2 DEF Outcomes
<1>4. /\ working'[w].task = working[w].task /\ working'[w].outcome = outcome
      /\ \A v \in Worker \ {w} : working'[v] = working[v]
  BY <1>1, <1>2
<1>5. \A v \in Worker : /\ working'[v].task = working[v].task
                        /\ working'[v].outcome # "idle" <=> working[v].outcome # "idle"
  BY <1>1, <1>3, <1>4
<1>6. queue' = queue
  BY DEF Compute
<1>7. CancelledIn(working) => CancelledIn(working')
  BY <1>3, <1>4 DEF CancelledIn
<1> QED  BY <1>5, <1>6, <1>7 DEF AliveOf

LEMMA AliveFinished ==
  ASSUME TypeInv, NEW w \in Worker, Finish(w)
  PROVE  /\ AliveOf(queue', working') \subseteq AliveOf(queue, working)
         /\ AliveOf(queue, working) \subseteq AliveOf(queue', working') \cup {working[w].task}
         /\ CancelledIn(working) => CancelledIn(working')
<1>1. working \in [Worker -> Working] /\ working' = [working EXCEPT ![w] = Free]
      /\ queue' = queue
  BY DEF Finish, TypeInv
<1>2. /\ working'[w].outcome = "idle"
      /\ \A v \in Worker \ {w} : working'[v] = working[v]
  BY <1>1, FreeWorker
<1>3. CancelledIn(working) => CancelledIn(working')
  BY <1>2 DEF CancelledIn
<1> QED  BY <1>1, <1>2, <1>3 DEF AliveOf

\* With the documents and their generations as they were, what a document was
\* told stands if the tasks that are awaited still are.
LEMMA LossKept ==
  ASSUME LossInv, UNCHANGED <<files, stamps, missed>>,
         OwnEdits(AliveOf(queue', working'), diagnostics_generation, main'),
         CancelledIn(working'),
         \A u \in Uri : State(u) = "Open" /\ ~InHand(u)' =>
           /\ ~InHand(u) /\ shown'[u] = shown[u]
           /\ Awaited(AliveOf(queue, working), diagnostics_generation, u)
                => Awaited(AliveOf(queue', working'), diagnostics_generation, u)
  PROVE  LossInv'
<1>1. /\ diagnostics_generation' = diagnostics_generation /\ stamped' = stamped
      /\ missed' = missed /\ text' = text /\ by_uri' = by_uri
  BY DEF files, stamps
<1>2. \A u : State(u)' = State(u) /\ FileOf(u)' = FileOf(u)
  BY <1>1 DEF State, FileOf
<1>3. ASSUME NEW u \in Uri, State(u)' = "Open", ~InHand(u)'
      PROVE  (text[FileOf(u)] = stamped[u])' /\ Told(u)'
  <2>1. text[FileOf(u)] = stamped[u] /\ Told(u)
    BY <1>2, <1>3 DEF LossInv, ToldInv
  <2>2. (text[FileOf(u)] = stamped[u])'
    BY <1>1, <1>2, <2>1
  <2>3. Told(u)'
    BY <1>1, <1>2, <1>3, <2>1 DEF Told
  <2> QED  BY <2>2, <2>3
<1>4. ToldInv'
  BY <1>3 DEF ToldInv
<1> QED  BY <1>1, <1>4 DEF LossInv

LEMMA InitLoss == Init => LossInv
<1> SUFFICES ASSUME Init PROVE LossInv
  OBVIOUS
<1>1. /\ queue = <<>> /\ working = [w \in Worker |-> Free]
      /\ by_uri = [u \in Uri |-> [state |-> "Unknown", file |-> NoFile]]
      /\ missed = [u \in Uri |-> "no"]
  BY DEF Init
<1>2. AliveOf(queue, working) = {} /\ CancelledIn(working)
  BY <1>1, FreeWorker DEF AliveOf, CancelledIn
<1>3. \A u \in Uri : State(u) # "Open"
  BY <1>1 DEF State
<1> QED  BY <1>1, <1>2, <1>3 DEF LossInv, OwnEdits, ToldInv

LEMMA LossNext == IInv /\ LossInv /\ [Next]_vars => LossInv'
<1> SUFFICES ASSUME IInv, LossInv, [Next]_vars PROVE LossInv'
  OBVIOUS
<1> DEFINE A == AliveOf(queue, working)
           B == AliveOf(queue', working')
           G == diagnostics_generation
<1>t. /\ TypeInv /\ DocInv /\ FeedInv /\ TasksFresh
      /\ OwnEdits(A, G, main) /\ CancelledIn(working) /\ ToldInv
  BY DEF IInv, FeedInv, LossInv
<1>n. /\ queue \in Seq(Tasks) /\ working \in [Worker -> Working] /\ next_generation \in Nat
      /\ shown \in [Uri -> Nat] /\ stamped \in [Uri -> Nat]
      /\ by_uri \in [Uri -> [state : FileState, file : Nat]] /\ text \in Seq(Nat)
      /\ missed \in [Uri -> {"no", "panic", "other edit", "own edit"}]
      /\ DOMAIN G \subseteq Uri
  BY <1>t DEF TypeInv, LossInv
<1>x. text \in Seq(Nat) /\ DOMAIN text = 1..Len(text)
  BY <1>t DEF TypeInv
<1>a. \A task \in A : /\ task \in Tasks /\ task.uri \in Uri /\ task.generation \in Nat
                      /\ Fresh(task, G, next_generation, stamped)
  <2>1. A \subseteq Tasks
    BY <1>n, AliveIs
  <2>2. \A task \in A : Fresh(task, G, next_generation, stamped)
    BY <1>t DEF AliveOf, TasksFresh
  <2> QED  BY <2>1, <2>2 DEF Tasks, Task
<1>p. UNCHANGED pool => B = A /\ CancelledIn(working')
  BY <1>t DEF pool
<1>k. \A v : UNCHANGED files => State(v)' = State(v) /\ FileOf(v)' = FileOf(v)
  BY DEF files, State, FileOf
\* Outside the steps that set and date a text nothing current is overtaken.
<1>o. main.at \notin {"set", "stamp", "retire"} => \A task \in A : ~Overtaken(task, G)
  BY <1>t DEF OwnEdits
<1>i. Idle => main.at = "idle" /\ \A u \in Uri : ~InHand(u)
  BY DEF Idle, Rest, InHand
<1>m. main.at \notin {"idle", "stopped"} => main.uri \in Uri
  BY <1>t DEF TypeInv, MainInv
<1> HIDE DEF A, B, G
\* A document that another one is being handled for, or none, is told as before.
<1>s. ASSUME NEW v \in Uri, State(v)' = "Open", State(v) = "Open", ~InHand(v), FileOf(v)' = FileOf(v),
             text'[FileOf(v)] = text[FileOf(v)], stamped'[v] = stamped[v],
             shown'[v] = shown[v], missed'[v] = missed[v],
             Awaited(A, G, v) => Awaited(B, diagnostics_generation', v)
      PROVE  (text[FileOf(v)] = stamped[v])' /\ Told(v)'
  <2>1. text[FileOf(v)] = stamped[v] /\ Told(v)
    BY <1>t, <1>s DEF ToldInv
  <2>2. (text[FileOf(v)] = stamped[v])'
    BY <1>s, <2>1
  <2>3. Told(v)'
    BY <1>s, <2>1 DEF Told, A, B, G
  <2> QED  BY <2>2, <2>3
<1>b. ASSUME Idle, NEW u \in Uri, NEW to \in {"Open", "Closed"}, BeginSet(u, to),
             UNCHANGED <<files, stamps, shown, missed>>
      PROVE  LossInv'
  <2>1. B = {Edited(task, u) : task \in A}
    BY <1>t, <1>b, AliveMarked DEF A, B
  <2>2. \A task \in A : /\ Edited(task, u).kind = task.kind /\ Edited(task, u).uri = task.uri
                        /\ Edited(task, u).generation = task.generation
                        /\ Edited(task, u).edited_since = task.edited_since \cup {u}
    BY <1>a DEF Edited, Tasks, Task
  <2>3. main'.at = "set" /\ main'.uri = u
    BY <1>b DEF BeginSet
  <2>4. OwnEdits(B, G, main')
    <3> SUFFICES ASSUME NEW task \in A, Overtaken(Edited(task, u), G) PROVE task.uri = u
      BY <2>1, <2>2, <2>3 DEF OwnEdits
    <3> QED  BY <1>b, <1>i, <1>o, <2>2 DEF Overtaken
  <2>5. CancelledIn(working')
    <3>1. ASSUME NEW w \in Worker, working'[w].outcome = "cancelled"
          PROVE  working'[w].task.edited_since # {}
      <4>1. Busy(w) /\ working'[w].task = Edited(working[w].task, u)
        BY <1>t, <1>b, <3>1, Marking, BusyWorker, FreeWorker DEF Busy
      <4>2. working[w].task \in A
        BY <4>1 DEF A, AliveOf, Busy
      <4> QED  BY <2>2, <4>1, <4>2
    <3> QED  BY <3>1 DEF CancelledIn
  <2>6. \A v : Awaited(A, G, v) => Awaited(B, G, v)
    BY <2>1, <2>2 DEF Awaited
  <2> QED  BY <1>b, <1>i, <2>4, <2>5, <2>6, LossKept DEF A, B, G
<1>1. ASSUME NEW u \in Uri, DidOpen(u) PROVE LossInv'
  <2>1. Idle /\ UNCHANGED <<stamps, shown, missed>>
    BY <1>1 DEF DidOpen
  <2>2. CASE State(u) # "Unknown"
    BY <1>1, <1>b, <2>1, <2>2 DEF DidOpen, State
  <2>3. CASE State(u) = "Unknown"
    <3>1. /\ by_uri' = [by_uri EXCEPT ![u] = [state |-> "Open", file |-> Len(text) + 1]]
          /\ text' = Append(text, edits + 1)
          /\ main' = [at |-> "stamp", uri |-> u, to |-> "Open"] /\ UNCHANGED pool
      BY <1>1, <2>3 DEF DidOpen, Minted, State
    <3>2. InHand(u)'
      BY <3>1 DEF InHand
    <3>3. ASSUME NEW v \in Uri, State(v)' = "Open", ~InHand(v)'
          PROVE  (text[FileOf(v)] = stamped[v])' /\ Told(v)'
      <4>1. v # u
        BY <3>2, <3>3
      <4>2. State(v)' = State(v) /\ FileOf(v)' = FileOf(v)
        BY <1>n, <3>1, <4>1 DEF State, FileOf
      <4>3. FileOf(v) \in 1..Len(text)
        BY <1>t, <3>3, <4>2, KnownDocuments
      <4>4. text'[FileOf(v)] = text[FileOf(v)]
        <5>1. edits \in Nat
          BY <1>t DEF TypeInv
        <5>2. \A i \in 1..Len(text) : text'[i] = text[i]
          BY <1>x, <3>1, <5>1, AppendProperties
        <5> QED  BY <4>3, <5>2
      <4>5. ~InHand(v)
        BY <1>i, <2>1
      <4>6. /\ stamped'[v] = stamped[v] /\ shown'[v] = shown[v] /\ missed'[v] = missed[v]
            /\ diagnostics_generation' = G
        BY <2>1 DEF stamps, G
      <4>7. Awaited(A, G, v) => Awaited(B, diagnostics_generation', v)
        BY <1>p, <3>1, <4>6
      <4> QED  BY <1>s, <3>3, <4>2, <4>4, <4>5, <4>6, <4>7
    <3>4. OwnEdits(B, diagnostics_generation', main')
      <4>1. \A task \in B : ~Overtaken(task, diagnostics_generation')
        BY <1>i, <1>o, <1>p, <2>1, <3>1 DEF stamps, G
      <4> QED  BY <4>1 DEF OwnEdits
    <3>5. ToldInv'
      BY <3>3 DEF ToldInv
    <3> QED  BY <1>n, <1>p, <2>1, <3>1, <3>4, <3>5 DEF LossInv, B
  <2> QED  BY <2>2, <2>3
<1>2. ASSUME NEW u \in Uri, DidChange(u) PROVE LossInv'
  BY <1>2, <1>b DEF DidChange
<1>3. ASSUME NEW u \in Uri, DidClose(u) PROVE LossInv'
  <2>1. Idle /\ UNCHANGED <<files, stamps, shown, missed>>
    BY <1>3 DEF DidClose, client
  <2>2. CASE BeginSet(u, "Closed")
    BY <1>b, <2>1, <2>2
  <2>3. CASE State(u) = "Closed" /\ main' = [at |-> "retire", uri |-> u, to |-> "Closed"]
             /\ UNCHANGED pool
    <3>1. OwnEdits(B, G, main')
      <4>1. \A task \in B : ~Overtaken(task, G)
        BY <1>i, <1>o, <1>p, <2>1, <2>3
      <4> QED  BY <4>1 DEF OwnEdits
    <3> QED  BY <1>i, <1>p, <2>1, <2>3, <3>1, LossKept DEF A, B, G
  <2> QED  BY <1>3, <2>2, <2>3 DEF DidClose, State
<1>4. ASSUME SetText PROVE LossInv'
  <2>m. PICK m \in Uri : m = main.uri
    BY <1>m, <1>4 DEF SetText
  <2>1. /\ main.at = "set" /\ main.to \in {"Open", "Closed"} /\ State(m) # "Unknown"
        /\ text' = [text EXCEPT ![FileOf(m)] = IF main.to = "Open" THEN edits ELSE Empty]
        /\ by_uri' = [by_uri EXCEPT ![m].state = main.to]
        /\ main' = [main EXCEPT !.at = IF main.to = "Open" THEN "stamp" ELSE "retire"]
        /\ UNCHANGED <<stamps, pool, shown, missed>>
    BY <1>t, <1>4, <2>m DEF SetText, TypeInv, MainInv, DocInv, Goto, FileOf, client
  <2>2. main'.uri = m /\ main'.at = (IF main.to = "Open" THEN "stamp" ELSE "retire")
    BY <1>t, <2>m, <2>1 DEF TypeInv, MainInv
  <2>3. OwnEdits(B, diagnostics_generation', main')
    <3>1. \A task \in A : Overtaken(task, G) => task.uri = m
      BY <1>t, <2>m DEF OwnEdits
    <3>2. diagnostics_generation' = G
      BY <2>1 DEF stamps, G
    <3> QED  BY <1>p, <2>1, <2>2, <3>1, <3>2 DEF OwnEdits
  <2>4. ASSUME NEW v \in Uri, State(v)' = "Open", ~InHand(v)'
        PROVE  (text[FileOf(v)] = stamped[v])' /\ Told(v)'
    <3>1. State(m)' = main.to
      BY <1>n, <2>1 DEF State
    <3>2. v # m
      BY <2>1, <2>2, <2>4, <3>1 DEF InHand
    <3>3. State(v)' = State(v) /\ FileOf(v)' = FileOf(v)
      BY <1>n, <2>1, <3>2 DEF State, FileOf
    <3>4. FileOf(v) # FileOf(m)
      BY <1>t, <2>1, <3>2, KnownDocuments
    <3>5. text'[FileOf(v)] = text[FileOf(v)]
      <4>1. FileOf(v) \in 1..Len(text)
        BY <1>t, <2>4, <3>3, KnownDocuments
      <4>2. FileOf(v) \in DOMAIN text
        BY <1>x, <4>1
      <4> QED  BY <2>1, <3>4, <4>2
    <3>6. ~InHand(v)
      BY <2>m, <3>2 DEF InHand
    <3>7. /\ stamped'[v] = stamped[v] /\ shown'[v] = shown[v] /\ missed'[v] = missed[v]
          /\ diagnostics_generation' = G
      BY <2>1 DEF stamps, G
    <3>8. Awaited(A, G, v) => Awaited(B, diagnostics_generation', v)
      BY <1>p, <2>1, <3>7
    <3> QED  BY <1>s, <2>4, <3>3, <3>5, <3>6, <3>7, <3>8
  <2>5. ToldInv'
    BY <2>4 DEF ToldInv
  <2> QED  BY <1>n, <1>p, <2>1, <2>3, <2>5 DEF LossInv, B
<1>5. ASSUME BumpGeneration PROVE LossInv'
  <2>m. PICK m \in Uri : m = main.uri
    BY <1>m, <1>5 DEF BumpGeneration
  <2>1. /\ main.at = "stamp" /\ next_generation' = next_generation + 1
        /\ diagnostics_generation' = [v \in DOMAIN G \cup {m} |->
              IF v = m THEN next_generation' ELSE G[v]]
        /\ stamped' = [stamped EXCEPT ![m] = text[FileOf(m)]]
        /\ missed' = [missed EXCEPT ![m] = "no"]
        /\ main'.at = "spawn" /\ main'.uri = m
        /\ UNCHANGED <<files, pool, shown>>
    BY <1>t, <1>5, <2>m DEF BumpGeneration, Goto, FileOf, client, TypeInv, MainInv, G
  <2>2. /\ m \in DOMAIN diagnostics_generation' /\ diagnostics_generation'[m] = next_generation + 1
        /\ \A v \in Uri \ {m} :
             /\ v \in DOMAIN diagnostics_generation' <=> v \in DOMAIN G
             /\ v \in DOMAIN G => diagnostics_generation'[v] = G[v]
    BY <1>n, <2>1
  <2>3. OwnEdits(B, diagnostics_generation', main')
    <3> SUFFICES ASSUME NEW task \in A, Overtaken(task, diagnostics_generation') PROVE FALSE
      BY <1>p, <2>1 DEF OwnEdits
    <3>1. CASE task.uri = m
      <4>1. task.generation <= next_generation /\ task.generation = next_generation + 1
        BY <1>a, <2>2, <3>1 DEF Overtaken, Fresh
      <4>2. next_generation \in Nat
        BY <1>n
      <4>3. task.generation \in Nat
        BY <1>a
      <4> QED  BY <4>1, <4>2, <4>3
    <3>2. CASE task.uri # m
      <4>1. Overtaken(task, G)
        BY <1>a, <2>2, <3>2 DEF Overtaken
      <4> QED  BY <1>t, <2>m, <3>2, <4>1 DEF OwnEdits
    <3> QED  BY <3>1, <3>2
  <2>4. ASSUME NEW v \in Uri, State(v)' = "Open", ~InHand(v)'
        PROVE  (text[FileOf(v)] = stamped[v])' /\ Told(v)'
    <3>1. v # m
      BY <2>1, <2>4 DEF InHand
    <3>2. State(v)' = State(v) /\ FileOf(v)' = FileOf(v) /\ text' = text
      BY <1>k, <2>1 DEF files
    <3>3. stamped'[v] = stamped[v] /\ shown'[v] = shown[v] /\ missed'[v] = missed[v]
      BY <1>n, <2>1, <3>1
    <3>4. ~InHand(v)
      BY <2>m, <3>1 DEF InHand
    <3>5. Awaited(A, G, v) => Awaited(B, diagnostics_generation', v)
      BY <1>p, <2>1, <2>2, <3>1 DEF Awaited
    <3> QED  BY <1>s, <2>4, <3>2, <3>3, <3>4, <3>5
  <2>5. ToldInv'
    BY <2>4 DEF ToldInv
  <2>6. missed' \in [Uri -> {"no", "panic", "other edit", "own edit"}]
    BY <1>n, <2>1
  <2> QED  BY <1>p, <2>1, <2>3, <2>5, <2>6 DEF LossInv, B
<1>6. ASSUME PublishDiagnostics PROVE LossInv'
  <2>m. PICK m \in Uri : m = main.uri
    BY <1>m, <1>6 DEF PublishDiagnostics
  <2> DEFINE new == NewTask("diagnostics", m, "none", next_generation)
  <2>1. /\ main.at = "spawn" /\ queue' = Append(queue, new) /\ main' = Rest
        /\ UNCHANGED <<files, stamps, working, shown, missed>>
    BY <1>6, <2>m DEF PublishDiagnostics, client
  <2>2. /\ new.kind = "diagnostics" /\ new.uri = m /\ new.generation = next_generation
        /\ new.edited_since = {}
    BY DEF NewTask
  <2>3. /\ State(m) = "Open" /\ text[FileOf(m)] = stamped[m] /\ G[m] = next_generation
        /\ m \in DOMAIN G
    BY <1>t, <2>m, <2>1 DEF DocInv, FeedInv, G
  <2> HIDE DEF new
  <2>4. B = A \cup {new}
    BY <1>t, <2>1, AliveAppended DEF A, B
  <2>5. diagnostics_generation' = G
    BY <2>1 DEF stamps, G
  <2>6. OwnEdits(B, diagnostics_generation', main')
    BY <1>o, <2>1, <2>2, <2>4, <2>5 DEF OwnEdits, Overtaken
  <2>7. Awaited(B, G, m)
    BY <2>2, <2>3, <2>4 DEF Awaited
  <2>8. \A v : Awaited(A, G, v) => Awaited(B, G, v)
    BY <2>4 DEF Awaited
  <2>9. ASSUME NEW v \in Uri, State(v)' = "Open", ~InHand(v)'
        PROVE  (text[FileOf(v)] = stamped[v])' /\ Told(v)'
    <3>1. /\ State(v)' = State(v) /\ FileOf(v)' = FileOf(v) /\ text' = text
          /\ stamped'[v] = stamped[v] /\ shown'[v] = shown[v] /\ missed'[v] = missed[v]
      BY <1>k, <2>1 DEF files, stamps
    <3>2. CASE v = m
      <4>1. (text[FileOf(v)] = stamped[v])'
        BY <2>3, <3>1, <3>2
      <4>2. Told(v)'
        BY <2>5, <2>7, <3>2 DEF Told, B, G
      <4> QED  BY <4>1, <4>2
    <3>3. CASE v # m
      <4>1. ~InHand(v)
        BY <2>m, <3>3 DEF InHand
      <4> QED  BY <1>s, <2>5, <2>8, <2>9, <3>1, <4>1
    <3> QED  BY <3>2, <3>3
  <2>10. ToldInv'
    BY <2>9 DEF ToldInv
  <2> QED  BY <1>n, <1>t, <2>1, <2>6, <2>10 DEF LossInv, B
<1>7. ASSUME RetireGeneration PROVE LossInv'
  <2>m. PICK m \in Uri : m = main.uri
    BY <1>m, <1>7 DEF RetireGeneration
  <2>1. /\ main.at = "retire" /\ State(m) = "Closed"
        /\ diagnostics_generation' = [v \in DOMAIN G \ {m} |-> G[v]]
        /\ UNCHANGED <<files, stamped, pool, shown, missed>>
    BY <1>t, <1>7, <2>m DEF RetireGeneration, client, DocInv, G
  <2>2. OwnEdits(B, diagnostics_generation', main')
    <3> SUFFICES ASSUME NEW task \in A, Overtaken(task, diagnostics_generation') PROVE FALSE
      BY <1>p, <2>1 DEF OwnEdits
    <3>1. Overtaken(task, G) /\ task.uri # m
      BY <2>1 DEF Overtaken
    <3> QED  BY <1>t, <2>m, <3>1 DEF OwnEdits
  <2>3. ASSUME NEW v \in Uri, State(v)' = "Open"
        PROVE  (text[FileOf(v)] = stamped[v])' /\ Told(v)'
    <3>1. /\ State(v)' = State(v) /\ FileOf(v)' = FileOf(v) /\ text' = text
          /\ stamped'[v] = stamped[v] /\ shown'[v] = shown[v] /\ missed'[v] = missed[v]
      BY <1>k, <2>1 DEF files
    <3>2. v # m
      BY <2>1, <2>3, <3>1
    <3>3. ~InHand(v)
      BY <2>m, <3>2 DEF InHand
    <3>4. Awaited(A, G, v) => Awaited(B, diagnostics_generation', v)
      BY <1>p, <2>1, <3>2 DEF Awaited
    <3> QED  BY <1>s, <2>3, <3>1, <3>3, <3>4
  <2>4. ToldInv'
    BY <2>3 DEF ToldInv
  <2> QED  BY <1>n, <1>p, <2>1, <2>2, <2>4 DEF LossInv, B
<1>8. ASSUME ClearDiagnostics PROVE LossInv'
  <2>m. PICK m \in Uri : m = main.uri
    BY <1>m, <1>8 DEF ClearDiagnostics
  <2>1. /\ main.at = "clear" /\ State(m) = "Closed" /\ shown' = [shown EXCEPT ![m] = Empty]
        /\ main' = Rest /\ UNCHANGED <<files, stamps, pool, missed>>
    BY <1>t, <1>8, <2>m DEF ClearDiagnostics, DocInv
  <2>2. OwnEdits(B, G, main')
    BY <1>o, <1>p, <2>1 DEF OwnEdits
  <2>3. ASSUME NEW v \in Uri, State(v) = "Open" PROVE ~InHand(v) /\ shown'[v] = shown[v]
    BY <1>n, <2>1, <2>3 DEF InHand
  <2> QED  BY <1>p, <2>1, <2>2, <2>3, LossKept DEF A, B, G
\* Steps that touch neither the documents nor what is shown, and lose no task
\* that is awaited.
<1>q. ASSUME UNCHANGED <<files, stamps, shown, missed, main>>, CancelledIn(working'),
             \A task \in B : Overtaken(task, G) => task \in A,
             \A v \in Uri : Awaited(A, G, v) => Awaited(B, G, v)
      PROVE  LossInv'
  <2>1. OwnEdits(B, G, main')
    BY <1>t, <1>q DEF OwnEdits
  <2>2. \A v \in Uri : InHand(v)' <=> InHand(v)
    BY <1>q DEF InHand
  <2> QED  BY <1>q, <2>1, <2>2, LossKept DEF A, B, G
<1>9. ASSUME NEW id \in Id, NEW kind \in Kind, NEW u \in Uri, DispatchRequest(id, kind, u)
      PROVE  LossInv'
  <2> DEFINE new == NewTask(kind, u, id, 0)
  <2>1. /\ UNCHANGED <<files, stamps, shown, missed, main, working>>
        /\ UNCHANGED queue \/ queue' = Append(queue, new)
    BY <1>9 DEF DispatchRequest
  <2>2. new.edited_since = {}
    BY DEF NewTask
  <2> HIDE DEF new
  <2>3. B = A \/ B = A \cup {new}
    BY <1>t, <1>p, <2>1, AliveAppended DEF A, B, pool
  <2>4. CancelledIn(working')
    BY <1>t, <2>1
  <2>5. \A task \in B : Overtaken(task, G) => task \in A
    BY <2>2, <2>3 DEF Overtaken
  <2>6. \A v \in Uri : Awaited(A, G, v) => Awaited(B, G, v)
    BY <2>3 DEF Awaited
  <2> QED  BY <1>q, <2>1, <2>4, <2>5, <2>6
<1>10. ASSUME Shutdown PROVE LossInv'
  <2>1. Idle /\ UNCHANGED <<files, stamps, pool, shown, missed>>
    BY <1>10 DEF Shutdown, client
  <2>2. OwnEdits(B, G, main')
    BY <1>i, <1>o, <1>p, <2>1 DEF OwnEdits
  <2> QED  BY <1>i, <1>p, <2>1, <2>2, LossKept DEF A, B, G
<1>11. ASSUME NEW w \in Worker, Take(w) PROVE LossInv'
  <2>1. B = A /\ UNCHANGED <<files, stamps, shown, missed, main>>
    BY <1>t, <1>11, AliveTaken DEF A, B, Take, client
  <2>2. CancelledIn(working')
    <3>1. working' = [working EXCEPT ![w] = [task |-> Head(queue), outcome |-> "computing"]]
      BY <1>11 DEF Take
    <3>2. working'[w].outcome = "computing" /\ \A v \in Worker \ {w} : working'[v] = working[v]
      BY <1>n, <3>1
    <3> QED  BY <1>t, <3>2 DEF CancelledIn
  <2> QED  BY <1>q, <2>1, <2>2
<1>12. ASSUME NEW w \in Worker, Compute(w) PROVE LossInv'
  <2>1. B = A /\ UNCHANGED <<files, stamps, shown, missed, main>> /\ CancelledIn(working')
    BY <1>t, <1>12, AliveComputed DEF A, B, Compute, client
  <2> QED  BY <1>q, <2>1
<1>13. ASSUME NEW w \in Worker, Finish(w) PROVE LossInv'
  <2> DEFINE task == working[w].task  outcome == working[w].outcome
  <2>1. /\ B \subseteq A /\ A \subseteq B \cup {task} /\ CancelledIn(working')
        /\ UNCHANGED <<files, stamps, queue, main>>
    BY <1>t, <1>13, AliveFinished DEF A, B, Finish
  <2>2. task \in A
    BY <1>13 DEF Finish, A, AliveOf
  <2>3. outcome \in {"ok", "cancelled", "panicked"}
        /\ (outcome = "cancelled" => task.edited_since # {})
    BY <1>t, <1>13 DEF Finish, CancelledIn
  <2>4. /\ task.kind = "diagnostics" => SendIfCurrent(task, outcome)
        /\ task.kind # "diagnostics" => UNCHANGED <<shown, missed>>
    BY <1>13 DEF Finish, Respond
  <2> HIDE DEF task, outcome
  <2>c. CASE ~(task.kind = "diagnostics" /\ Current(task))
    <3>1. UNCHANGED <<shown, missed>>
      BY <2>4, <2>c DEF SendIfCurrent
    <3>2. \A v \in Uri : Awaited(A, G, v) => Awaited(B, G, v)
      BY <2>1, <2>c DEF Awaited, Current, G
    <3> QED  BY <1>q, <2>1, <3>1, <3>2
  <2>d. CASE task.kind = "diagnostics" /\ Current(task)
    <3> DEFINE m == task.uri
    <3>1. m \in Uri /\ task.text = stamped[m]
      BY <1>a, <2>2, <2>d DEF Fresh, Current, G
    <3>2. /\ shown' = IF outcome = "ok" THEN [shown EXCEPT ![m] = stamped[m]] ELSE shown
          /\ missed' = IF outcome # "ok" THEN [missed EXCEPT ![m] = Why(task, outcome)] ELSE missed
      BY <2>4, <2>d, <3>1 DEF SendIfCurrent
    <3>3. Why(task, outcome) \in {"no", "panic", "other edit", "own edit"}
      BY DEF Why
    <3>4. missed' \in [Uri -> {"no", "panic", "other edit", "own edit"}]
      BY <1>n, <3>2, <3>3
    <3>5. OwnEdits(B, diagnostics_generation', main')
      BY <1>t, <2>1 DEF OwnEdits, stamps, G
    \* Cancelled by its own edit: the next text is on its way.
    <3>6. (outcome = "cancelled" /\ task.edited_since \ {m} = {}) => State(m) # "Open" \/ InHand(m)
      <4> SUFFICES ASSUME outcome = "cancelled", task.edited_since \ {m} = {}
                   PROVE  State(m) # "Open" \/ InHand(m)
        OBVIOUS
      <4>1. Overtaken(task, G)
        BY <2>3, <2>d DEF Overtaken, Current, G
      <4>2. main.uri = m /\ main.at \in {"set", "stamp", "retire"}
        BY <1>t, <2>2, <4>1 DEF OwnEdits
      <4> QED  BY <1>t, <4>2 DEF InHand, DocInv
    <3>7. ASSUME NEW v \in Uri, State(v)' = "Open", ~InHand(v)'
          PROVE  (text[FileOf(v)] = stamped[v])' /\ Told(v)'
      <4>1. /\ State(v)' = State(v) /\ FileOf(v)' = FileOf(v) /\ text' = text /\ stamped' = stamped
            /\ diagnostics_generation' = G /\ ~InHand(v)
        BY <1>k, <2>1, <3>7 DEF files, stamps, InHand, G
      <4>2. CASE v = m
        <5>1. (text[FileOf(v)] = stamped[v])'
          BY <1>t, <3>7, <4>1 DEF ToldInv
        <5>2. outcome = "ok" => shown'[v] = stamped'[v]
          BY <1>n, <3>1, <3>2, <4>1, <4>2
        <5>3. outcome # "ok" => missed'[v] = Why(task, outcome)
          BY <1>n, <3>1, <3>2, <4>2
        <5>4. outcome # "ok" => Why(task, outcome) \in {"panic", "other edit"}
          BY <2>3, <3>6, <3>7, <4>1, <4>2 DEF Why
        <5>5. Told(v)'
          BY <5>2, <5>3, <5>4 DEF Told
        <5> QED  BY <5>1, <5>5
      <4>3. CASE v # m
        <5>1. shown'[v] = shown[v] /\ missed'[v] = missed[v]
          BY <1>n, <3>1, <3>2, <4>3
        <5>2. Awaited(A, G, v) => Awaited(B, G, v)
          BY <2>1, <4>3 DEF Awaited
        <5> QED  BY <1>s, <3>7, <4>1, <5>1, <5>2
      <4> QED  BY <4>2, <4>3
    <3>8. ToldInv'
      BY <3>7 DEF ToldInv
    <3> QED  BY <2>1, <3>4, <3>5, <3>8 DEF LossInv, B
  <2> QED  BY <2>c, <2>d
<1>14. CASE UNCHANGED vars
  BY <1>p, <1>q, <1>14 DEF vars, client
<1> QED
  BY <1>1, <1>2, <1>3, <1>4, <1>5, <1>6, <1>7, <1>8, <1>9, <1>10, <1>11, <1>12, <1>13, <1>14
  DEF Next, Client, MainStep, WorkerStep

\* No result is lost silently (publish_diagnostics and the end of its task):
\* between two messages an open document shows the diagnostics of its own text,
\* or a task holds them, or an edit elsewhere or a panic took them.
THEOREM NothingIsLostSilently == Spec => []NoDiagnosticsLost
<1>1. Init => IInv /\ LossInv
  BY InitTypes, InitDocs, InitFeed, InitOnce, InitLoss DEF IInv
<1>2. IInv /\ LossInv /\ [Next]_vars => (IInv /\ LossInv)'
  BY TypesNext, DocsNext, FeedNext, OnceNext, LossNext DEF IInv
<1>3. IInv /\ LossInv => NoDiagnosticsLost
  <2> SUFFICES ASSUME IInv, LossInv, Idle, NEW u \in Uri, State(u) = "Open"
               PROVE  \/ shown[u] = text[FileOf(u)] \/ Pending(u)
                      \/ missed[u] \in {"panic", "other edit"}
    BY DEF NoDiagnosticsLost, State, FileOf
  <2>1. text[FileOf(u)] = stamped[u] /\ Told(u)
    BY DEF LossInv, ToldInv, Idle, Rest, InHand
  <2>2. Alive = AliveOf(queue, working)
    BY AliveIs DEF IInv, TypeInv, Alive, InQueue
  <2>3. Awaited(AliveOf(queue, working), diagnostics_generation, u) => Pending(u)
    BY <2>2 DEF Awaited, Pending, Current
  <2> QED  BY <2>1, <2>3 DEF Told
<1> QED  BY <1>1, <1>2, <1>3, PTL DEF Spec
=============================================================================
