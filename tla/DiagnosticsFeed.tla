-------------------------- MODULE DiagnosticsFeed --------------------------
(***************************************************************************)
(* What the language server promises about the squiggles of a document:    *)
(* whatever the client is shown is the result for the text last put up for *)
(* checking, it is shown at most once, and after a close nothing but the   *)
(* clearing is shown until the document is opened again.                   *)
(***************************************************************************)
EXTENDS Naturals

CONSTANTS Uri, MaxStamps

VARIABLES
  latest,  \* uri -> text last put up for checking, on the documents watched
  shown    \* uri -> text whose diagnostics the client shows, Clear for none

vars == <<latest, shown>>

Clear == 0
Text == 1..MaxStamps

Init == latest = [u \in {} |-> Clear] /\ shown = [u \in Uri |-> Clear]

\* An open or an edit puts a text up that was never up before.
Put(u, text) ==
  /\ \A v \in DOMAIN latest : latest[v] < text
  /\ \A v \in Uri : shown[v] < text
  /\ latest' = [v \in DOMAIN latest \cup {u} |-> IF v = u THEN text ELSE latest[v]]
  /\ UNCHANGED shown

Publish(u) ==
  /\ u \in DOMAIN latest
  /\ shown[u] # latest[u]
  /\ shown' = [shown EXCEPT ![u] = latest[u]]
  /\ UNCHANGED latest

Unwatch(u) ==
  /\ u \in DOMAIN latest
  /\ latest' = [v \in DOMAIN latest \ {u} |-> latest[v]]
  /\ UNCHANGED shown

ClearUp(u) ==
  /\ u \notin DOMAIN latest
  /\ shown' = [shown EXCEPT ![u] = Clear]
  /\ UNCHANGED latest

Next ==
  \E u \in Uri :
    Publish(u) \/ Unwatch(u) \/ ClearUp(u) \/ (\E text \in Text : Put(u, text))

Spec == Init /\ [][Next]_vars
=============================================================================
