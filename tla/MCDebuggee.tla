----------------------------- MODULE MCDebuggee -----------------------------
(* A file of two lines, the first with two columns, and the breakpoints a   *)
(* client may set in it.                                                    *)
EXTENDS Debuggee

CONSTANTS entry, p, q, r

MCPoint == {entry, p, q, r}
MCWhere == [x \in {p, q, r} |->
              CASE x = p -> <<1, 1>> [] x = q -> <<1, 5>> [] x = r -> <<2, 1>>]

At(line, column, op, n, guarded, logs) ==
  [line |-> line, column |-> column, hit |-> [op |-> op, n |-> n],
   guarded |-> guarded, logs |-> logs]

\* A plain line breakpoint, an inline one with a condition, and a log point
\* that waits for the second arrival.
MCSpecs == {At(1, 0, "none", 0, FALSE, FALSE), At(1, 5, "none", 0, TRUE, FALSE),
            At(2, 0, "==", 2, FALSE, TRUE)}
=============================================================================
