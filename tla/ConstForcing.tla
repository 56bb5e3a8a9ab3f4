---------------------------- MODULE ConstForcing ----------------------------
(***************************************************************************)
(* Compile-time evaluation on demand, crates/eval/src/machine.rs: forcing  *)
(* a top-level item or a `const { .. }` body evaluates it on a stack and a *)
(* fuel budget of its own, memoizes what came out -- failures too -- and   *)
(* answers a body already being forced, or an item too deep, with an error. *)
(*                                                                         *)
(* A body is the sequence of bodies it mentions, in evaluation order, and  *)
(* what it comes to by itself once they all gave a value; what the values  *)
(* are and the frames of its calls are left out.  A const body is a unit   *)
(* for each list of const arguments it is forced with; the units a machine *)
(* meets are taken to be finitely many.  The code takes no such thing for  *)
(* granted: an argument may be computed from a const parameter, and a body *)
(* that mentions itself at the next one makes new units without end.       *)
(***************************************************************************)
EXTENDS Naturals, Sequences, FiniteSets

CONSTANTS
  Item,             \* top-level items
  Block,            \* const bodies, one per item, body and const arguments
  Bodies,           \* the bodies a unit may have: [mentions, own]
  MAX_CONST_DEPTH,  \* the forcing-depth cap
  FuelBudget        \* const_fuel_budget

Unit == Item \cup Block

ASSUME DisjointAssumption == Item \cap Block = {}
\* What nothing in the code ensures: that the instances met are finitely many.
ASSUME UnitAssumption == IsFiniteSet(Unit)
ASSUME BoundsAssumption == MAX_CONST_DEPTH \in Nat \ {0} /\ FuelBudget \in Nat \ {0}

\* What a body comes to by itself: a value, a value with a pointer in it, a
\* failure of its own (a trap, a panic), or no end.
Own == {"value", "pointer", "failure", "loop"}
ASSUME BodiesAssumption ==
  \A b \in Bodies : b.mentions \in Seq(Unit) /\ b.own \in Own

VARIABLES
  program,      \* unit -> [mentions, own]: never changes
  start_depth,  \* 1 for a const machine, 0 for one that runs a program
  forcing,      \* the bodies being forced, innermost last
  forced,       \* the memo: unit -> answer
  const_depth,
  const_fuel,
  reply,        \* the answer on its way to whoever forced, or "none"
  over          \* a running program has died of a failed initializer

vars == <<program, start_depth, forcing, forced, const_depth, const_fuel,
          reply, over>>

Failed == {"failure", "escape", "cycle", "depth", "fuel"}
Answer == {"value"} \cup Failed
\* `at` counts the mentions evaluated; `saved` is the forcer's fuel.
Frame == [unit : Unit, at : Nat, saved : Nat]

Top == forcing[Len(forcing)]
Mentions(u) == program[u].mentions
InProgress == {forcing[i].unit : i \in DOMAIN forcing}
-----------------------------------------------------------------------------
Init ==
  /\ program \in [Unit -> Bodies]
  /\ start_depth \in {0, 1}
  /\ forcing = <<>>
  /\ forced = [u \in {} |-> "value"]
  /\ const_depth = start_depth
  /\ const_fuel = FuelBudget
  /\ reply = "none"
  /\ over = FALSE

\* Mutant: only items are looked up in what is being forced.
RefusalOfItems(u) ==
  CASE u \in InProgress /\ u \in Item -> "cycle"
    [] u \notin InProgress /\ u \in Item /\ const_depth >= MAX_CONST_DEPTH -> "depth"
    [] OTHER -> "none"

\* The checks force_item and force_const_block make before evaluating; a
\* refusal is not memoized for the body refused.
Refusal(u) ==
  CASE u \in InProgress -> "cycle"
    [] u \notin InProgress /\ u \in Item /\ const_depth >= MAX_CONST_DEPTH -> "depth"
    [] OTHER -> "none"

\* Mutant: a machine that runs a program is never fueled.
SpentInConstMachine ==
  IF const_fuel = 0 THEN 0 ELSE const_fuel - start_depth

\* spend_fuel: what is left after one unit, 0 being already too little.
Spent == IF const_fuel = 0 THEN 0 ELSE const_fuel - 1

\* Mutant: a forced body runs on its forcer's budget.
ForceOnOneBudget(u, stack, fuel) ==
  IF u \in DOMAIN forced \/ Refusal(u) # "none"
    THEN /\ reply' = IF u \in DOMAIN forced THEN forced[u] ELSE Refusal(u)
         /\ forcing' = stack
         /\ const_fuel' = fuel
         /\ UNCHANGED const_depth
    ELSE /\ forcing' = Append(stack, [unit |-> u, at |-> 0, saved |-> fuel])
         /\ const_depth' = const_depth + 1
         /\ const_fuel' = fuel
         /\ UNCHANGED reply

\* Force `u` with the forcer's stack as `stack` and its fuel as `fuel`.
ForceUnit(u, stack, fuel) ==
  IF u \in DOMAIN forced \/ Refusal(u) # "none"
    THEN /\ reply' = IF u \in DOMAIN forced THEN forced[u] ELSE Refusal(u)
         /\ forcing' = stack
         /\ const_fuel' = fuel
         /\ UNCHANGED const_depth
    ELSE /\ forcing' = Append(stack, [unit |-> u, at |-> 0, saved |-> fuel])
         /\ const_depth' = const_depth + 1
         /\ const_fuel' = FuelBudget
         /\ UNCHANGED reply

\* The tail of both: memoize, pop, and give the forcer its fuel back.
Deliver(answer) ==
  /\ forced' = [u \in DOMAIN forced \cup {Top.unit} |->
                  IF u = Top.unit THEN answer ELSE forced[u]]
  /\ forcing' = SubSeq(forcing, 1, Len(forcing) - 1)
  /\ const_depth' = const_depth - 1
  /\ const_fuel' = Top.saved
  /\ reply' = answer

\* A driver asks: the const_value query, const_block_values and its twin (one
\* machine for all of an item's bodies), or the program being run.
Query(u) ==
  /\ forcing = <<>> /\ reply = "none" /\ ~over
  /\ ForceUnit(u, <<>>, const_fuel)
  /\ UNCHANGED <<program, start_depth, forced, over>>

\* The driver hears: a program that runs dies of a failed initializer.
Hear ==
  /\ forcing = <<>> /\ reply # "none"
  /\ reply' = "none"
  /\ over' = (start_depth = 0 /\ reply # "value")
  /\ UNCHANGED <<program, start_depth, forcing, forced, const_depth, const_fuel>>

\* The innermost body evaluates its next mention.
Mention ==
  /\ forcing # <<>> /\ reply = "none"
  /\ Top.at < Len(Mentions(Top.unit))
  /\ IF Spent = 0
       THEN Deliver("fuel")
       ELSE LET here == [forcing EXCEPT ![Len(forcing)].at = @ + 1]
            IN  ForceUnit(Mentions(Top.unit)[Top.at + 1], here, Spent) /\ UNCHANGED forced
  /\ UNCHANGED <<program, start_depth, over>>

\* A mention answered: a value is used, a failure fails the body.
Receive ==
  /\ forcing # <<>> /\ reply # "none"
  /\ IF reply = "value"
       THEN reply' = "none" /\ UNCHANGED <<forcing, forced, const_depth, const_fuel>>
       ELSE Deliver(reply)
  /\ UNCHANGED <<program, start_depth, over>>

\* check_const_escape on top of what the body came to.
Escaped(own) == CASE own = "pointer" -> "escape" [] OTHER -> own

\* The mentions are done: the body returns, fails, or goes round its loop.
Return ==
  /\ forcing # <<>> /\ reply = "none"
  /\ Top.at = Len(Mentions(Top.unit))
  /\ CASE Spent = 0 -> Deliver("fuel")
       [] Spent # 0 /\ program[Top.unit].own = "loop" ->
            const_fuel' = Spent /\ UNCHANGED <<forcing, forced, const_depth, reply>>
       [] OTHER -> Deliver(Escaped(program[Top.unit].own))
  /\ UNCHANGED <<program, start_depth, over>>

Step == Mention \/ Receive \/ Return \/ Hear
Next == Step \/ \E u \in Unit : Query(u)

Spec == Init /\ [][Next]_vars
FairSpec == Spec /\ WF_vars(Step)
-----------------------------------------------------------------------------
(* Properties.                                                              *)

\* Types; the depth counts the bodies being forced, above the machine's own.
TypeOK ==
  /\ program \in [Unit -> Bodies]
  /\ start_depth \in {0, 1}
  /\ \A i \in DOMAIN forcing :
       /\ forcing[i] \in Frame
       /\ forcing[i].at <= Len(Mentions(forcing[i].unit))
  /\ const_depth = start_depth + Len(forcing)
  /\ DOMAIN forced \subseteq Unit
  /\ \A u \in DOMAIN forced : forced[u] \in Answer
  /\ const_fuel \in 0..FuelBudget
  /\ reply \in Answer \cup {"none"}
  /\ over \in BOOLEAN

\* The bodies that have a value with no cap on depth: those whose mentions all
\* have one and which, by themselves and within one budget, come to one.
\* good[n] needs chains of mentions at most n long.
good[n \in 0..Cardinality(Unit)] ==
  IF n = 0 THEN {}
  ELSE {u \in Unit : /\ program[u].own = "value"
                     /\ Len(Mentions(u)) + 1 < FuelBudget
                     /\ \A i \in DOMAIN Mentions(u) : Mentions(u)[i] \in good[n - 1]}
Good == good[Cardinality(Unit)]

\* The memo is right whoever forced first: what is memoized as a value has
\* one, and what is memoized as a failure has none -- a cycle, an escape, a
\* trap or an exhausted budget is the body's own fate, not its forcer's --
\* the depth cap excepted.
MemoIsRight ==
  \A u \in DOMAIN forced :
    /\ forced[u] = "value" => u \in Good
    /\ forced[u] \in Failed \ {"depth"} => u \notin Good

\* Forcing never re-enters a body it is inside of, and everything inside is
\* mentioned by what is around it.
NeverReentered ==
  \A i, j \in DOMAIN forcing :
    /\ i # j => forcing[i].unit # forcing[j].unit
    /\ forcing[i].unit \notin DOMAIN forced
    /\ j = i + 1 =>
         Mentions(forcing[i].unit)[forcing[i].at] = forcing[j].unit

\* A forcer gets back the fuel it had: each body has spent exactly what its
\* own statements cost, whatever was forced from inside it.
FuelIsPerBody ==
  \A i \in DOMAIN forcing :
    LET left == IF i = Len(forcing) THEN const_fuel ELSE forcing[i + 1].saved
    IN  \/ left + forcing[i].at = FuelBudget
        \/ /\ program[forcing[i].unit].own = "loop"
           /\ left + forcing[i].at <= FuelBudget
           /\ forcing[i].at = Len(Mentions(forcing[i].unit))

\* Each body is evaluated once per machine: an answer, once memoized, is the
\* answer, and a body that has one is never pushed again.
EvaluatedOnce ==
  [][/\ \A u \in DOMAIN forced : u \in DOMAIN forced' /\ forced'[u] = forced[u]
     /\ \A i \in DOMAIN forcing' \ DOMAIN forcing :
          forcing'[i].unit \notin DOMAIN forced]_vars

\* Every query over finitely many units ends, whatever their bodies do: cycles,
\* loops, chains of forcings (const_fuel, "a salsa query must terminate even on
\* adversarial input").  A program that keeps making new instances is not among
\* those: const bodies are not refused for depth (Refusal).
QueriesEnd == (forcing # <<>>) ~> (forcing = <<>>)

\* u has a value when asked at depth d: the cap applied, the memo not used.
Direct[d \in 1..(MAX_CONST_DEPTH + Cardinality(Unit) + 1)] ==
  IF d > MAX_CONST_DEPTH + Cardinality(Unit) THEN {}
  ELSE {u \in Unit : /\ u \in Item => d < MAX_CONST_DEPTH
                     /\ program[u].own = "value"
                     /\ Len(Mentions(u)) + 1 < FuelBudget
                     /\ \A i \in DOMAIN Mentions(u) : Mentions(u)[i] \in Direct[d + 1]}

\* The comment in force_item: "const_value(B) must give the same answer whether
\* B is queried directly or forced from inside another item's evaluation".
SameAnswerAnywhere ==
  \A u \in DOMAIN forced : u \in Direct[1] => forced[u] = "value"
=============================================================================
