------------------------- MODULE ConstForcing_proofs -------------------------
(***************************************************************************)
(* Proofs about compile-time forcing, for any set of items and blocks, any *)
(* bodies, any depth cap and any budget.                                   *)
(*                                                                         *)
(* The invariant speaks of one stack of forced bodies: `Inside` says it of *)
(* any stack with any fuel left, so that what pushing, popping and a       *)
(* statement do to it are three lemmas about data, and the proof of a step *)
(* only names which of them the step is.  `Heard` says of the same stack   *)
(* what its bodies were answered, from which the memo's answers follow.    *)
(***************************************************************************)
EXTENDS ConstForcing, SequenceTheorems, FiniteSetTheorems, WellFoundedInduction, TLAPS

\* What is true of a stack of bodies being forced under program p, with `fuel`
\* left for the innermost and the units in `memo` answered already.
Shaped(p, stack, fuel) ==
  /\ stack \in Seq(Frame)
  /\ fuel \in 0..FuelBudget
  /\ \A i \in 1..Len(stack) :
       /\ stack[i].at <= Len(p[stack[i].unit].mentions)
       /\ stack[i].saved \in 0..FuelBudget

Nested(p, stack, memo) ==
  \A i, j \in 1..Len(stack) :
    /\ i # j => stack[i].unit # stack[j].unit
    /\ stack[i].unit \notin memo
    /\ j = i + 1 =>
         p[stack[i].unit].mentions[stack[i].at] = stack[j].unit

Left(stack, fuel, i) == IF i = Len(stack) THEN fuel ELSE stack[i + 1].saved

Metered(p, stack, fuel) ==
  \A i \in 1..Len(stack) :
    \/ Left(stack, fuel, i) + stack[i].at = FuelBudget
    \/ /\ p[stack[i].unit].own = "loop"
       /\ Left(stack, fuel, i) + stack[i].at <= FuelBudget
       /\ stack[i].at = Len(p[stack[i].unit].mentions)

Inside(p, stack, fuel, memo) ==
  Shaped(p, stack, fuel) /\ Nested(p, stack, memo) /\ Metered(p, stack, fuel)

IInv ==
  /\ program \in [Unit -> Bodies]
  /\ start_depth \in {0, 1}
  /\ const_depth = start_depth + Len(forcing)
  /\ forced = [u \in DOMAIN forced |-> forced[u]]
  /\ DOMAIN forced \subseteq Unit
  /\ \A u \in DOMAIN forced : forced[u] \in Answer
  /\ reply \in Answer \cup {"none"}
  /\ over \in BOOLEAN
  /\ Inside(program, forcing, const_fuel, DOMAIN forced)

\* A unit's mentions are units, and what it comes to is one of Own.
LEMMA BodyShape ==
  ASSUME NEW p \in [Unit -> Bodies], NEW u \in Unit
  PROVE  p[u].mentions \in Seq(Unit) /\ p[u].own \in Own
BY BodiesAssumption

\* Pushing a body that is neither answered nor on the stack, mentioned by the
\* innermost one, with a budget of its own: what was left is its `saved`.
LEMMA PushKeeps ==
  ASSUME NEW p \in [Unit -> Bodies], NEW stack, NEW fuel, NEW memo,
         Inside(p, stack, fuel, memo), NEW u \in Unit,
         u \notin memo,
         \A i \in 1..Len(stack) : stack[i].unit # u,
         stack # <<>> =>
           p[stack[Len(stack)].unit].mentions[stack[Len(stack)].at] = u
  PROVE  Inside(p, Append(stack, [unit |-> u, at |-> 0, saved |-> fuel]),
                FuelBudget, memo)
<1> DEFINE top == [unit |-> u, at |-> 0, saved |-> fuel]
           next == Append(stack, top)
           n == Len(stack)
<1>1. stack \in Seq(Frame) /\ fuel \in 0..FuelBudget /\ FuelBudget \in Nat
  BY BoundsAssumption DEF Inside, Shaped
<1>2. top \in Frame
  BY <1>1 DEF Frame
<1>3. /\ next \in Seq(Frame) /\ n \in Nat /\ Len(next) = n + 1
      /\ next[n + 1] = top
      /\ \A i \in 1..n : next[i] = stack[i]
  BY <1>1, <1>2, AppendProperties
<1> HIDE DEF next
<1>4. top.unit = u /\ top.at = 0 /\ top.saved = fuel
  OBVIOUS
<1> HIDE DEF top
<1>5. Shaped(p, next, FuelBudget)
  <2>1. Len(p[u].mentions) \in Nat
    BY BodyShape
  <2>2. ASSUME NEW i \in 1..(n + 1)
        PROVE  /\ next[i].at <= Len(p[next[i].unit].mentions)
               /\ next[i].saved \in 0..FuelBudget
    <3>1. CASE i = n + 1
      BY <3>1, <2>1, <1>1, <1>3, <1>4
    <3>2. CASE i \in 1..n
      BY <3>2, <1>3 DEF Inside, Shaped
    <3> QED  BY <3>1, <3>2, <1>3
  <2> QED  BY <2>2, <1>1, <1>3 DEF Shaped
<1>6. Nested(p, next, memo)
  <2>1. Nested(p, stack, memo)
    BY DEF Inside
  <2>2. ASSUME NEW i \in 1..(n + 1), NEW j \in 1..(n + 1)
        PROVE  /\ i # j => next[i].unit # next[j].unit
               /\ next[i].unit \notin memo
               /\ j = i + 1 =>
                    p[next[i].unit].mentions[next[i].at] = next[j].unit
    <3>1. CASE i \in 1..n /\ j \in 1..n
      BY <3>1, <2>1, <1>3 DEF Nested
    <3>2. CASE i = n + 1
      BY <3>2, <1>3, <1>4
    <3>3. CASE i \in 1..n /\ j = n + 1
      <4>1. stack # <<>>
        BY <3>3, <1>1, EmptySeq
      <4>2. j = i + 1 => i = Len(stack)
        BY <3>3, <1>3
      <4> QED  BY <4>1, <4>2, <3>3, <2>1, <1>3, <1>4 DEF Nested
    <3> QED  BY <3>1, <3>2, <3>3, <1>3
  <2> QED  BY <2>2, <1>3 DEF Nested
<1>7. Metered(p, next, FuelBudget)
  <2>1. Metered(p, stack, fuel)
    BY DEF Inside
  <2>2. ASSUME NEW i \in 1..(n + 1)
        PROVE  \/ Left(next, FuelBudget, i) + next[i].at = FuelBudget
               \/ /\ p[next[i].unit].own = "loop"
                  /\ Left(next, FuelBudget, i) + next[i].at <= FuelBudget
                  /\ next[i].at = Len(p[next[i].unit].mentions)
    <3>1. CASE i = n + 1
      BY <3>1, <1>1, <1>3, <1>4 DEF Left
    <3>2. CASE i \in 1..n
      <4>1. Left(next, FuelBudget, i) = Left(stack, fuel, i)
        <5>1. CASE i = n
          BY <5>1, <1>3, <1>4 DEF Left
        <5>2. CASE i # n
          <6>1. i + 1 \in 1..n /\ i # n + 1
            BY <5>2, <3>2, <1>3
          <6> QED  BY <6>1, <5>2, <1>3 DEF Left
        <5> QED  BY <5>1, <5>2
      <4> QED  BY <4>1, <3>2, <2>1, <1>3 DEF Metered
    <3> QED  BY <3>1, <3>2, <1>3
  <2> QED  BY <2>2, <1>3 DEF Metered
<1> QED  BY <1>5, <1>6, <1>7 DEF Inside, next, top

\* A stack without its innermost body.
LEMMA Popped ==
  ASSUME NEW stack \in Seq(Frame), stack # <<>>
  PROVE  LET n == Len(stack)
             rest == SubSeq(stack, 1, n - 1)
         IN  /\ n \in Nat \ {0}
             /\ rest \in Seq(Frame) /\ Len(rest) = n - 1
             /\ \A i \in 1..(n - 1) : rest[i] = stack[i]
<1> DEFINE n == Len(stack)
           rest == SubSeq(stack, 1, n - 1)
<1>1. n \in Nat \ {0}
  BY EmptySeq, LenProperties
<1>2. \A i \in 1..(n - 1) : stack[i] \in Frame
  BY <1>1, ElementOfSeq
<1>3. \A i \in 1..(n - 1) : 1 + i - 1 = i
  OBVIOUS
<1>4. /\ rest \in Seq(Frame)
      /\ Len(rest) = IF 1 <= n - 1 THEN n - 1 - 1 + 1 ELSE 0
      /\ \A i \in 1..(n - 1 - 1 + 1) : rest[i] = stack[1 + i - 1]
  <2> HIDE DEF n
  <2> QED  BY <1>1, <1>2, SubSeqProperties
<1> HIDE DEF rest, n
<1>5. /\ rest \in Seq(Frame) /\ Len(rest) = n - 1
      /\ \A i \in 1..(n - 1) : rest[i] = stack[i]
  BY <1>1, <1>3, <1>4
<1> QED  BY <1>1, <1>5 DEF rest, n

\* Popping the innermost body: it joins the memo and its forcer goes on with
\* the fuel it had.
LEMMA PopKeeps ==
  ASSUME NEW p \in [Unit -> Bodies], NEW stack, NEW fuel, NEW memo,
         Inside(p, stack, fuel, memo), stack # <<>>
  PROVE  Inside(p, SubSeq(stack, 1, Len(stack) - 1), stack[Len(stack)].saved,
                memo \cup {stack[Len(stack)].unit})
<1> DEFINE n == Len(stack)
           rest == SubSeq(stack, 1, n - 1)
           back == stack[n].saved
<1>1. stack \in Seq(Frame) /\ n \in Nat \ {0}
  BY EmptySeq, LenProperties DEF Inside, Shaped
<1>2. /\ rest \in Seq(Frame) /\ Len(rest) = n - 1
      /\ \A i \in 1..(n - 1) : rest[i] = stack[i]
  BY <1>1, Popped
<1> HIDE DEF rest
<1>3. n \in 1..n /\ n - 1 \in Nat
  BY <1>1
<1> HIDE DEF n
<1>4. Shaped(p, rest, back)
  BY <1>1, <1>2, <1>3 DEF Inside, Shaped, n
<1>5. Nested(p, rest, memo \cup {stack[n].unit})
  <2>1. \A i \in 1..(n - 1) : i \in 1..n /\ i # n
    BY <1>1
  <2>2. Nested(p, stack, memo)
    BY DEF Inside
  <2>3. \A i \in 1..(n - 1) : stack[i].unit # stack[n].unit
    BY <2>1, <2>2, <1>3 DEF Nested, n
  <2>4. ASSUME NEW i \in 1..(n - 1), NEW j \in 1..(n - 1)
        PROVE  /\ i # j => rest[i].unit # rest[j].unit
               /\ rest[i].unit \notin memo \cup {stack[n].unit}
               /\ j = i + 1 =>
                    p[rest[i].unit].mentions[rest[i].at] = rest[j].unit
    <3>1. rest[i] = stack[i] /\ rest[j] = stack[j] /\ i \in 1..n /\ j \in 1..n
      BY <2>1, <1>2
    <3>2. /\ i # j => stack[i].unit # stack[j].unit
          /\ stack[i].unit \notin memo
          /\ j = i + 1 =>
               p[stack[i].unit].mentions[stack[i].at] = stack[j].unit
      BY <3>1, <2>2 DEF Nested, n
    <3> QED  BY <3>1, <3>2, <2>3
  <2> QED  BY <2>4, <1>2 DEF Nested
<1>6. Metered(p, rest, back)
  <2>1. ASSUME NEW i \in 1..(n - 1)
        PROVE  Left(rest, back, i) = Left(stack, fuel, i)
    <3>1. CASE i = n - 1
      <4>1. i # n /\ i + 1 = n
        BY <3>1, <1>1
      <4> QED  BY <4>1, <3>1, <1>2 DEF Left, n
    <3>2. CASE i # n - 1
      <4>1. i # n /\ i + 1 \in 1..(n - 1)
        BY <3>2, <1>1
      <4> QED  BY <4>1, <3>2, <1>2 DEF Left, n
    <3> QED  BY <3>1, <3>2
  <2>2. \A i \in 1..(n - 1) : i \in 1..n
    BY <1>1
  <2> QED  BY <2>1, <2>2, <1>2 DEF Inside, Metered, n
<1> QED  BY <1>4, <1>5, <1>6 DEF Inside, n, rest

\* A statement of the innermost body that is not its last: one unit of fuel,
\* one mention further.
LEMMA AdvanceKeeps ==
  ASSUME NEW p \in [Unit -> Bodies], NEW stack, NEW fuel, NEW memo,
         Inside(p, stack, fuel, memo), stack # <<>>, fuel > 1,
         stack[Len(stack)].at < Len(p[stack[Len(stack)].unit].mentions)
  PROVE  LET next == [stack EXCEPT ![Len(stack)].at = @ + 1]
         IN  /\ Inside(p, next, fuel - 1, memo)
             /\ next # <<>> /\ Len(next) = Len(stack)
             /\ next[Len(stack)].unit = stack[Len(stack)].unit
             /\ next[Len(stack)].at = stack[Len(stack)].at + 1
             /\ \A i \in 1..Len(stack) : next[i].unit = stack[i].unit
             /\ \A i \in 1..Len(stack) : i # Len(stack) => next[i] = stack[i]
<1> DEFINE n == Len(stack)
           top == [stack[n] EXCEPT !.at = @ + 1]
           next == [stack EXCEPT ![n] = top]
<1>1. /\ stack \in Seq(Frame) /\ n \in Nat \ {0} /\ n \in 1..n
      /\ fuel \in 0..FuelBudget /\ FuelBudget \in Nat
  BY EmptySeq, LenProperties, BoundsAssumption DEF Inside, Shaped
<1>2. stack[n] \in Frame
  BY <1>1, ElementOfSeq
<1>3. /\ top \in Frame /\ top.unit = stack[n].unit
      /\ top.at = stack[n].at + 1 /\ top.saved = stack[n].saved
  BY <1>2 DEF Frame
<1>4. /\ next \in Seq(Frame) /\ Len(next) = n /\ next[n] = top
      /\ \A i \in 1..n : i # n => next[i] = stack[i]
  BY <1>1, <1>3, ExceptSeq
<1>5. next = [stack EXCEPT ![Len(stack)].at = @ + 1]
  OBVIOUS
<1>6. next # <<>>
  BY <1>1, <1>4, EmptySeq
<1>7. /\ stack[n].at < Len(p[stack[n].unit].mentions)
      /\ stack[n].at \in Nat /\ Len(p[stack[n].unit].mentions) \in Nat
  BY <1>2, BodyShape DEF Frame
<1>8. Shaped(p, stack, fuel) /\ Nested(p, stack, memo) /\ Metered(p, stack, fuel)
  BY DEF Inside
<1> HIDE DEF top, next
<1>9. \A i \in 1..n : /\ next[i].unit = stack[i].unit
                      /\ next[i].saved = stack[i].saved
                      /\ i # n => next[i].at = stack[i].at
  BY <1>3, <1>4
<1>10. Shaped(p, next, fuel - 1)
  <2>1. fuel - 1 \in 0..FuelBudget
    BY <1>1
  <2>2. ASSUME NEW i \in 1..n
        PROVE  /\ next[i].at <= Len(p[next[i].unit].mentions)
               /\ next[i].saved \in 0..FuelBudget
    <3>1. CASE i = n
      BY <3>1, <1>3, <1>4, <1>7, <1>8, <1>9 DEF Shaped
    <3>2. CASE i # n
      BY <3>2, <1>8, <1>9 DEF Shaped
    <3> QED  BY <3>1, <3>2
  <2> QED  BY <2>1, <2>2, <1>4 DEF Shaped
<1>11. Nested(p, next, memo)
  <2>1. \A i, j \in 1..n : j = i + 1 => i # n
    BY <1>1
  <2>2. \A i, j \in 1..n :
          /\ i # j => next[i].unit # next[j].unit
          /\ next[i].unit \notin memo
          /\ j = i + 1 => p[next[i].unit].mentions[next[i].at] = next[j].unit
    BY <2>1, <1>8, <1>9 DEF Nested
  <2> QED  BY <2>2, <1>4 DEF Nested
<1>12. Metered(p, next, fuel - 1)
  <2>1. ASSUME NEW i \in 1..n
        PROVE  \/ Left(next, fuel - 1, i) + next[i].at = FuelBudget
               \/ /\ p[next[i].unit].own = "loop"
                  /\ Left(next, fuel - 1, i) + next[i].at <= FuelBudget
                  /\ next[i].at = Len(p[next[i].unit].mentions)
    <3>1. CASE i = n
      <4>1. fuel + stack[n].at = FuelBudget
        BY <1>1, <1>7, <1>8 DEF Metered, Left
      <4>2. Left(next, fuel - 1, n) = fuel - 1
        BY <1>4 DEF Left
      <4>3. next[n].at = stack[n].at + 1
        BY <1>3, <1>4
      <4>4. fuel \in Nat /\ stack[n].at \in Nat /\ FuelBudget \in Nat
        BY <1>1, <1>7
      <4> QED  BY <4>1, <4>2, <4>3, <4>4, <3>1
    <3>2. CASE i # n
      <4>1. i + 1 \in 1..n
        BY <3>2, <1>1
      <4>2. Left(next, fuel - 1, i) = Left(stack, fuel, i)
        BY <4>1, <3>2, <1>4, <1>9 DEF Left
      <4> QED  BY <4>2, <3>2, <1>8, <1>9 DEF Metered
    <3> QED  BY <3>1, <3>2
  <2> QED  BY <2>1, <1>4 DEF Metered
<1> QED  BY <1>3, <1>4, <1>5, <1>6, <1>9, <1>10, <1>11, <1>12 DEF Inside
-----------------------------------------------------------------------------
(* The steps.                                                               *)

\* Forcing from a stack whose innermost body has just mentioned u.
LEMMA ForceKeeps ==
  ASSUME IInv, NEW u \in Unit, NEW stack, NEW fuel,
         Inside(program, stack, fuel, DOMAIN forced),
         Len(stack) = Len(forcing),
         \A i \in 1..Len(stack) : stack[i].unit = forcing[i].unit,
         stack # <<>> =>
           program[stack[Len(stack)].unit].mentions[stack[Len(stack)].at] = u,
         ForceUnit(u, stack, fuel),
         UNCHANGED <<program, start_depth, forced, over>>
  PROVE  /\ IInv'
         /\ \A i \in DOMAIN forcing' \ DOMAIN forcing :
              forcing'[i].unit \notin DOMAIN forced
<1>1. /\ stack \in Seq(Frame) /\ forcing \in Seq(Frame)
      /\ program \in [Unit -> Bodies]
  BY DEF IInv, Inside, Shaped
<1>2. DOMAIN forcing = 1..Len(forcing) /\ DOMAIN stack = 1..Len(stack)
  BY <1>1, LenProperties
<1>3. CASE u \in DOMAIN forced \/ Refusal(u) # "none"
  <2>1. /\ forcing' = stack /\ const_fuel' = fuel /\ const_depth' = const_depth
        /\ reply' = IF u \in DOMAIN forced THEN forced[u] ELSE Refusal(u)
    BY <1>3 DEF ForceUnit
  <2>2. reply' \in Answer
    BY <2>1, <1>3 DEF IInv, Refusal, Answer, Failed
  <2>3. DOMAIN forcing' \ DOMAIN forcing = {}
    BY <2>1, <1>2
  <2> QED  BY <2>1, <2>2, <2>3 DEF IInv
<1>4. CASE u \notin DOMAIN forced /\ Refusal(u) = "none"
  <2> DEFINE pushed == Append(stack, [unit |-> u, at |-> 0, saved |-> fuel])
  <2>1. /\ forcing' = pushed /\ const_fuel' = FuelBudget
        /\ const_depth' = const_depth + 1 /\ reply' = reply
    BY <1>4 DEF ForceUnit
  <2>2. u \notin DOMAIN forced /\ u \notin InProgress
    BY <1>4 DEF Refusal
  <2>3. \A i \in 1..Len(stack) : stack[i].unit # u
    BY <2>2, <1>2 DEF InProgress
  <2>4. Inside(program, pushed, FuelBudget, DOMAIN forced)
    BY <1>1, <2>2, <2>3, PushKeeps
  <2>5. fuel \in Nat
    BY BoundsAssumption DEF Inside, Shaped
  <2>6. [unit |-> u, at |-> 0, saved |-> fuel] \in Frame
    BY <2>5 DEF Frame
  <2>7. /\ pushed \in Seq(Frame) /\ Len(pushed) = Len(forcing) + 1
        /\ pushed[Len(forcing) + 1].unit = u
    BY <1>1, <2>6, AppendProperties
  <2>8. Len(forcing) \in Nat /\ DOMAIN pushed = 1..(Len(forcing) + 1)
    BY <1>1, <2>7, LenProperties
  <2> HIDE DEF pushed
  <2>9. IInv'
    <3>1. const_depth' = start_depth' + Len(forcing')
      BY <2>1, <2>7, <2>8 DEF IInv
    <3> QED  BY <2>1, <2>4, <3>1 DEF IInv
  <2>10. DOMAIN forcing' \ DOMAIN forcing = {Len(forcing) + 1}
    BY <2>1, <2>8, <1>2
  <2> QED  BY <2>1, <2>2, <2>7, <2>9, <2>10
<1> QED  BY <1>3, <1>4

\* Answering the innermost body: it was not answered before.
LEMMA DeliverKeeps ==
  ASSUME IInv, forcing # <<>>, NEW answer \in Answer, Deliver(answer),
         UNCHANGED <<program, start_depth, over>>
  PROVE  /\ IInv'
         /\ \A u \in DOMAIN forced : u \in DOMAIN forced' /\ forced'[u] = forced[u]
         /\ DOMAIN forcing' \ DOMAIN forcing = {}
<1> DEFINE n == Len(forcing)
<1>1. /\ forcing \in Seq(Frame) /\ program \in [Unit -> Bodies]
      /\ n \in Nat \ {0} /\ DOMAIN forcing = 1..n
      /\ Inside(program, forcing, const_fuel, DOMAIN forced)
  BY EmptySeq, LenProperties DEF IInv, Inside, Shaped
<1>2. Top \in Frame /\ Top.unit \in Unit
  <2>1. Top \in Frame
    BY <1>1, ElementOfSeq DEF Top
  <2> QED  BY <2>1 DEF Frame
<1>3. Top.unit \notin DOMAIN forced
  BY <1>1 DEF Top, Inside, Nested
<1>4. /\ DOMAIN forced' = DOMAIN forced \cup {Top.unit}
      /\ forced'[Top.unit] = answer
      /\ \A u \in DOMAIN forced : forced'[u] = forced[u]
      /\ forced' = [u \in DOMAIN forced' |-> forced'[u]]
  BY <1>3 DEF Deliver
<1>5. Inside(program, forcing', const_fuel', DOMAIN forced')
  <2>1. /\ forcing' = SubSeq(forcing, 1, Len(forcing) - 1)
        /\ const_fuel' = forcing[Len(forcing)].saved
        /\ DOMAIN forced' = DOMAIN forced \cup {forcing[Len(forcing)].unit}
    BY <1>4 DEF Deliver, Top
  <2>2. Inside(program, SubSeq(forcing, 1, Len(forcing) - 1),
               forcing[Len(forcing)].saved,
               DOMAIN forced \cup {forcing[Len(forcing)].unit})
    BY <1>1, PopKeeps
  <2> QED  BY <2>1, <2>2
<1>6. Len(forcing') = n - 1 /\ DOMAIN forcing' = 1..(n - 1)
  <2>1. forcing' = SubSeq(forcing, 1, n - 1)
    BY DEF Deliver
  <2>2. forcing' \in Seq(Frame) /\ Len(forcing') = n - 1
    BY <1>1, <2>1, Popped
  <2> QED  BY <2>2, LenProperties
<1>7. const_depth' = start_depth' + Len(forcing')
  BY <1>1, <1>6 DEF IInv, Deliver
<1>8. IInv'
  <2>1. \A u \in DOMAIN forced' : u \in Unit /\ forced'[u] \in Answer
    BY <1>2, <1>4 DEF IInv
  <2>2. reply' \in Answer
    BY DEF Deliver
  <2> QED  BY <1>4, <1>5, <1>7, <2>1, <2>2 DEF IInv
<1>9. DOMAIN forcing' \ DOMAIN forcing = {}
  BY <1>1, <1>6
<1> QED  BY <1>4, <1>8, <1>9

\* What every step does: the invariant survives, no answer changes, and
\* nothing answered is pushed.
StepKeeps ==
  /\ IInv'
  /\ \A u \in DOMAIN forced : u \in DOMAIN forced' /\ forced'[u] = forced[u]
  /\ \A i \in DOMAIN forcing' \ DOMAIN forcing :
       forcing'[i].unit \notin DOMAIN forced

LEMMA InitEstablishes == Init => IInv
<1> SUFFICES ASSUME Init PROVE IInv
  OBVIOUS
<1>1. forcing = <<>> /\ forcing \in Seq(Frame) /\ Len(forcing) = 0
  BY DEF Init
<1>2. /\ DOMAIN forced = {}
      /\ const_fuel \in 0..FuelBudget
  BY BoundsAssumption DEF Init
<1>3. Inside(program, forcing, const_fuel, DOMAIN forced)
  BY <1>1, <1>2 DEF Inside, Shaped, Nested, Metered
<1>4. const_depth = start_depth + Len(forcing) /\ start_depth \in {0, 1}
  BY <1>1 DEF Init
<1> QED  BY <1>2, <1>3, <1>4 DEF Init, IInv

LEMMA StutterKeeps ==
  ASSUME IInv, UNCHANGED vars
  PROVE  StepKeeps
BY DEF vars, IInv, StepKeeps

LEMMA QueryKeeps ==
  ASSUME IInv, NEW u \in Unit, Query(u)
  PROVE  StepKeeps
<1>1. /\ forcing = <<>> /\ ForceUnit(u, <<>>, const_fuel)
      /\ UNCHANGED <<program, start_depth, forced, over>>
  BY DEF Query
<1>2. /\ Inside(program, <<>>, const_fuel, DOMAIN forced)
      /\ Len(<<>>) = Len(forcing) /\ 1..Len(<<>>) = {}
  BY <1>1 DEF IInv
<1>3. /\ IInv'
      /\ \A i \in DOMAIN forcing' \ DOMAIN forcing :
           forcing'[i].unit \notin DOMAIN forced
  BY <1>1, <1>2, ForceKeeps
<1> QED  BY <1>1, <1>3 DEF StepKeeps

LEMMA MentionKeeps ==
  ASSUME IInv, Mention
  PROVE  StepKeeps
<1> DEFINE n == Len(forcing)
           here == [forcing EXCEPT ![n].at = @ + 1]
           mentioned == Mentions(Top.unit)[Top.at + 1]
<1>1. /\ forcing # <<>> /\ forcing \in Seq(Frame) /\ program \in [Unit -> Bodies]
      /\ n \in 1..n /\ const_fuel \in 0..FuelBudget /\ FuelBudget \in Nat
      /\ Inside(program, forcing, const_fuel, DOMAIN forced)
  BY EmptySeq, LenProperties, BoundsAssumption DEF Mention, IInv, Inside, Shaped
<1>2. /\ Top = forcing[Len(forcing)]
      /\ Top.at < Len(program[Top.unit].mentions)
  BY DEF Mention, Mentions, Top
<1>3. Top \in Frame
  BY <1>1, <1>2, ElementOfSeq
<1>4. CASE Spent = 0
  <2>1. Deliver("fuel") /\ UNCHANGED <<program, start_depth, over>>
    BY <1>4 DEF Mention
  <2>2. "fuel" \in Answer
    BY DEF Answer, Failed
  <2> QED  BY <1>1, <2>1, <2>2, DeliverKeeps DEF StepKeeps
<1>5. CASE Spent # 0
  <2>1. /\ ForceUnit(mentioned, here, Spent)
        /\ UNCHANGED <<program, start_depth, forced, over>>
    BY <1>5 DEF Mention
  <2>2. const_fuel > 1 /\ Spent = const_fuel - 1
    BY <1>1, <1>5 DEF Spent
  <2>3. /\ Inside(program, here, Spent, DOMAIN forced)
        /\ here # <<>> /\ Len(here) = n
        /\ here[n].unit = Top.unit /\ here[n].at = Top.at + 1
        /\ \A i \in 1..n : here[i].unit = forcing[i].unit
    BY <1>1, <1>2, <2>2, AdvanceKeeps
  <2>4. mentioned \in Unit
    <3>1. /\ program[Top.unit].mentions \in Seq(Unit)
          /\ Top.at + 1 \in 1..Len(program[Top.unit].mentions)
      BY <1>1, <1>2, <1>3, BodyShape DEF Frame
    <3> QED  BY <3>1, ElementOfSeq DEF Mentions
  <2> HIDE DEF here
  <2>5. program[here[Len(here)].unit].mentions[here[Len(here)].at] = mentioned
    BY <2>3 DEF Mentions
  <2> HIDE DEF mentioned
  <2>6. /\ IInv'
        /\ \A i \in DOMAIN forcing' \ DOMAIN forcing :
             forcing'[i].unit \notin DOMAIN forced
    BY <2>1, <2>3, <2>4, <2>5, ForceKeeps
  <2> QED  BY <2>1, <2>6 DEF StepKeeps
<1> QED  BY <1>4, <1>5

LEMMA ReceiveKeeps ==
  ASSUME IInv, Receive
  PROVE  StepKeeps
<1>1. forcing # <<>> /\ UNCHANGED <<program, start_depth, over>>
  BY DEF Receive
<1>2. CASE reply = "value"
  BY <1>2 DEF Receive, IInv, StepKeeps
<1>3. CASE reply # "value"
  <2>1. Deliver(reply)
    BY <1>3 DEF Receive
  <2>2. reply \in Answer
    BY DEF IInv, Receive
  <2> QED  BY <1>1, <2>1, <2>2, DeliverKeeps DEF StepKeeps
<1> QED  BY <1>2, <1>3

LEMMA ReturnKeeps ==
  ASSUME IInv, Return
  PROVE  StepKeeps
<1> DEFINE n == Len(forcing)
           own == program[Top.unit].own
<1>1. /\ forcing # <<>> /\ forcing \in Seq(Frame) /\ program \in [Unit -> Bodies]
      /\ n \in 1..n /\ const_fuel \in 0..FuelBudget /\ FuelBudget \in Nat
      /\ Inside(program, forcing, const_fuel, DOMAIN forced)
      /\ UNCHANGED <<program, start_depth, over>>
  BY EmptySeq, LenProperties, BoundsAssumption DEF Return, IInv, Inside, Shaped
<1>2. /\ Top = forcing[n] /\ Top \in Frame
      /\ Top.at = Len(program[Top.unit].mentions)
  BY <1>1, ElementOfSeq DEF Return, Mentions, Top
<1>3. own \in Own
  BY <1>1, <1>2, BodyShape DEF Frame
<1>4. CASE Spent = 0
  <2>1. Deliver("fuel")
    BY <1>4 DEF Return
  <2>2. "fuel" \in Answer
    BY DEF Answer, Failed
  <2> QED  BY <1>1, <2>1, <2>2, DeliverKeeps DEF StepKeeps
<1>5. CASE Spent # 0 /\ own = "loop"
  <2>1. const_fuel' = Spent /\ UNCHANGED <<forcing, forced, const_depth, reply>>
    BY <1>5 DEF Return
  <2>2. const_fuel > 1 /\ Spent = const_fuel - 1
    BY <1>1, <1>5 DEF Spent
  <2>3. Inside(program, forcing, const_fuel - 1, DOMAIN forced)
    <3>1. Shaped(program, forcing, const_fuel - 1)
      BY <1>1, <2>2 DEF Inside, Shaped
    <3>2. /\ const_fuel + Top.at <= FuelBudget
          /\ const_fuel - 1 + Top.at <= FuelBudget
      <4>1. Metered(program, forcing, const_fuel)
        BY <1>1 DEF Inside
      <4>2. \/ const_fuel + Top.at = FuelBudget
            \/ const_fuel + Top.at <= FuelBudget
        BY <4>1, <1>1, <1>2 DEF Metered, Left
      <4>3. const_fuel \in Nat /\ Top.at \in Nat
        BY <1>1, <1>2 DEF Frame
      <4> QED  BY <4>2, <4>3, <1>1
    <3>3. ASSUME NEW i \in 1..n
          PROVE  \/ Left(forcing, const_fuel - 1, i) + forcing[i].at = FuelBudget
                 \/ /\ program[forcing[i].unit].own = "loop"
                    /\ Left(forcing, const_fuel - 1, i) + forcing[i].at <= FuelBudget
                    /\ forcing[i].at = Len(program[forcing[i].unit].mentions)
      <4>1. CASE i = n
        BY <4>1, <3>2, <1>2, <1>5 DEF Left
      <4>2. CASE i # n
        <5>1. Left(forcing, const_fuel - 1, i) = Left(forcing, const_fuel, i)
          BY <4>2 DEF Left
        <5> QED  BY <5>1, <1>1 DEF Inside, Metered
      <4> QED  BY <4>1, <4>2
    <3>4. Nested(program, forcing, DOMAIN forced)
      BY <1>1 DEF Inside
    <3> QED  BY <3>1, <3>3, <3>4 DEF Inside, Metered
  <2> QED  BY <1>1, <2>1, <2>2, <2>3 DEF IInv, StepKeeps
<1>6. CASE Spent # 0 /\ own # "loop"
  <2>1. Deliver(Escaped(own))
    BY <1>6 DEF Return
  <2>2. Escaped(own) \in Answer
    BY <1>3, <1>6 DEF Own, Escaped, Answer, Failed
  <2> QED  BY <1>1, <2>1, <2>2, DeliverKeeps DEF StepKeeps
<1> QED  BY <1>4, <1>5, <1>6

LEMMA HearKeeps ==
  ASSUME IInv, Hear
  PROVE  StepKeeps
BY DEF IInv, Hear, StepKeeps

LEMMA NextKeeps ==
  ASSUME IInv, [Next]_vars
  PROVE  StepKeeps
<1>1. ASSUME NEW u \in Unit, Query(u) PROVE StepKeeps
  BY <1>1, QueryKeeps
<1>2. CASE Mention
  BY <1>2, MentionKeeps
<1>3. CASE Receive
  BY <1>3, ReceiveKeeps
<1>4. CASE Return
  BY <1>4, ReturnKeeps
<1>5. CASE Hear
  BY <1>5, HearKeeps
<1>6. CASE UNCHANGED vars
  BY <1>6, StutterKeeps
<1> QED  BY <1>1, <1>2, <1>3, <1>4, <1>5, <1>6 DEF Next, Step

LEMMA Inductive == Spec => []IInv
<1>1. IInv /\ [Next]_vars => IInv'
  BY NextKeeps DEF StepKeeps
<1> QED  BY InitEstablishes, <1>1, PTL DEF Spec
-----------------------------------------------------------------------------
(* The theorems.                                                            *)

\* Types, and that the forcing depth is the number of bodies being forced
\* above the machine's own depth: what `const_depth` is checked against.
THEOREM TypeCorrect == Spec => []TypeOK
<1>1. IInv => TypeOK
  <2> SUFFICES ASSUME IInv PROVE TypeOK
    OBVIOUS
  <2>1. forcing \in Seq(Frame) /\ DOMAIN forcing = 1..Len(forcing)
    BY LenProperties DEF IInv, Inside, Shaped
  <2>2. ASSUME NEW i \in DOMAIN forcing
        PROVE  forcing[i] \in Frame /\ forcing[i].at <= Len(Mentions(forcing[i].unit))
    BY <2>1, ElementOfSeq DEF IInv, Inside, Shaped, Mentions
  <2> QED  BY <2>2 DEF TypeOK, IInv, Inside, Shaped
<1> QED  BY Inductive, <1>1, PTL

\* However deep items force each other, and whatever cycles they form, no
\* body is being evaluated twice at once, none that has an answer is, and each
\* is there because the one around it mentions it.
THEOREM NoReentry == Spec => []NeverReentered
<1>1. IInv => NeverReentered
  <2> SUFFICES ASSUME IInv PROVE NeverReentered
    OBVIOUS
  <2>1. DOMAIN forcing = 1..Len(forcing) /\ Nested(program, forcing, DOMAIN forced)
    BY LenProperties DEF IInv, Inside, Shaped
  <2> QED  BY <2>1 DEF NeverReentered, Nested, Mentions
<1> QED  BY Inductive, <1>1, PTL

\* Every body runs on a budget of its own: what it has left is the budget less
\* its own statements, whatever it forced and however that ended.
THEOREM OwnBudget == Spec => []FuelIsPerBody
<1>1. IInv => FuelIsPerBody
  <2> SUFFICES ASSUME IInv PROVE FuelIsPerBody
    OBVIOUS
  <2>1. DOMAIN forcing = 1..Len(forcing) /\ Metered(program, forcing, const_fuel)
    BY LenProperties DEF IInv, Inside, Shaped
  <2> QED  BY <2>1 DEF FuelIsPerBody, Metered, Left, Mentions
<1> QED  BY Inductive, <1>1, PTL

\* An answer in the memo is final, failures included, and nothing answered is
\* evaluated again.
THEOREM Memoized == Spec => EvaluatedOnce
<1>1. IInv /\ [Next]_vars =>
        [/\ \A u \in DOMAIN forced : u \in DOMAIN forced' /\ forced'[u] = forced[u]
         /\ \A i \in DOMAIN forcing' \ DOMAIN forcing :
              forcing'[i].unit \notin DOMAIN forced]_vars
  BY NextKeeps DEF StepKeeps
<1> QED  BY Inductive, <1>1, PTL DEF Spec, EvaluatedOnce
-----------------------------------------------------------------------------
(* What has a value.  The check of it counts in rounds; the proofs use the  *)
(* least set closed under "every mention has one", which is the same set.   *)

NatLess == {ss \in Nat \X Nat : ss[1] < ss[2]}

\* A set of numbers has a least one: what induction over data comes to here.
LEMMA Least ==
  ASSUME NEW T \in SUBSET Nat, T # {}
  PROVE  \E x \in T : \A y \in T : x <= y
<1>1. IsWellFoundedOn(NatLess, Nat)
  BY NatLessThanWellFounded DEF OpToRel, NatLess
<1>2. PICK x \in T : \A y \in T : ~ (<<y, x>> \in NatLess)
  BY <1>1, WFMin
<1>3. \A y \in T : ~(y < x)
  BY <1>2 DEF NatLess
<1>4. \A y \in T : x <= y
  BY <1>3
<1> QED  BY <1>4

\* Induction up to k, of membership of a set.
LEMMA UpTo ==
  ASSUME NEW k \in Nat, NEW S, 0 \in S,
         \A n \in 0..k : n \in S /\ n < k => n + 1 \in S
  PROVE  \A n \in 0..k : n \in S
<1> DEFINE T == {n \in 0..k : n \notin S}
<1>1. SUFFICES ASSUME T # {} PROVE FALSE
  OBVIOUS
<1>2. T \in SUBSET Nat
  OBVIOUS
<1>3. PICK x \in T : \A y \in T : x <= y
  BY <1>1, <1>2, Least
<1>4. x \in 0..k /\ x \notin S /\ x # 0
  BY <1>3
<1>5. x - 1 \in 0..k /\ ~(x <= x - 1) /\ x - 1 < k /\ (x - 1) + 1 = x
  BY <1>4
<1>6. x - 1 \notin T
  BY <1>3, <1>5
<1> QED  BY <1>4, <1>5, <1>6

\* The bodies that come to a value when all of S do.
From(p, S) ==
  {u \in Unit : /\ p[u].own = "value"
                /\ Len(p[u].mentions) + 1 < FuelBudget
                /\ \A i \in DOMAIN p[u].mentions : p[u].mentions[i] \in S}

Closed(p, S) == From(p, S) \subseteq S

HaveValue(p) == {u \in Unit : \A S \in SUBSET Unit : Closed(p, S) => u \in S}

\* A body with nothing wrong of its own has a value if all it mentions do ...
LEMMA ValueFrom ==
  ASSUME NEW p, NEW u \in From(p, HaveValue(p))
  PROVE  u \in HaveValue(p)
<1> SUFFICES ASSUME NEW S \in SUBSET Unit, Closed(p, S) PROVE u \in S
  BY DEF HaveValue, From
<1>1. HaveValue(p) \subseteq S
  BY DEF HaveValue
<1>2. u \in From(p, S)
  BY <1>1 DEF From
<1> QED  BY <1>2 DEF Closed

\* ... and only then.
LEMMA ValueOnlyFrom ==
  ASSUME NEW p, NEW u \in HaveValue(p)
  PROVE  u \in From(p, HaveValue(p))
<1> DEFINE S == From(p, HaveValue(p))
<1>1. \A v \in S : v \in HaveValue(p)
  BY ValueFrom
<1>2. S \in SUBSET Unit
  BY DEF From
<1>3. From(p, S) \subseteq S
  BY <1>1 DEF From
<1> QED  BY <1>2, <1>3 DEF HaveValue, Closed

\* Bodies each of which mentions another of them, or itself, have none.
LEMMA NoValueInCycle ==
  ASSUME NEW p, NEW C \in SUBSET Unit,
         \A u \in C : \E i \in DOMAIN p[u].mentions : p[u].mentions[i] \in C
  PROVE  \A u \in C : u \notin HaveValue(p)
<1> DEFINE S == Unit \ C
<1>1. S \in SUBSET Unit /\ Closed(p, S)
  BY DEF Closed, From
<1> QED  BY <1>1 DEF HaveValue

\* `good` is the rounds it says it is: there is such a function.
LEMMA GoodRounds ==
  ASSUME NEW K \in Nat, K = Cardinality(Unit)
  PROVE  good = [n \in 0..K |-> IF n = 0 THEN {} ELSE From(program, good[n - 1])]
<1> DEFINE IsRounds(g, k) ==
             g = [n \in 0..k |-> IF n = 0 THEN {} ELSE From(program, g[n - 1])]
           S == {k \in Nat : \E g : IsRounds(g, k)}
<1>1. 0 \in S
  <2>1. IsRounds([n \in 0..0 |-> {}], 0)
    OBVIOUS
  <2> QED  BY <2>1
<1>2. ASSUME NEW k \in Nat, k \in S
      PROVE  k + 1 \in S
  <2>1. PICK g : IsRounds(g, k)
    BY <1>2
  <2> DEFINE h == [n \in 0..(k + 1) |-> IF n = k + 1 THEN From(program, g[k]) ELSE g[n]]
  <2>2. \A n \in 0..(k + 1) :
          h[n] = IF n = 0 THEN {} ELSE From(program, h[n - 1])
    <3> SUFFICES ASSUME NEW n \in 0..(k + 1)
                 PROVE  h[n] = IF n = 0 THEN {} ELSE From(program, h[n - 1])
      OBVIOUS
    <3>1. CASE n = k + 1
      <4>1. n # 0 /\ n - 1 = k /\ k \in 0..(k + 1) /\ k # k + 1
        BY <3>1
      <4> QED  BY <4>1, <3>1
    <3>2. CASE n = 0
      <4>1. n # k + 1 /\ n \in 0..k
        BY <3>2
      <4> QED  BY <4>1, <3>2, <2>1
    <3>3. CASE n # 0 /\ n # k + 1
      <4>1. n \in 0..k /\ n - 1 \in 0..(k + 1) /\ n - 1 # k + 1
        BY <3>3
      <4>2. g[n] = From(program, g[n - 1])
        BY <4>1, <3>3, <2>1
      <4> QED  BY <4>1, <4>2, <3>3
    <3> QED  BY <3>1, <3>2, <3>3
  <2>3. h = [n \in 0..(k + 1) |-> h[n]]
    OBVIOUS
  <2>4. IsRounds(h, k + 1)
    <3> HIDE DEF h
    <3> QED  BY <2>2, <2>3
  <2> HIDE DEF h
  <2>5. \E f : IsRounds(f, k + 1)
    BY <2>4
  <2> HIDE DEF IsRounds
  <2> QED  BY <2>5
<1> HIDE DEF S
<1>3. K \in S
  BY <1>1, <1>2, UpTo
<1>4. \E g : g = [n \in 0..K |-> IF n = 0 THEN {} ELSE From(program, g[n - 1])]
  BY <1>3 DEF S
<1>5. good = CHOOSE g : g = [n \in 0..K |-> IF n = 0 THEN {} ELSE From(program, g[n - 1])]
  BY DEF good, From, Mentions
<1> QED  BY <1>4, <1>5

\* What has a value after any number of rounds has one, and a finite number
\* of rounds is enough: each adds a body, or the ones after it add none.
LEMMA GoodIsValue == HaveValue(program) = Good
<1> DEFINE K == Cardinality(Unit)
           p == program
<1>1. K \in Nat
  BY UnitAssumption, FS_CardinalityType
<1>2. good = [n \in 0..K |-> IF n = 0 THEN {} ELSE From(p, good[n - 1])]
  BY <1>1, GoodRounds
<1>3. /\ good[0] = {} /\ K \in 0..K /\ 0 \in 0..K
      /\ \A n \in 0..K : n < K => n + 1 \in 0..K /\ good[n + 1] = From(p, good[n])
  <2>1. \A n \in 0..K : n < K => n + 1 \in 0..K /\ n + 1 # 0 /\ (n + 1) - 1 = n
    BY <1>1
  <2>2. \A n \in 0..K : good[n] = IF n = 0 THEN {} ELSE From(p, good[n - 1])
    BY <1>2
  <2> HIDE DEF K, p
  <2>3. K \in 0..K /\ 0 \in 0..K
    BY <1>1
  <2>4. good[0] = {}
    BY <2>2, <2>3
  <2>5. ASSUME NEW n \in 0..K, n < K
        PROVE  n + 1 \in 0..K /\ good[n + 1] = From(p, good[n])
    <3>1. n + 1 \in 0..K /\ n + 1 # 0 /\ (n + 1) - 1 = n
      BY <2>1, <2>5
    <3>2. good[n + 1] = From(p, good[(n + 1) - 1])
      BY <2>2, <3>1
    <3> QED  BY <3>1, <3>2
  <2> QED  BY <2>3, <2>4, <2>5
<1>4. \A n \in 0..K : good[n] \in SUBSET Unit
  BY <1>2 DEF From
<1>k. K = Cardinality(Unit)
  OBVIOUS
<1>g. Good = good[K]
  BY DEF Good
<1> HIDE DEF K, p
<1>5. good[K] \subseteq HaveValue(p)
  <2> DEFINE S == {n \in 0..K : good[n] \subseteq HaveValue(p)}
  <2>1. 0 \in S
    BY <1>3
  <2>2. ASSUME NEW n \in 0..K, n \in S, n < K PROVE n + 1 \in S
    <3>1. From(p, good[n]) \subseteq From(p, HaveValue(p))
      BY <2>2 DEF From
    <3> QED  BY <1>3, <2>2, <3>1, ValueFrom
  <2> HIDE DEF S
  <2>3. K \in S
    BY <1>1, <1>3, <2>1, <2>2, UpTo
  <2> QED  BY <2>3 DEF S
<1>6. Closed(p, good[K])
  <2>1. ASSUME NEW m \in 0..K, Closed(p, good[m])
        PROVE  Closed(p, good[K])
    <3> DEFINE S == {n \in 0..K : m <= n => Closed(p, good[n])}
    <3>1. 0 \in S
      <4>1. m <= 0 => m = 0
        BY <1>1
      <4> QED  BY <1>3, <2>1, <4>1
    <3>2. ASSUME NEW n \in 0..K, n \in S, n < K PROVE n + 1 \in S
      <4>1. CASE m <= n
        <5>1. Closed(p, good[n]) /\ good[n + 1] = From(p, good[n])
          BY <1>3, <3>2, <4>1
        <5>2. Closed(p, good[n + 1])
          BY <5>1 DEF Closed, From
        <5> QED  BY <1>3, <3>2, <5>2
      <4>2. CASE ~(m <= n)
        <5>1. m <= n + 1 => m = n + 1
          BY <1>1, <4>2
        <5> QED  BY <1>3, <2>1, <3>2, <5>1
      <4> QED  BY <4>1, <4>2
    <3> HIDE DEF S
    <3>3. K \in S
      BY <1>1, <1>3, <3>1, <3>2, UpTo
    <3>4. m <= K
      BY <1>1
    <3> QED  BY <3>3, <3>4 DEF S
  <2>2. CASE \A m \in 0..K : ~Closed(p, good[m])
    <3> DEFINE S == {n \in 0..K : /\ n <= Cardinality(good[n])
                                  /\ n < K => good[n] \subseteq good[n + 1]}
    <3>1. ASSUME NEW n \in 0..K
          PROVE  IsFiniteSet(good[n]) /\ Cardinality(good[n]) \in Nat
      BY <1>4, UnitAssumption, FS_Subset, FS_CardinalityType
    <3>2. 0 \in S
      <4>1. 0 <= Cardinality(good[0])
        BY <1>3, <3>1
      <4> QED  BY <1>3, <4>1
    <3>3. ASSUME NEW n \in 0..K, n \in S, n < K PROVE n + 1 \in S
      <4>1. /\ good[n + 1] = From(p, good[n]) /\ n + 1 \in 0..K
            /\ good[n] \subseteq good[n + 1] /\ n <= Cardinality(good[n])
        BY <1>3, <3>3
      <4>2. good[n + 1] # good[n]
        BY <2>2, <4>1 DEF Closed
      <4>3. Cardinality(good[n]) <= Cardinality(good[n + 1])
            /\ Cardinality(good[n]) # Cardinality(good[n + 1])
        BY <3>1, <4>1, <4>2, FS_Subset
      <4>4. n + 1 <= Cardinality(good[n + 1])
        BY <1>1, <3>1, <4>1, <4>3
      <4>5. n + 1 < K => good[n + 1] \subseteq good[n + 2]
        <5>1. n + 1 < K => good[n + 2] = From(p, good[n + 1])
          <6>1. (n + 1) + 1 = n + 2
            BY <1>1
          <6> QED  BY <1>3, <4>1, <6>1
        <5>2. From(p, good[n]) \subseteq From(p, good[n + 1])
          BY <4>1 DEF From
        <5> QED  BY <4>1, <5>1, <5>2
      <4>6. (n + 1) + 1 = n + 2
        BY <1>1
      <4> QED  BY <4>1, <4>4, <4>5, <4>6
    <3> HIDE DEF S
    <3>4. K \in S
      BY <1>1, <1>3, <3>2, <3>3, UpTo
    <3>5. K <= Cardinality(good[K])
      BY <3>4 DEF S
    <3>6. Cardinality(good[K]) = Cardinality(Unit)
      <4>1. Cardinality(good[K]) <= Cardinality(Unit)
        BY <1>3, <1>4, UnitAssumption, FS_Subset
      <4>2. Cardinality(good[K]) \in Nat
        BY <1>3, <3>1
      <4> QED  BY <1>1, <1>k, <3>5, <4>1, <4>2
    <3>7. good[K] = Unit
      BY <1>3, <1>4, <3>6, UnitAssumption, FS_Subset
    <3> QED  BY <3>7 DEF Closed, From
  <2> QED  BY <2>1, <2>2
<1>7. HaveValue(p) \subseteq good[K]
  BY <1>3, <1>4, <1>6 DEF HaveValue
<1> QED  BY <1>5, <1>7, <1>g DEF p
-----------------------------------------------------------------------------
(* The answers.                                                             *)

\* An answer says what its body's fate is; only the depth cap says nothing.
Fits(p, u, answer) ==
  /\ answer = "value" => u \in HaveValue(p)
  /\ answer \in Failed \ {"depth"} => u \notin HaveValue(p)

MemoFits(p, memo) == \A u \in DOMAIN memo : Fits(p, u, memo[u])

\* Every body on a stack is past its first mention, which the next one is at,
\* and what it mentioned before has a value.
Waiting(p, stack) ==
  \A i \in 1..Len(stack) :
    /\ stack[i].at > 0
    /\ \A j \in 1..(stack[i].at - 1) : p[stack[i].unit].mentions[j] \in HaveValue(p)

\* The same of all but the innermost, which has heard the answer or waits.
Heard(p, stack, answer) ==
  \A i \in 1..Len(stack) :
    LET said == p[stack[i].unit].mentions
    IN  /\ i # Len(stack) => stack[i].at > 0
        /\ \A j \in 1..(stack[i].at - 1) : said[j] \in HaveValue(p)
        /\ i = Len(stack) =>
             IF answer = "none"
               THEN stack[i].at > 0 => said[stack[i].at] \in HaveValue(p)
               ELSE stack[i].at > 0 /\ Fits(p, said[stack[i].at], answer)

Judged == MemoFits(program, forced) /\ Heard(program, forcing, reply)

\* A unit on the stack has no value when the innermost mentions it: from it
\* to the innermost, each mentions the next.
LEMMA CycleHasNoValue ==
  ASSUME NEW p \in [Unit -> Bodies], NEW stack, NEW fuel, NEW memo,
         Inside(p, stack, fuel, memo), Waiting(p, stack),
         NEW k \in 1..Len(stack),
         p[stack[Len(stack)].unit].mentions[stack[Len(stack)].at] = stack[k].unit
  PROVE  stack[k].unit \notin HaveValue(p)
<1> DEFINE n == Len(stack)
           C == {stack[i].unit : i \in k..n}
<1>1. stack \in Seq(Frame) /\ n \in Nat /\ Nested(p, stack, memo) /\ Shaped(p, stack, fuel)
  BY LenProperties DEF Inside, Shaped
<1>2. \A i \in 1..n : stack[i] \in Frame
  BY <1>1, ElementOfSeq
<1> HIDE DEF n
<1>3. \A i \in k..n : i \in 1..n /\ (i # n => i + 1 \in k..n)
  BY <1>1 DEF n
<1>4. k \in k..n /\ n \in 1..n
  BY <1>1 DEF n
<1>5. ASSUME NEW i \in k..n
      PROVE  /\ stack[i].unit \in Unit
             /\ stack[i].at \in DOMAIN p[stack[i].unit].mentions
             /\ p[stack[i].unit].mentions[stack[i].at] \in C
  <2>1. /\ stack[i] \in Frame /\ stack[i].at > 0
        /\ stack[i].at <= Len(p[stack[i].unit].mentions)
    BY <1>1, <1>2, <1>3 DEF Waiting, Shaped, n
  <2>2. stack[i].unit \in Unit /\ stack[i].at \in Nat
    BY <2>1 DEF Frame
  <2>3. p[stack[i].unit].mentions \in Seq(Unit)
    BY <2>2, BodyShape
  <2>4. stack[i].at \in DOMAIN p[stack[i].unit].mentions
    BY <2>1, <2>2, <2>3, LenProperties
  <2>5. CASE i = n
    BY <1>4, <2>2, <2>4, <2>5 DEF n
  <2>6. CASE i # n
    <3>1. i \in 1..n /\ i + 1 \in 1..n /\ i + 1 \in k..n
      BY <1>3, <2>6
    <3>2. p[stack[i].unit].mentions[stack[i].at] = stack[i + 1].unit
      BY <1>1, <3>1 DEF Nested, n
    <3> QED  BY <2>2, <2>4, <3>1, <3>2
  <2> QED  BY <2>5, <2>6
<1>6. C \in SUBSET Unit
  BY <1>5
<1>7. \A u \in C : \E i \in DOMAIN p[u].mentions : p[u].mentions[i] \in C
  BY <1>5
<1> HIDE DEF C
<1>8. stack[k].unit \in C
  BY <1>4 DEF C
<1> QED  BY <1>6, <1>7, <1>8, NoValueInCycle

\* Forcing what the innermost body mentions: it waits for one more body, or
\* has heard.
LEMMA ForceJudged ==
  ASSUME IInv, Judged, reply = "none", NEW u \in Unit, NEW stack, NEW fuel,
         Inside(program, stack, fuel, DOMAIN forced), Waiting(program, stack),
         Len(stack) = Len(forcing),
         \A i \in 1..Len(stack) : stack[i].unit = forcing[i].unit,
         stack # <<>> =>
           program[stack[Len(stack)].unit].mentions[stack[Len(stack)].at] = u,
         ForceUnit(u, stack, fuel),
         UNCHANGED <<program, forced>>
  PROVE  Judged'
<1> DEFINE n == Len(stack)
<1>1. /\ stack \in Seq(Frame) /\ forcing \in Seq(Frame)
      /\ program \in [Unit -> Bodies] /\ n \in Nat
      /\ DOMAIN forcing = 1..n
  BY LenProperties DEF IInv, Inside, Shaped
<1>2. MemoFits(program, forced)'
  BY DEF Judged, MemoFits
<1>3. CASE u \in DOMAIN forced \/ Refusal(u) # "none"
  <2>1. /\ forcing' = stack
        /\ reply' = IF u \in DOMAIN forced THEN forced[u] ELSE Refusal(u)
    BY <1>3 DEF ForceUnit
  <2>2. CASE stack = <<>>
    <3>1. 1..Len(forcing') = {}
      BY <2>1, <2>2
    <3> QED  BY <1>2, <3>1 DEF Judged, Heard
  <2>3. CASE stack # <<>>
    <3>1. reply' # "none" /\ Fits(program, u, reply')
      <4>1. CASE u \in DOMAIN forced
        BY <2>1, <4>1 DEF Judged, MemoFits, IInv, Answer, Failed
      <4>2. CASE u \notin DOMAIN forced /\ u \in InProgress
        <5>1. reply' = "cycle"
          BY <2>1, <4>2 DEF Refusal
        <5>2. PICK k \in 1..n : stack[k].unit = u
          BY <1>1, <4>2 DEF InProgress
        <5>3. u \notin HaveValue(program)
          BY <1>1, <2>3, <5>2, CycleHasNoValue
        <5> QED  BY <5>1, <5>3 DEF Fits
      <4>3. CASE u \notin DOMAIN forced /\ u \notin InProgress
        BY <1>3, <2>1, <4>3 DEF Refusal, Fits
      <4> QED  BY <4>1, <4>2, <4>3
    <3>2. Heard(program, stack, reply')
      BY <2>3, <3>1 DEF Heard, Waiting
    <3> QED  BY <1>2, <2>1, <3>2 DEF Judged
  <2> QED  BY <2>2, <2>3
<1>4. CASE u \notin DOMAIN forced /\ Refusal(u) = "none"
  <2> DEFINE top == [unit |-> u, at |-> 0, saved |-> fuel]
             pushed == Append(stack, top)
  <2>1. forcing' = pushed /\ reply' = "none"
    BY <1>4 DEF ForceUnit
  <2>2. top \in Frame
    BY BoundsAssumption DEF Inside, Shaped, Frame
  <2>3. /\ Len(pushed) = n + 1 /\ pushed[n + 1] = top
        /\ \A i \in 1..n : pushed[i] = stack[i]
    BY <1>1, <2>2, AppendProperties
  <2>4. top.at = 0
    OBVIOUS
  <2> HIDE DEF pushed, top
  <2>5. ASSUME NEW i \in 1..(n + 1)
        PROVE  LET said == program[pushed[i].unit].mentions
               IN  /\ i # n + 1 => pushed[i].at > 0
                   /\ \A j \in 1..(pushed[i].at - 1) : said[j] \in HaveValue(program)
                   /\ i = n + 1 => ~(pushed[i].at > 0)
    <3>1. CASE i = n + 1
      BY <2>3, <2>4, <3>1
    <3>2. CASE i \in 1..n
      BY <1>1, <2>3, <3>2 DEF Waiting
    <3> QED  BY <1>1, <3>1, <3>2
  <2>6. Heard(program, pushed, "none")
    BY <2>3, <2>5 DEF Heard
  <2> QED  BY <1>2, <2>1, <2>6 DEF Judged
<1> QED  BY <1>3, <1>4

\* Answering the innermost body with what fits it: the one around it, which
\* mentioned it, has heard.
LEMMA DeliverJudged ==
  ASSUME IInv, Judged, forcing # <<>>, NEW answer \in Answer, Deliver(answer),
         Fits(program, Top.unit, answer), program' = program
  PROVE  Judged'
<1> DEFINE n == Len(forcing)
<1>1. /\ forcing \in Seq(Frame) /\ n \in Nat \ {0}
      /\ Len(forcing') = n - 1
      /\ \A i \in 1..(n - 1) : forcing'[i] = forcing[i]
  <2>1. forcing \in Seq(Frame)
    BY DEF IInv, Inside, Shaped
  <2> QED  BY <2>1, Popped DEF Deliver
<1>2. MemoFits(program, forced)'
  BY DEF Deliver, Judged, MemoFits
<1>3. reply' = answer /\ answer # "none"
  BY DEF Deliver, Answer, Failed
<1>4. /\ Heard(program, forcing, reply) /\ Nested(program, forcing, DOMAIN forced)
      /\ Top = forcing[n]
  BY DEF Judged, IInv, Inside, Top
<1> HIDE DEF n
<1>5. ASSUME NEW i \in 1..(n - 1)
      PROVE  LET said == program[forcing'[i].unit].mentions
             IN  /\ forcing'[i].at > 0
                 /\ \A j \in 1..(forcing'[i].at - 1) : said[j] \in HaveValue(program)
                 /\ i = n - 1 => said[forcing'[i].at] = Top.unit
  <2>1. i \in 1..n /\ i # n /\ (i = n - 1 => n = i + 1) /\ n \in 1..n
    BY <1>1
  <2>2. forcing'[i] = forcing[i]
    BY <1>1
  <2>3. i = n - 1 =>
          program[forcing[i].unit].mentions[forcing[i].at] = forcing[n].unit
    <3>1. i = n - 1 =>
            program[forcing[i].unit].mentions[forcing[i].at] = forcing[i + 1].unit
      <4>1. i = n - 1 => i + 1 \in 1..n
        BY <2>1
      <4> QED  BY <1>4, <2>1, <4>1 DEF Nested, n
    <3> QED  BY <2>1, <3>1
  <2> QED  BY <1>4, <2>1, <2>2, <2>3 DEF Heard, n
<1>6. Heard(program, forcing', answer)
  BY <1>1, <1>3, <1>5 DEF Heard
<1> QED  BY <1>2, <1>3, <1>6 DEF Judged

LEMMA InitJudged == Init => Judged
BY DEF Init, Judged, MemoFits, Heard

LEMMA QueryJudged ==
  ASSUME IInv, Judged, NEW u \in Unit, Query(u)
  PROVE  Judged'
<1>1. /\ forcing = <<>> /\ reply = "none" /\ ForceUnit(u, <<>>, const_fuel)
      /\ UNCHANGED <<program, forced>>
  BY DEF Query
<1>2. /\ Inside(program, <<>>, const_fuel, DOMAIN forced)
      /\ Len(<<>>) = Len(forcing) /\ 1..Len(<<>>) = {}
  BY <1>1 DEF IInv
<1>3. Waiting(program, <<>>)
  BY <1>2 DEF Waiting
<1> QED  BY <1>1, <1>2, <1>3, ForceJudged

\* The innermost body: its frame, and what it has spent so far.
LEMMA Innermost ==
  ASSUME IInv, forcing # <<>>
  PROVE  LET n == Len(forcing)
         IN  /\ forcing \in Seq(Frame) /\ program \in [Unit -> Bodies]
             /\ n \in Nat \ {0} /\ n \in 1..n
             /\ Inside(program, forcing, const_fuel, DOMAIN forced)
             /\ Top = forcing[n] /\ Top \in Frame
             /\ Top.unit \in Unit /\ Top.at \in Nat
             /\ program[Top.unit].mentions \in Seq(Unit)
             /\ Top.at <= Len(program[Top.unit].mentions)
             /\ const_fuel \in Nat /\ FuelBudget \in Nat
             /\ \/ const_fuel + Top.at = FuelBudget
                \/ /\ program[Top.unit].own = "loop"
                   /\ Top.at = Len(program[Top.unit].mentions)
<1> DEFINE n == Len(forcing)
<1>1. /\ forcing \in Seq(Frame) /\ program \in [Unit -> Bodies]
      /\ n \in Nat \ {0} /\ n \in 1..n
      /\ Inside(program, forcing, const_fuel, DOMAIN forced)
      /\ Shaped(program, forcing, const_fuel) /\ Metered(program, forcing, const_fuel)
  BY EmptySeq, LenProperties DEF IInv, Inside, Shaped
<1>2. Top = forcing[n] /\ Top \in Frame
  BY <1>1, ElementOfSeq DEF Top
<1>3. Top.unit \in Unit /\ Top.at \in Nat
  BY <1>2 DEF Frame
<1>4. program[Top.unit].mentions \in Seq(Unit)
  BY <1>1, <1>3, BodyShape
<1>5. Top.at <= Len(program[Top.unit].mentions)
  BY <1>1, <1>2 DEF Shaped
<1>6. const_fuel \in Nat /\ FuelBudget \in Nat
  BY <1>1, BoundsAssumption DEF Shaped
<1>7. Left(forcing, const_fuel, n) = const_fuel
  BY DEF Left
<1>8. \/ const_fuel + Top.at = FuelBudget
      \/ /\ program[Top.unit].own = "loop"
         /\ Top.at = Len(program[Top.unit].mentions)
  BY <1>1, <1>2, <1>7 DEF Metered
<1> QED  BY <1>1, <1>2, <1>3, <1>4, <1>5, <1>6, <1>8

\* Running out of fuel is the body's own fate: what it has spent are its own
\* statements, and it has one more to go.
LEMMA OutOfFuel ==
  ASSUME IInv, forcing # <<>>, Spent = 0
  PROVE  Fits(program, Top.unit, "fuel")
<1> DEFINE said == program[Top.unit].mentions
<1>1. /\ Top.at \in Nat /\ said \in Seq(Unit) /\ Top.at <= Len(said)
      /\ const_fuel \in Nat /\ FuelBudget \in Nat
      /\ \/ const_fuel + Top.at = FuelBudget
         \/ program[Top.unit].own = "loop"
  BY Innermost
<1>2. Len(said) \in Nat /\ const_fuel <= 1
  BY <1>1, LenProperties DEF Spent
<1>3. program[Top.unit].own = "loop" \/ ~(Len(said) + 1 < FuelBudget)
  BY <1>1, <1>2
<1>4. Top.unit \notin From(program, HaveValue(program))
  BY <1>3 DEF From
<1> QED  BY <1>4, ValueOnlyFrom DEF Fits

LEMMA MentionJudged ==
  ASSUME IInv, Judged, Mention
  PROVE  Judged'
<1> DEFINE n == Len(forcing)
           here == [forcing EXCEPT ![n].at = @ + 1]
           mentioned == Mentions(Top.unit)[Top.at + 1]
<1>1. /\ forcing # <<>> /\ forcing \in Seq(Frame) /\ program \in [Unit -> Bodies]
      /\ n \in Nat \ {0} /\ n \in 1..n /\ const_fuel \in Nat
      /\ Inside(program, forcing, const_fuel, DOMAIN forced)
      /\ Top = forcing[n] /\ Top.unit \in Unit /\ Top.at \in Nat
      /\ program[Top.unit].mentions \in Seq(Unit)
  BY Innermost DEF Mention
<1>2. /\ Top.at < Len(program[Top.unit].mentions)
      /\ reply = "none" /\ program' = program
  BY DEF Mention, Mentions
<1>3. CASE Spent = 0
  <2>1. Deliver("fuel")
    BY <1>3 DEF Mention
  <2>2. "fuel" \in Answer
    BY DEF Answer, Failed
  <2> QED  BY <1>1, <1>2, <1>3, <2>1, <2>2, OutOfFuel, DeliverJudged
<1>4. CASE Spent # 0
  <2>1. /\ ForceUnit(mentioned, here, Spent)
        /\ UNCHANGED <<program, forced>>
    BY <1>4 DEF Mention
  <2>2. const_fuel > 1 /\ Spent = const_fuel - 1
    BY <1>1, <1>4 DEF Spent
  <2>3. /\ Inside(program, here, Spent, DOMAIN forced)
        /\ here # <<>> /\ Len(here) = n
        /\ here[n].unit = Top.unit /\ here[n].at = Top.at + 1
        /\ \A i \in 1..n : here[i].unit = forcing[i].unit
        /\ \A i \in 1..n : i # n => here[i] = forcing[i]
    BY <1>1, <1>2, <2>2, AdvanceKeeps
  <2>4. mentioned \in Unit
    <3>1. Top.at + 1 \in 1..Len(program[Top.unit].mentions)
      BY <1>1, <1>2, LenProperties
    <3> QED  BY <1>1, <3>1, ElementOfSeq DEF Mentions
  <2> HIDE DEF here, n
  <2>5. program[here[Len(here)].unit].mentions[here[Len(here)].at] = mentioned
    BY <2>3 DEF Mentions
  <2>6. Heard(program, forcing, "none")
    BY <1>2 DEF Judged
  <2>7. Waiting(program, here)
    <3> SUFFICES ASSUME NEW i \in 1..n
                 PROVE  /\ here[i].at > 0
                        /\ \A j \in 1..(here[i].at - 1) :
                             program[here[i].unit].mentions[j] \in HaveValue(program)
      BY <2>3 DEF Waiting
    <3>1. CASE i # n
      BY <2>3, <2>6, <3>1 DEF Heard, n
    <3>2. CASE i = n
      <4>1. /\ \A j \in 1..(Top.at - 1) :
                 program[Top.unit].mentions[j] \in HaveValue(program)
            /\ Top.at > 0 => program[Top.unit].mentions[Top.at] \in HaveValue(program)
        BY <1>1, <2>6 DEF Heard, n
      <4>2. \A j \in 1..(Top.at + 1 - 1) : j \in 1..(Top.at - 1) \/ (j = Top.at /\ Top.at > 0)
        BY <1>1
      <4>3. Top.at + 1 > 0
        BY <1>1
      <4>4. \A j \in 1..(Top.at + 1 - 1) :
              program[Top.unit].mentions[j] \in HaveValue(program)
        BY <4>1, <4>2
      <4>5. here[i].unit = Top.unit /\ here[i].at = Top.at + 1
        BY <2>3, <3>2
      <4>6. here[i].at > 0
        BY <4>3, <4>5
      <4>7. \A t \in Nat : \A k : k = t + 1 => 1..(k - 1) = 1..(t + 1 - 1)
        OBVIOUS
      <4>8. Top.at \in Nat
        BY <1>1
      <4>9. 1..(here[i].at - 1) = 1..(Top.at + 1 - 1)
        BY <4>5, <4>7, <4>8, Zenon
      <4>10. \A j \in 1..(here[i].at - 1) :
               program[here[i].unit].mentions[j] \in HaveValue(program)
        BY <4>4, <4>5, <4>9, Zenon
      <4> QED  BY <4>6, <4>10
    <3> QED  BY <3>1, <3>2
  <2> HIDE DEF mentioned
  <2>8. Len(here) = Len(forcing) /\ \A i \in 1..Len(here) : here[i].unit = forcing[i].unit
    BY <2>3 DEF n
  <2> QED  BY <1>2, <2>1, <2>3, <2>4, <2>5, <2>7, <2>8, ForceJudged
<1> QED  BY <1>3, <1>4

LEMMA ReceiveJudged ==
  ASSUME IInv, Judged, Receive
  PROVE  Judged'
<1> DEFINE n == Len(forcing)
           said == program[Top.unit].mentions
<1>1. /\ forcing # <<>> /\ reply # "none" /\ program' = program
      /\ n \in 1..n /\ Top = forcing[n] /\ Top.at \in Nat
      /\ said \in Seq(Unit) /\ Top.at <= Len(said)
  BY Innermost DEF Receive
<1>2. Heard(program, forcing, reply)
  BY DEF Judged
<1>3. Top.at > 0 /\ Fits(program, said[Top.at], reply)
  BY <1>1, <1>2 DEF Heard
<1>4. CASE reply = "value"
  <2>1. reply' = "none" /\ forcing' = forcing /\ forced' = forced
    BY <1>4 DEF Receive
  <2>2. said[Top.at] \in HaveValue(program)
    BY <1>3, <1>4 DEF Fits
  <2>3. Heard(program, forcing, "none")
    BY <1>1, <1>2, <2>2 DEF Heard
  <2> QED  BY <1>1, <2>1, <2>3 DEF Judged, MemoFits
<1>5. CASE reply # "value"
  <2>1. Deliver(reply)
    BY <1>5 DEF Receive
  <2>2. reply \in Answer
    BY <1>1 DEF IInv
  <2>3. Top.at \in DOMAIN said
    BY <1>1, <1>3, LenProperties
  <2>4. said[Top.at] \notin HaveValue(program) => Top.unit \notin HaveValue(program)
    BY <2>3, ValueOnlyFrom DEF From
  <2>5. Fits(program, Top.unit, reply)
    BY <1>3, <1>5, <2>4 DEF Fits
  <2> QED  BY <1>1, <2>1, <2>2, <2>5, DeliverJudged
<1> QED  BY <1>4, <1>5

LEMMA ReturnJudged ==
  ASSUME IInv, Judged, Return
  PROVE  Judged'
<1> DEFINE n == Len(forcing)
           said == program[Top.unit].mentions
           own == program[Top.unit].own
<1>1. /\ forcing # <<>> /\ reply = "none" /\ program' = program
      /\ Top.at = Len(said)
  BY DEF Return, Mentions
<1>2. /\ n \in 1..n /\ Top = forcing[n] /\ Top.unit \in Unit /\ Top.at \in Nat
      /\ said \in Seq(Unit) /\ program \in [Unit -> Bodies]
      /\ const_fuel \in Nat /\ FuelBudget \in Nat
      /\ const_fuel + Top.at = FuelBudget \/ own = "loop"
  BY <1>1, Innermost
<1>3. own \in Own
  BY <1>2, BodyShape
<1>4. CASE Spent = 0
  <2>1. Deliver("fuel")
    BY <1>4 DEF Return
  <2>2. "fuel" \in Answer
    BY DEF Answer, Failed
  <2> QED  BY <1>1, <1>4, <2>1, <2>2, OutOfFuel, DeliverJudged
<1>5. CASE Spent # 0 /\ own = "loop"
  BY <1>5 DEF Return, Judged, MemoFits
<1>6. CASE Spent # 0 /\ own # "loop"
  <2>1. Deliver(Escaped(own))
    BY <1>6 DEF Return
  <2>2. Escaped(own) \in Answer
    BY <1>3, <1>6 DEF Own, Escaped, Answer, Failed
  <2>3. ASSUME own = "value" PROVE Top.unit \in HaveValue(program)
    <3>1. Len(said) + 1 < FuelBudget
      BY <1>1, <1>2, <1>6 DEF Spent
    <3>2. ASSUME NEW j \in DOMAIN said PROVE said[j] \in HaveValue(program)
      <4>1. j \in 1..Top.at
        BY <1>1, <1>2, LenProperties
      <4>2. Heard(program, forcing, "none")
        BY <1>1 DEF Judged
      <4>3. /\ \A i \in 1..(Top.at - 1) : said[i] \in HaveValue(program)
            /\ Top.at > 0 => said[Top.at] \in HaveValue(program)
        BY <1>2, <4>2 DEF Heard
      <4>4. j \in 1..(Top.at - 1) \/ (j = Top.at /\ Top.at > 0)
        BY <1>2, <4>1
      <4> QED  BY <4>3, <4>4
    <3> QED  BY <1>2, <2>3, <3>1, <3>2, ValueFrom DEF From
  <2>4. ASSUME own # "value" PROVE Top.unit \notin HaveValue(program)
    BY <2>4, ValueOnlyFrom DEF From
  <2>5. Fits(program, Top.unit, Escaped(own))
    BY <1>3, <1>6, <2>3, <2>4 DEF Own, Escaped, Fits, Failed
  <2> QED  BY <1>1, <2>1, <2>2, <2>5, DeliverJudged
<1> QED  BY <1>4, <1>5, <1>6

LEMMA HearJudged ==
  ASSUME Judged, Hear
  PROVE  Judged'
<1>1. Len(forcing) = 0 /\ forcing' = forcing /\ forced' = forced /\ program' = program
  BY DEF Hear
<1>2. 1..Len(forcing') = {}
  BY <1>1
<1> QED  BY <1>1, <1>2 DEF Judged, MemoFits, Heard

LEMMA NextJudged ==
  ASSUME IInv, Judged, [Next]_vars
  PROVE  Judged'
<1>1. ASSUME NEW u \in Unit, Query(u) PROVE Judged'
  BY <1>1, QueryJudged
<1>2. CASE Mention
  BY <1>2, MentionJudged
<1>3. CASE Receive
  BY <1>3, ReceiveJudged
<1>4. CASE Return
  BY <1>4, ReturnJudged
<1>5. CASE Hear
  BY <1>5, HearJudged
<1>6. CASE UNCHANGED vars
  BY <1>6 DEF vars, Judged, MemoFits
<1> QED  BY <1>1, <1>2, <1>3, <1>4, <1>5, <1>6 DEF Next, Step

\* The memo is right whoever forced first: whatever is asked for in whatever
\* order, and however deep cycles, loops and exhausted budgets were met on the
\* way, a body memoized as a value has one and a body memoized as a failure
\* has none -- a refusal for depth, which depends on the forcer, excepted.
THEOREM MemoNeverLies == Spec => []MemoIsRight
<1>1. IInv /\ Judged /\ [Next]_vars => Judged'
  BY NextJudged
<1>2. Judged => MemoIsRight
  BY GoodIsValue DEF Judged, MemoFits, Fits, MemoIsRight
<1> QED  BY InitJudged, Inductive, <1>1, <1>2, PTL DEF Spec
=============================================================================
