------------------------------ MODULE Moves_proofs ------------------------------
(***************************************************************************)
(* Proofs about Moves, for every control-flow graph: once the work list is  *)
(* empty the states the blocks were last walked with are closed under the   *)
(* edges, the reporting pass meets those same states, and a body trapped    *)
(* where they are refused misuses no binding on any path.                   *)
(***************************************************************************)
EXTENDS Moves, TLAPS, FiniteSetTheorems, SequenceTheorems, WellFoundedInduction

\* step as a function of the body and of what is tracked, which never change.
TakenOf(tr, reads, l) ==
  \E i \in DOMAIN reads :
    LET read == reads[i]
    IN  /\ read.place.local = l
        /\ read.how \in {"copy", "move"}
        /\ \/ tr[l] = "temporary"
           \/ /\ tr[l] \in Bindings
              /\ read.place.proj = <<>>
              /\ read.how = "move" \/ tr[l] \in {"once", "at_most_once"}

HaltedOf(b, instr, state) ==
  /\ has_trap(b)
  /\ instr.kind \in {"assign", "call"}
  /\ \E r \in ReadsOf(instr) :
       /\ r.how \in {"copy", "move"}
       /\ r.place.proj = <<>>
       /\ "running" \notin state[r.place.local]

StepOf(b, tr, instr, state) ==
  [l \in Local |->
     LET read == IF TakenOf(tr, instr.reads, l) THEN Just("moved") ELSE state[l]
     IN  IF instr.kind = "trap" /\ (IsDef(instr, l) \/ (instr.blamed = l /\ tr[l] \in Bindings))
           THEN HALTED
         ELSE IF IsDef(instr, l)
           THEN IF HaltedOf(b, instr, state) THEN HALTED
                ELSE IF tr[l] = "untracked" THEN read \cup {"running"}
                ELSE VALUE
         ELSE IF instr.kind = "dead" /\ instr.dest.local = l /\ tr[l] # "untracked"
           THEN Just("unassigned")
         ELSE read]

\* What is refused of a point, without the sites a report names.
RefusedUse(tr, l, holds) ==
  tr[l] \in Bindings /\ ("unassigned" \in holds \/ "moved" \in holds)

FoundOf(tr, instr, i, state, l) ==
  IF TakenOf(tr, [j \in 1..(i - 1) |-> instr.reads[j]], l) THEN Just("moved") ELSE state[l]

RefusedOf(b, tr, instr, state) ==
  \/ \E i \in DOMAIN instr.reads :
       RefusedUse(tr, instr.reads[i].place.local,
                  FoundOf(tr, instr, i, state, instr.reads[i].place.local))
  \/ /\ instr.kind = "assign"
     /\ instr.dest.proj # <<>>
     /\ RefusedUse(tr, instr.dest.local,
                   FoundOf(tr, instr, Len(instr.reads) + 1, state, instr.dest.local))
  \/ \E l \in Local :
       /\ tr[l] = "once"
       /\ \/ /\ "value" \in state[l]
             /\ instr.kind = "return" \/ (instr.kind = "dead" /\ instr.dest.local = l)
          \/ /\ IsDef(instr, l)
             /\ instr.kind # "trap"
             /\ instr.user
             /\ ~HaltedOf(b, instr, state)
             /\ "value" \in FoundOf(tr, instr, Len(instr.reads) + 1, state, l)

\* The last walk of k, up to its n-th point: each state is the one before it
\* stepped on, the first the one entering the block.
Walked(k, n) ==
  /\ Len(before[k]) = n
  /\ \A i \in 1..n :
       before[k][i] = IF i = 1 THEN entry[k]
                      ELSE StepOf(body, tracked, body.code[k][i - 1], before[k][i - 1])

\* ... to its end, and on into every successor.
Settled(k) ==
  /\ Walked(k, Len(body.code[k]))
  /\ \A j \in successors(body, k) :
       /\ entry[j] # NoState
       /\ \A l \in Local :
            StepOf(body, tracked, Last(body, k), before[k][Len(body.code[k])])[l] \subseteq entry[j][l]

Walking(k) == cur # Idle /\ cur.block = k

Trapped(k, n) ==
  \A i \in 1..n : RefusedOf(body, tracked, body.code[k][i], before[k][i]) => At(k, i) \in traps

\* A binding holds one of the contents its flags allow, a temporary holds
\* its value only where they allow one.
Within(tr, l, content, holds) ==
  /\ tr[l] \in Bindings => content \in holds
  /\ tr[l] = "temporary" /\ content = "value" => "value" \in holds

\* conc is within what state allows, and no trap was passed.
Allowed(state) ==
  \A l \in Local : "running" \in state[l] /\ Within(tracked, l, conc[l], state[l])

Phases == {"fix", "report", "run", "stopped"}
Walk1 == [block: Block, index: Nat \ {0}, state: State]

TypeInv ==
  /\ body \in Bodies
  /\ tracked = Kinds(body)
  /\ entry \in [Block -> State \cup {NoState}]
  /\ work \subseteq Block
  /\ before \in [Block -> Seq(State)]
  /\ cur = Idle \/ (cur \in Walk1 /\ cur.index \in 1..Len(body.code[cur.block]))
  /\ phase \in Phases
  /\ conc \in [Local -> Content]
  /\ phase \in {"fix", "report"} =>
       conc = [l \in Local |-> IF l \in body.params THEN "value" ELSE "unassigned"]

EntryInv ==
  /\ entry[body.entry] # NoState
  /\ \A l \in Local : entry_state(body, tracked)[l] \subseteq entry[body.entry][l]

FixInv ==
  phase = "fix" =>
    /\ \A k \in Block : entry[k] # NoState /\ k \notin work /\ ~Walking(k) => Settled(k)
    /\ \A k \in work : entry[k] # NoState
    /\ cur # Idle =>
         /\ entry[cur.block] # NoState
         /\ Walked(cur.block, cur.index - 1)
         /\ cur.state = IF cur.index = 1 THEN entry[cur.block]
                        ELSE StepOf(body, tracked, body.code[cur.block][cur.index - 1],
                                  before[cur.block][cur.index - 1])

ReportInv ==
  /\ phase # "fix" => \A k \in Reached : Settled(k)
  /\ phase = "report" =>
       /\ work \subseteq Reached
       /\ cur # Idle => /\ cur.block \in Reached
                        /\ cur.state = before[cur.block][cur.index]
                        /\ Trapped(cur.block, cur.index - 1)
       /\ \A k \in Reached :
            k \notin work /\ ~Walking(k) => Trapped(k, Len(body.code[k]))

RunInv ==
  phase = "run" =>
    /\ \A k \in Reached : Trapped(k, Len(body.code[k]))
    /\ at.block \in Reached
    /\ at = At(at.block, at.index)
    /\ at.index \in 1..Len(body.code[at.block])
    /\ Allowed(before[at.block][at.index])

IInv == TypeInv /\ EntryInv /\ FixInv /\ ReportInv /\ RunInv
-----------------------------------------------------------------------------
(* Bodies.                                                                  *)

LEMMA BodyFacts ==
  ASSUME body \in Bodies
  PROVE  /\ body \in Body
         /\ body.entry \in Block
         /\ body.ret \in Local
         /\ \A k \in Block :
              /\ body.code[k] \in Seq(Instr)
              /\ Len(body.code[k]) \in Nat \ {0}
              /\ DOMAIN body.code[k] = 1..Len(body.code[k])
              /\ \A i \in 1..Len(body.code[k]) :
                   /\ body.code[k][i] \in Instr
                   /\ body.code[k][i].kind \in Terminators <=> i = Len(body.code[k])
<1>1. IsBody(body)
  BY BodiesAssumption
<1>2. body \in Body
  BY <1>1 DEF IsBody
<1>3. body.entry \in Block /\ body.ret \in Local /\ body.code \in [Block -> Seq(Instr)]
  BY <1>2 DEF Body
<1>4. ASSUME NEW k \in Block
      PROVE  /\ body.code[k] \in Seq(Instr)
             /\ Len(body.code[k]) \in Nat \ {0}
             /\ DOMAIN body.code[k] = 1..Len(body.code[k])
             /\ \A i \in 1..Len(body.code[k]) :
                  /\ body.code[k][i] \in Instr
                  /\ body.code[k][i].kind \in Terminators <=> i = Len(body.code[k])
  <2> DEFINE code == body.code[k]
  <2>1. code \in Seq(Instr)
    BY <1>3
  <2>2. code # <<>> /\ \A i \in DOMAIN code : code[i].kind \in Terminators <=> i = Len(code)
    BY <1>1 DEF IsBody
  <2> HIDE DEF code
  <2>3. Len(code) \in Nat \ {0} /\ DOMAIN code = 1..Len(code) /\ \A i \in 1..Len(code) : code[i] \in Instr
    BY <2>1, <2>2
  <2>4. \A i \in 1..Len(code) : code[i].kind \in Terminators <=> i = Len(code)
    BY <2>2, <2>3
  <2> QED  BY <2>1, <2>3, <2>4 DEF code
<1> QED  BY <1>2, <1>3, <1>4

LEMMA SuccsAreBlocks ==
  ASSUME body \in Bodies, NEW k \in Block
  PROVE  successors(body, k) \subseteq Block
<1>1. Last(body, k) \in Instr
  BY BodyFacts DEF Last
<1>2. Last(body, k).succs \in Seq(Block)
  BY <1>1 DEF Instr
<1> QED  BY <1>2 DEF successors, SuccsOf

LEMMA KindsFacts ==
  ASSUME tracked = Kinds(body), NEW l \in Local
  PROVE  /\ IsBinding(l) <=> Named(l)
         /\ tracked[l] = "once" <=> Named(l) /\ ~body.data[l].forget
         /\ Named(l) => \A read : takes(read, l) <=> Given(read, l)
<1>1. tracked[l] = Track(body, l)
  BY DEF Kinds
<1>2. IsBinding(l) <=> Named(l)
  BY <1>1 DEF Track, IsBinding, Bindings, Named
<1>3. tracked[l] = "once" <=> Named(l) /\ ~body.data[l].forget
  BY <1>1 DEF Track, Named
<1>4. ASSUME Named(l), NEW read PROVE takes(read, l) <=> Given(read, l)
  <2>1. tracked[l] \in {"once", "at_most_once"} <=> ~Duplicable(body.data[l])
    BY <1>1, <1>4 DEF Track, Named, Duplicable
  <2>2. tracked[l] # "temporary" /\ body.data[l].binding
    BY <1>1, <1>4 DEF Track, Named
  <2> QED  BY <1>2, <1>4, <2>1, <2>2 DEF takes, Given
<1> QED  BY <1>2, <1>3, <1>4

LEMMA StepType ==
  ASSUME NEW instr, NEW state \in State
  PROVE  step(instr, state) \in State
<1>1. \A l \in Local : state[l] \in Holds
  BY DEF State
<1> QED  BY <1>1, Zenon DEF step, State, Holds, HALTED, VALUE, Just, Flag, Content

LEMMA NoStateIsNone ==
  ASSUME body \in Bodies, NEW f \in State
  PROVE  f # NoState
<1>1. DOMAIN f = Local /\ body.ret \in Local
  BY BodyFacts DEF State
<1>2. DOMAIN <<>> = {}
  OBVIOUS
<1> QED  BY <1>1, <1>2 DEF NoState

LEMMA StepIs ==
  \A instr, state : step(instr, state) = StepOf(body, tracked, instr, state)
BY DEF step, StepOf, TakenBy, TakenOf, takes, IsBinding, ReadsHalted, HaltedOf

LEMMA FoundIs ==
  ASSUME NEW instr, NEW i, NEW state, NEW l
  PROVE  FoundBy(instr, i, state, l) = FoundOf(tracked, instr, i, state, l)
BY DEF FoundBy, FoundOf, takes, IsBinding, TakenOf

\* A refusal is a diagnostic, whatever site it names.
LEMMA RefusedIsReported ==
  ASSUME NEW p, NEW state, RefusedOf(body, tracked, InstrAt(body, p), state)
  PROVE  Reported(p, state) # {}
<1> DEFINE instr == InstrAt(body, p)
<1>1. ASSUME NEW l, NEW holds, NEW taken, RefusedUse(tracked, l, holds)
      PROVE  Used(p, l, holds, taken) # {}
  <2>1. IsBinding(l)
    BY <1>1 DEF RefusedUse, IsBinding
  <2>2. CASE "unassigned" \in holds
    BY <2>1, <2>2 DEF Used
  <2>3. CASE "unassigned" \notin holds
    <3>1. "moved" \in holds
      BY <1>1, <2>3 DEF RefusedUse
    <3>2. \E d : Used(p, l, holds, taken) = {d}
      BY <2>1, <2>3, <3>1, Zenon DEF Used
    <3> QED  BY <3>2
  <2> QED  BY <2>2, <2>3
<1>2. CASE \E i \in DOMAIN instr.reads :
             RefusedUse(tracked, instr.reads[i].place.local,
                        FoundOf(tracked, instr, i, state, instr.reads[i].place.local))
  <2>1. PICK i \in DOMAIN instr.reads :
               RefusedUse(tracked, instr.reads[i].place.local,
                          FoundOf(tracked, instr, i, state, instr.reads[i].place.local))
    BY <1>2
  <2> DEFINE l == instr.reads[i].place.local
             used == Used(p, l, FoundBy(instr, i, state, l), TakenAt(instr, i, l))
  <2>2. used # {}
    BY <1>1, <2>1, FoundIs
  <2>3. used \subseteq ReadDiags(p, instr, state)
    BY DEF ReadDiags
  <2> QED  BY <2>2, <2>3 DEF Reported
<1>3. CASE /\ instr.kind = "assign"
           /\ instr.dest.proj # <<>>
           /\ RefusedUse(tracked, instr.dest.local,
                         FoundOf(tracked, instr, Len(instr.reads) + 1, state, instr.dest.local))
  <2> DEFINE l == instr.dest.local
             n == Len(instr.reads) + 1
             used == Used(p, l, FoundBy(instr, n, state, l), TakenAt(instr, n, l))
  <2>1. used # {}
    BY <1>1, <1>3, FoundIs
  <2>2. WriteDiags(p, instr, state) = used
    BY <1>3, Zenon DEF WriteDiags
  <2> QED  BY <2>1, <2>2 DEF Reported
<1>4. CASE \E l \in Local :
             /\ tracked[l] = "once"
             /\ \/ /\ "value" \in state[l]
                   /\ instr.kind = "return" \/ (instr.kind = "dead" /\ instr.dest.local = l)
                \/ /\ IsDef(instr, l)
                   /\ instr.kind # "trap"
                   /\ instr.user
                   /\ ~HaltedOf(body, instr, state)
                   /\ "value" \in FoundOf(tracked, instr, Len(instr.reads) + 1, state, l)
  <2>1. PICK l \in Local :
             /\ tracked[l] = "once"
             /\ \/ /\ "value" \in state[l]
                   /\ instr.kind = "return" \/ (instr.kind = "dead" /\ instr.dest.local = l)
                \/ /\ IsDef(instr, l)
                   /\ instr.kind # "trap"
                   /\ instr.user
                   /\ ~HaltedOf(body, instr, state)
                   /\ "value" \in FoundOf(tracked, instr, Len(instr.reads) + 1, state, l)
    BY <1>4
  <2>2. CASE /\ "value" \in state[l]
             /\ instr.kind = "return" \/ (instr.kind = "dead" /\ instr.dest.local = l)
    <3>1. Diag("NotConsumed", p, l, find_move(p, l).site, FALSE) \in EndDiags(p, instr, state)
      BY <2>1, <2>2 DEF EndDiags
    <3> QED  BY <3>1 DEF Reported
  <2>3. CASE /\ IsDef(instr, l)
             /\ instr.kind # "trap"
             /\ instr.user
             /\ ~HaltedOf(body, instr, state)
             /\ "value" \in FoundOf(tracked, instr, Len(instr.reads) + 1, state, l)
    <3>1. /\ ~ReadsHalted(instr, state)
          /\ "value" \in FoundBy(instr, Len(instr.reads) + 1, state, l)
      BY <2>3, FoundIs DEF ReadsHalted, HaltedOf
    <3>2. Diag("AssignOverLive", p, l, p, FALSE) \in AssignDiags(p, instr, state)
      BY <2>1, <2>3, <3>1 DEF AssignDiags
    <3> QED  BY <3>2 DEF Reported
  <2> QED  BY <2>1, <2>2, <2>3
<1> QED  BY <1>2, <1>3, <1>4 DEF RefusedOf

\* One step of a body, in the terms of the states that allow it.
LEMMA ReadsAreReads ==
  ASSUME NEW instr \in Instr
  PROVE  /\ \A r \in ReadsOf(instr) : r \in Read
         /\ instr.reads \in Seq(Read)
<1>1. instr.reads \in Seq(Read)
  BY DEF Instr
<1> QED  BY <1>1 DEF ReadsOf

LEMMA NothingHalted ==
  ASSUME NEW instr \in Instr, NEW state, Allowed(state)
  PROVE  ~HaltedOf(body, instr, state)
<1>1. \A r \in ReadsOf(instr) : r.place.local \in Local
  BY ReadsAreReads DEF Read, Place
<1> QED  BY <1>1 DEF HaltedOf, Allowed

LEMMA TakenIsGiven ==
  ASSUME tracked = Kinds(body), NEW l \in Local, tracked[l] \in Bindings, NEW reads
  PROVE  TakenOf(tracked, reads, l) <=> \E i \in DOMAIN reads : Given(reads[i], l)
<1>1. \A read : takes(read, l) <=> Given(read, l)
  BY KindsFacts DEF IsBinding
<1> QED  BY <1>1 DEF TakenOf, takes, IsBinding

\* A temporary's value goes to its first reader.
LEMMA TemporaryGiven ==
  ASSUME tracked = Kinds(body), NEW l \in Local, tracked[l] = "temporary",
         NEW instr, TakenOf(tracked, instr.reads, l)
  PROVE  GivenBy(instr, l)
<1>1. ~body.data[l].binding
  BY DEF Kinds, Track
<1> QED  BY <1>1 DEF TakenOf, GivenBy, Given

\* One step of a body, in the terms of the states that allow it.
LEMMA StepAllowed ==
  ASSUME tracked = Kinds(body), NEW instr \in Instr, NEW state \in State,
         instr.kind # "trap", Allowed(state)
  PROVE  \A l \in Local :
           /\ "running" \in StepOf(body, tracked, instr, state)[l]
           /\ Within(tracked, l, Executed(instr)[l], StepOf(body, tracked, instr, state)[l])
<1> SUFFICES ASSUME NEW l \in Local
             PROVE  /\ "running" \in StepOf(body, tracked, instr, state)[l]
                    /\ Within(tracked, l, Executed(instr)[l], StepOf(body, tracked, instr, state)[l])
  OBVIOUS
<1> DEFINE read == IF TakenOf(tracked, instr.reads, l) THEN Just("moved") ELSE state[l]
<1>1. StepOf(body, tracked, instr, state)[l] =
        IF IsDef(instr, l)
          THEN IF tracked[l] = "untracked" THEN read \cup {"running"} ELSE VALUE
        ELSE IF instr.kind = "dead" /\ instr.dest.local = l /\ tracked[l] # "untracked"
          THEN Just("unassigned")
        ELSE read
  BY NothingHalted DEF StepOf
<1>2. "running" \in read
  BY DEF Allowed, Just
<1>3. Executed(instr)[l] =
        IF IsDef(instr, l) THEN "value"
        ELSE IF instr.kind = "dead" /\ instr.dest.local = l THEN "unassigned"
        ELSE IF GivenBy(instr, l) THEN "moved"
        ELSE conc[l]
  BY DEF Executed
<1>4. ASSUME tracked[l] \in Bindings
      PROVE  Executed(instr)[l] \in StepOf(body, tracked, instr, state)[l]
  <2>1. TakenOf(tracked, instr.reads, l) <=> GivenBy(instr, l)
    BY <1>4, TakenIsGiven DEF GivenBy
  <2>2. tracked[l] # "untracked"
    BY <1>4 DEF Bindings
  <2>3. ~GivenBy(instr, l) => read = state[l] /\ conc[l] \in read
    BY <1>4, <2>1 DEF Allowed, Within
  <2>4. GivenBy(instr, l) => read = Just("moved")
    BY <2>1
  <2> HIDE DEF read
  <2> QED  BY <1>1, <1>3, <2>2, <2>3, <2>4 DEF VALUE, Just
<1>5. ASSUME tracked[l] = "temporary", Executed(instr)[l] = "value"
      PROVE  "value" \in StepOf(body, tracked, instr, state)[l]
  <2>1. TakenOf(tracked, instr.reads, l) => GivenBy(instr, l)
    BY <1>5, TemporaryGiven
  <2>2. ~GivenBy(instr, l) /\ conc[l] = "value" => read = state[l] /\ "value" \in read
    BY <1>5, <2>1 DEF Allowed, Within
  <2> HIDE DEF read
  <2> QED  BY <1>1, <1>3, <1>5, <2>2 DEF VALUE
<1>6. "running" \in StepOf(body, tracked, instr, state)[l]
  <2> HIDE DEF read
  <2> QED  BY <1>1, <1>2 DEF VALUE, Just
<1> QED  BY <1>4, <1>5, <1>6 DEF Within

\* Nothing is misused where nothing is refused.
LEMMA NotRefusedNotMisused ==
  ASSUME tracked = Kinds(body), conc \in [Local -> Content],
         NEW instr \in Instr, NEW state, Allowed(state),
         ~RefusedOf(body, tracked, instr, state)
  PROVE  ReadsWhatIsThere(instr) /\ WritesIntoWhatIsThere(instr) /\ LosesNothing(instr)
<1>1. ASSUME NEW l \in Local, tracked[l] \in Bindings, NEW i
      PROVE  Found(instr, i, l) \in FoundOf(tracked, instr, i, state, l)
  <2> DEFINE first == [j \in 1..(i - 1) |-> instr.reads[j]]
  <2>1. TakenOf(tracked, first, l) <=> \E j \in DOMAIN first : Given(first[j], l)
    BY <1>1, TakenIsGiven
  <2>2. TakenOf(tracked, first, l) <=> \E j \in 1..(i - 1) : Given(instr.reads[j], l)
    BY <2>1, Zenon
  <2>3. CASE TakenOf(tracked, first, l)
    BY <2>2, <2>3 DEF Found, FoundOf, Just
  <2>4. CASE ~TakenOf(tracked, first, l)
    BY <1>1, <2>2, <2>4 DEF Found, FoundOf, Allowed, Within
  <2> QED  BY <2>3, <2>4
<1>2. \A l \in Local : tracked[l] \in Bindings <=> Named(l)
  BY KindsFacts DEF IsBinding
<1>3. ASSUME NEW l \in Local, NEW i PROVE Found(instr, i, l) \in Content
  BY DEF Found, Content
<1>4. ReadsWhatIsThere(instr)
  <2> SUFFICES ASSUME NEW i \in DOMAIN instr.reads, Named(instr.reads[i].place.local)
               PROVE  Found(instr, i, instr.reads[i].place.local) = "value"
    BY DEF ReadsWhatIsThere
  <2> DEFINE l == instr.reads[i].place.local
  <2>1. l \in Local
    <3>1. instr.reads[i] \in Read
      BY ReadsAreReads DEF ReadsOf
    <3> QED  BY <3>1 DEF Read, Place
  <2>2. ~RefusedUse(tracked, l, FoundOf(tracked, instr, i, state, l))
    BY DEF RefusedOf
  <2>3. tracked[l] \in Bindings
    BY <1>2, <2>1
  <2> HIDE DEF l
  <2> QED  BY <1>1, <1>3, <2>1, <2>2, <2>3 DEF RefusedUse, Content, l
<1>5. WritesIntoWhatIsThere(instr)
  <2> SUFFICES ASSUME instr.kind = "assign", instr.dest.proj # <<>>, Named(instr.dest.local)
               PROVE  Found(instr, Len(instr.reads) + 1, instr.dest.local) = "value"
    BY DEF WritesIntoWhatIsThere
  <2> DEFINE l == instr.dest.local
             n == Len(instr.reads) + 1
  <2>1. l \in Local
    BY DEF Instr, Place, Nowhere
  <2>2. ~RefusedUse(tracked, l, FoundOf(tracked, instr, n, state, l))
    BY DEF RefusedOf
  <2>3. tracked[l] \in Bindings
    BY <1>2, <2>1
  <2> HIDE DEF l, n
  <2>4. Found(instr, n, l) = "value"
    BY <1>1, <1>3, <2>1, <2>2, <2>3 DEF RefusedUse, Content
  <2> QED  BY <2>4 DEF l, n
<1>6. LosesNothing(instr)
  <2> SUFFICES ASSUME NEW l \in Local, Named(l), ~body.data[l].forget
               PROVE  /\ (instr.kind = "dead" /\ instr.dest.local = l) => conc[l] # "value"
                      /\ instr.kind = "return" => conc[l] # "value"
                      /\ (instr.kind = "assign" /\ instr.user /\ IsDef(instr, l)) =>
                           Found(instr, Len(instr.reads) + 1, l) # "value"
    BY DEF LosesNothing
  <2>1. tracked[l] = "once" /\ tracked[l] \in Bindings
    BY KindsFacts, <1>2
  <2>2. conc[l] \in state[l]
    BY <2>1 DEF Allowed, Within
  <2>3. ~HaltedOf(body, instr, state)
    BY NothingHalted
  <2>4. Found(instr, Len(instr.reads) + 1, l)
          \in FoundOf(tracked, instr, Len(instr.reads) + 1, state, l)
    BY <1>1, <2>1
  <2> QED  BY <2>1, <2>2, <2>3, <2>4 DEF RefusedOf
<1> QED  BY <1>4, <1>5, <1>6
-----------------------------------------------------------------------------
(* The invariant.                                                           *)

LEMMA EntryStateType ==
  ASSUME body \in Bodies, tracked = Kinds(body)
  PROVE  entry_state(body, tracked) \in State
BY Zenon DEF entry_state, State, Holds, VALUE, Just, Flag, Content

LEMMA InitEstablishes == Init => IInv
<1> SUFFICES ASSUME Init PROVE IInv
  OBVIOUS
<1> USE DEF Init
<1>1. body.entry \in Block /\ body \in Bodies /\ tracked = Kinds(body)
  BY BodyFacts
<1>2. entry[body.entry] = entry_state(body, tracked) /\ entry[body.entry] # NoState
      /\ entry[body.entry] \in State
  BY <1>1, EntryStateType, NoStateIsNone
<1>3. \A k \in Block : k # body.entry => entry[k] = NoState
  BY Zenon
<1>4. TypeInv
  <2>1. entry \in [Block -> State \cup {NoState}]
    BY <1>1, <1>2, <1>3
  <2>2. before \in [Block -> Seq(State)]
    OBVIOUS
  <2>3. conc \in [Local -> Content]
    BY Zenon DEF Content
  <2>4. cur = Idle /\ phase \in Phases /\ work \subseteq Block
    BY <1>1 DEF Phases
  <2> QED  BY <1>1, <2>1, <2>2, <2>3, <2>4 DEF TypeInv
<1>5. EntryInv
  BY <1>2 DEF EntryInv
<1>6. FixInv
  BY <1>2, <1>3 DEF FixInv
<1>7. ReportInv /\ RunInv
  BY DEF ReportInv, RunInv
<1> QED  BY <1>4, <1>5, <1>6, <1>7 DEF IInv

\* What a walk's invariant is worth when nothing it speaks of changes.
LEMMA WalkedStays ==
  ASSUME body' = body, tracked' = tracked, NEW k \in Block, before'[k] = before[k],
         entry'[k] = entry[k], NEW n, Walked(k, n)
  PROVE  Walked(k, n)'
BY DEF Walked

\* Entering states only grow, and a block whose own did not is still settled.
LEMMA SettledStays ==
  ASSUME body' = body, tracked' = tracked, body \in Bodies, NEW k \in Block,
         before'[k] = before[k], entry'[k] = entry[k],
         \A j \in Block : entry[j] # NoState =>
           /\ entry'[j] # NoState
           /\ \A l \in Local : entry[j][l] \subseteq entry'[j][l],
         Settled(k)
  PROVE  Settled(k)'
<1>1. Walked(k, Len(body.code[k]))'
  BY WalkedStays DEF Settled
<1>2. ASSUME NEW j \in successors(body, k)
      PROVE  /\ entry'[j] # NoState
             /\ \A l \in Local :
                  StepOf(body, tracked, Last(body, k), before[k][Len(body.code[k])])[l]
                    \subseteq entry'[j][l]
  <2>1. j \in Block
    BY SuccsAreBlocks
  <2>2. /\ entry[j] # NoState
        /\ \A l \in Local :
             StepOf(body, tracked, Last(body, k), before[k][Len(body.code[k])])[l]
               \subseteq entry[j][l]
    BY DEF Settled
  <2> QED  BY <2>1, <2>2
<1>3. \A j \in successors(body', k) :
        /\ entry'[j] # NoState
        /\ \A l \in Local :
             StepOf(body', tracked', Last(body', k), before'[k][Len(body'.code[k])])[l]
               \subseteq entry'[j][l]
  BY <1>2
<1> QED  BY <1>1, <1>3 DEF Settled

LEMMA PopPreserves ==
  ASSUME IInv, NEW k \in Block, Pop(k)
  PROVE  IInv'
<1> USE DEF Pop
<1>1. TypeInv /\ EntryInv /\ FixInv /\ ReportInv
  BY DEF IInv
<1>2. entry[k] # NoState /\ entry[k] \in State
  BY <1>1 DEF FixInv, TypeInv
<1>3. 1 \in 1..Len(body.code[k])
  BY <1>1, BodyFacts DEF TypeInv
<1>4. cur' \in Walk1 /\ cur'.index = 1 /\ cur'.block = k /\ cur'.state = entry[k] /\ cur' # Idle
  BY <1>2 DEF Walk1, Idle
<1>5. TypeInv'
  <2>1. before' \in [Block -> Seq(State)]
    BY <1>1 DEF TypeInv
  <2> QED  BY <1>1, <1>3, <1>4, <2>1 DEF TypeInv
<1>6. EntryInv'
  BY <1>1 DEF EntryInv
<1>7. FixInv'
  <2>1. ASSUME NEW j \in Block, entry'[j] # NoState, j \notin work', ~Walking(j)'
        PROVE  Settled(j)'
    <3>1. j # k
      BY <2>1, <1>4 DEF Walking
    <3>2. Settled(j) /\ before'[j] = before[j]
      BY <1>1, <2>1, <3>1 DEF FixInv, Walking, TypeInv
    <3> QED  BY <1>1, <3>2, SettledStays DEF TypeInv
  <2>2. Walked(k, 0)'
    BY <1>1 DEF Walked, TypeInv
  <2>3. entry'[cur'.block] # NoState /\ Walked(cur.block, cur.index - 1)'
    BY <1>2, <1>4, <2>2
  <2>4. \A j \in work' : entry'[j] # NoState
    BY <1>1 DEF FixInv
  <2> QED  BY <1>4, <2>1, <2>3, <2>4 DEF FixInv
<1>8. ReportInv' /\ RunInv'
  BY DEF ReportInv, RunInv
<1> QED  BY <1>5, <1>6, <1>7, <1>8 DEF IInv

LEMMA WalkPreserves ==
  ASSUME IInv, Walk
  PROVE  IInv'
<1> USE DEF Walk
<1> DEFINE k == cur.block
           i == cur.index
<1>1. TypeInv /\ EntryInv /\ FixInv
  BY DEF IInv
<1>2. cur \in Walk1 /\ k \in Block /\ i \in 1..Len(body.code[k]) /\ cur.state \in State
      /\ i \in Nat \ {0}
  BY <1>1 DEF TypeInv, Walk1
<1>3. i + 1 \in 1..Len(body.code[k])
  BY <1>1, <1>2, BodyFacts DEF TypeInv
<1> DEFINE next == step(body.code[k][i], cur.state)
<1>4. next \in State /\ next = StepOf(body, tracked, body.code[k][i], cur.state)
  BY <1>2, StepType, StepIs
<1>5. cur' \in Walk1 /\ cur'.block = k /\ cur'.index = i + 1 /\ cur'.state = next /\ cur' # Idle
  <2>1. cur' = [block |-> k, index |-> i + 1, state |-> next]
    BY <1>2, Zenon DEF Walk1
  <2>2. k \in Block /\ i + 1 \in Nat \ {0} /\ next \in State
    BY <1>2, <1>4
  <2> HIDE DEF next, k, i, Walk
  <2> QED  BY <2>1, <2>2 DEF Walk1, Idle
<1>6. before'[k] = Append(before[k], cur.state) /\ before' \in [Block -> Seq(State)]
      /\ \A j \in Block : j # k => before'[j] = before[j]
  BY <1>1, <1>2 DEF TypeInv
<1>7. TypeInv'
  BY <1>1, <1>3, <1>5, <1>6 DEF TypeInv
<1>8. EntryInv'
  BY <1>1 DEF EntryInv
<1>9. ASSUME NEW j \in Block, entry'[j] # NoState, j \notin work', ~Walking(j)'
      PROVE  Settled(j)'
  <2>1. j # k
    BY <1>5, <1>9 DEF Walking
  <2>2. Settled(j)
    BY <1>1, <1>9, <2>1 DEF FixInv, Walking
  <2> QED  BY <1>1, <1>6, <2>1, <2>2, SettledStays DEF TypeInv
<1>10. /\ Len(before[k]) = i - 1
       /\ before[k] \in Seq(State)
       /\ \A j \in 1..(i - 1) :
            before[k][j] = IF j = 1 THEN entry[k]
                           ELSE StepOf(body, tracked, body.code[k][j - 1], before[k][j - 1])
       /\ cur.state = IF i = 1 THEN entry[k]
                      ELSE StepOf(body, tracked, body.code[k][i - 1], before[k][i - 1])
  BY <1>1, <1>2 DEF FixInv, Walked, TypeInv
<1>11. /\ Len(before'[k]) = i
       /\ before'[k][i] = cur.state
       /\ \A j \in 1..(i - 1) : before'[k][j] = before[k][j]
  <2> HIDE DEF k, i
  <2> QED  BY <1>2, <1>6, <1>10
<1>12. \A j \in 1..i :
         before'[k][j] = IF j = 1 THEN entry[k]
                         ELSE StepOf(body, tracked, body.code[k][j - 1], before'[k][j - 1])
  <2> SUFFICES ASSUME NEW j \in 1..i
               PROVE  before'[k][j] = IF j = 1 THEN entry[k]
                         ELSE StepOf(body, tracked, body.code[k][j - 1], before'[k][j - 1])
    OBVIOUS
  <2>1. CASE j = i
    <3>1. j # 1 => j - 1 \in 1..(i - 1)
      BY <1>2, <2>1
    <3> QED  BY <1>10, <1>11, <2>1, <3>1
  <2>2. CASE j # i
    <3>1. j \in 1..(i - 1) /\ (j # 1 => j - 1 \in 1..(i - 1))
      BY <1>2, <2>2
    <3> QED  BY <1>10, <1>11, <3>1
  <2> QED  BY <2>1, <2>2
<1>13. Walked(cur.block, cur.index - 1)'
  <2>1. cur'.index - 1 = i
    BY <1>2, <1>5
  <2>2. body' = body /\ tracked' = tracked /\ entry' = entry
    OBVIOUS
  <2> QED  BY <1>5, <1>11, <1>12, <2>1, <2>2 DEF Walked
<1>14. cur'.state = IF cur'.index = 1 THEN entry'[cur'.block]
                    ELSE StepOf(body', tracked', body'.code[cur'.block][cur'.index - 1],
                                before'[cur'.block][cur'.index - 1])
  BY <1>2, <1>4, <1>5, <1>11
<1>15. FixInv'
  <2>1. entry'[cur'.block] # NoState /\ (\A j \in work' : entry'[j] # NoState)
    BY <1>1, <1>5 DEF FixInv
  <2> QED  BY <1>9, <1>13, <1>14, <2>1 DEF FixInv
<1>16. ReportInv' /\ RunInv'
  BY DEF ReportInv, RunInv
<1> QED  BY <1>7, <1>8, <1>15, <1>16 DEF IInv

LEMMA PropagatePreserves ==
  ASSUME IInv, Propagate, NEW k \in Block, k = cur.block
  PROVE  IInv'
<1> DEFINE n == Len(body.code[k])
           out == step(body.code[k][cur.index], cur.state)
           succs == successors(body, k)
           joined == [j \in Block |-> IF j \in succs THEN join(entry[j], out) ELSE entry[j]]
<1>1. TypeInv /\ EntryInv /\ FixInv
  BY DEF IInv
<1>2. /\ cur \in Walk1 /\ k \in Block /\ cur.index = n /\ cur.state \in State
      /\ n \in Nat \ {0} /\ cur # Idle /\ phase = "fix"
  BY <1>1, BodyFacts DEF Propagate, TypeInv, Walk1
<1>3. /\ entry' = joined
      /\ work' = work \cup Push(succs, joined)
      /\ before' = [before EXCEPT ![k] = Append(@, cur.state)]
      /\ cur' = Idle /\ phase' = "fix" /\ body' = body /\ tracked' = tracked /\ conc' = conc
  BY <1>2 DEF Propagate
<1>4. succs \subseteq Block
  BY <1>1, <1>2, SuccsAreBlocks DEF TypeInv
<1>5. out \in State /\ out = StepOf(body, tracked, Last(body, k), cur.state)
  BY <1>2, StepType, StepIs DEF Last
<1> HIDE DEF out
<1>6. ASSUME NEW old \in State \cup {NoState}
      PROVE  /\ join(old, out) \in State
             /\ join(old, out) # NoState
             /\ \A l \in Local : out[l] \subseteq join(old, out)[l]
             /\ old # NoState => \A l \in Local : old[l] \subseteq join(old, out)[l]
  <2>1. CASE old = NoState
    <3>1. join(old, out) = out
      BY <2>1 DEF join
    <3> QED  BY <1>1, <1>5, <2>1, <3>1, NoStateIsNone DEF TypeInv
  <2>2. CASE old # NoState
    <3>1. join(old, out) = [l \in Local |-> old[l] \cup out[l]]
      BY <2>2 DEF join
    <3>2. \A l \in Local : old[l] \in Holds /\ out[l] \in Holds
      BY <1>5, <2>2 DEF State
    <3>3. \A l \in Local : old[l] \cup out[l] \in Holds
      BY <3>2 DEF Holds
    <3>4. join(old, out) \in State
      BY <3>1, <3>3, Zenon DEF State
    <3> QED  BY <1>1, <3>1, <3>4, NoStateIsNone DEF TypeInv
  <2> QED  BY <2>1, <2>2
<1>7. \A j \in Block :
        /\ entry[j] \in State \cup {NoState}
        /\ entry'[j] = IF j \in succs THEN join(entry[j], out) ELSE entry[j]
  BY <1>1, <1>3 DEF TypeInv
<1>8. \A j \in Block : entry[j] # NoState =>
        /\ entry'[j] # NoState
        /\ \A l \in Local : entry[j][l] \subseteq entry'[j][l]
  BY <1>6, <1>7
<1>9. \A j \in succs : /\ entry'[j] # NoState
                       /\ \A l \in Local : out[l] \subseteq entry'[j][l]
  BY <1>4, <1>6, <1>7
<1>10. \A j \in Block : j \in work' <=> j \in work \/ (j \in succs /\ entry'[j] # entry[j])
  BY <1>3, <1>4 DEF Push
<1>11. before'[k] = Append(before[k], cur.state) /\ before' \in [Block -> Seq(State)]
       /\ \A j \in Block : j # k => before'[j] = before[j]
  BY <1>1, <1>2, <1>3 DEF TypeInv
<1>12. TypeInv'
  <2>1. entry' \in [Block -> State \cup {NoState}]
    BY <1>3, <1>6, <1>7
  <2>2. work' \subseteq Block
    BY <1>1, <1>3, <1>4 DEF TypeInv, Push
  <2> QED  BY <1>1, <1>2, <1>3, <1>11, <2>1, <2>2 DEF TypeInv
<1>13. EntryInv'
  <2>1. body.entry \in Block
    BY <1>1, BodyFacts DEF TypeInv
  <2>2. \A l \in Local : entry_state(body, tracked)[l] \subseteq entry'[body.entry][l]
    BY <1>1, <1>8, <2>1 DEF EntryInv
  <2>3. entry'[body.entry] # NoState
    BY <1>1, <1>8, <2>1 DEF EntryInv
  <2> QED  BY <1>3, <2>2, <2>3 DEF EntryInv
<1>14. ASSUME NEW j \in Block, entry'[j] # NoState, j \notin work', ~Walking(j)', j # k
       PROVE  Settled(j)'
  <2>1. entry'[j] = entry[j] /\ j \notin work
    BY <1>7, <1>10, <1>14
  <2>2. Settled(j)
    BY <1>1, <1>2, <1>14, <2>1 DEF FixInv, Walking
  <2> QED  BY <1>1, <1>3, <1>8, <1>11, <1>14, <2>1, <2>2, SettledStays DEF TypeInv
<1>15. ASSUME entry'[k] # NoState, k \notin work'
       PROVE  Settled(k)'
  <2>1. entry'[k] = entry[k]
    BY <1>2, <1>7, <1>10, <1>15
  <2>2. /\ Len(before[k]) = n - 1
        /\ before[k] \in Seq(State)
        /\ \A j \in 1..(n - 1) :
             before[k][j] = IF j = 1 THEN entry[k]
                            ELSE StepOf(body, tracked, body.code[k][j - 1], before[k][j - 1])
        /\ cur.state = IF n = 1 THEN entry[k]
                       ELSE StepOf(body, tracked, body.code[k][n - 1], before[k][n - 1])
    BY <1>1, <1>2 DEF FixInv, Walked, TypeInv
  <2>3. /\ Len(before'[k]) = n
        /\ before'[k][n] = cur.state
        /\ \A j \in 1..(n - 1) : before'[k][j] = before[k][j]
    <3> HIDE DEF n
    <3> QED  BY <1>2, <1>11, <2>2
  <2>4. \A j \in 1..n :
          before'[k][j] = IF j = 1 THEN entry[k]
                          ELSE StepOf(body, tracked, body.code[k][j - 1], before'[k][j - 1])
    <3> SUFFICES ASSUME NEW j \in 1..n
                 PROVE  before'[k][j] = IF j = 1 THEN entry[k]
                          ELSE StepOf(body, tracked, body.code[k][j - 1], before'[k][j - 1])
      OBVIOUS
    <3>1. CASE j = n
      <4>1. j # 1 => j - 1 \in 1..(n - 1)
        <5> HIDE DEF n
        <5> QED  BY <1>2, <3>1
      <4> QED  BY <2>2, <2>3, <3>1, <4>1
    <3>2. CASE j # n
      <4>1. j \in 1..(n - 1) /\ (j # 1 => j - 1 \in 1..(n - 1))
        BY <1>2, <3>2
      <4> QED  BY <2>2, <2>3, <4>1
    <3> QED  BY <3>1, <3>2
  <2>5. Walked(k, Len(body.code[k]))'
    BY <1>3, <2>1, <2>3, <2>4 DEF Walked
  <2>6. /\ succs = successors(body', k)
        /\ StepOf(body', tracked', Last(body', k), before'[k][Len(body'.code[k])]) = out
    BY <1>3, <1>5, <2>3
  <2>7. \A j \in successors(body', k) :
          /\ entry'[j] # NoState
          /\ \A l \in Local :
               StepOf(body', tracked', Last(body', k), before'[k][Len(body'.code[k])])[l]
                 \subseteq entry'[j][l]
    BY <1>9, <2>6
  <2> QED  BY <2>5, <2>7 DEF Settled
<1>16. FixInv'
  <2>1. \A j \in work' : entry'[j] # NoState
    <3> SUFFICES ASSUME NEW j \in work' PROVE entry'[j] # NoState
      OBVIOUS
    <3>1. CASE j \in work
      BY <1>1, <1>2, <1>8, <3>1 DEF FixInv, TypeInv
    <3>2. CASE j \notin work
      BY <1>9, <1>10, <1>12, <3>2 DEF TypeInv
    <3> QED  BY <3>1, <3>2
  <2>2. \A j \in Block : entry'[j] # NoState /\ j \notin work' /\ ~Walking(j)' => Settled(j)'
    BY <1>14, <1>15
  <2> QED  BY <1>3, <2>1, <2>2 DEF FixInv
<1>17. ReportInv' /\ RunInv'
  BY <1>3 DEF ReportInv, RunInv
<1> QED  BY <1>12, <1>13, <1>16, <1>17 DEF IInv

\* From the fixpoint on nothing the walks left changes.
Analysed == <<body, tracked, entry, before>>

LEMMA AnalysedStays ==
  ASSUME IInv, UNCHANGED Analysed
  PROVE  /\ \A k \in Block : Settled(k) => Settled(k)'
         /\ \A k : Trapped(k, Len(body.code[k])) /\ traps \subseteq traps' =>
                     Trapped(k, Len(body.code[k]))'
         /\ Reached' = Reached
         /\ EntryInv'
<1>1. body' = body /\ tracked' = tracked /\ entry' = entry /\ before' = before
  BY DEF Analysed
<1>2. ASSUME NEW k \in Block, Settled(k) PROVE Settled(k)'
  BY <1>1, <1>2, SettledStays DEF IInv, TypeInv
<1>3. Reached' = Reached
  BY <1>1 DEF Reached
<1>4. EntryInv'
  BY <1>1 DEF IInv, EntryInv
<1>5. ASSUME NEW k, Trapped(k, Len(body.code[k])), traps \subseteq traps'
      PROVE  Trapped(k, Len(body.code[k]))'
  BY <1>1, <1>5 DEF Trapped
<1> QED  BY <1>2, <1>3, <1>4, <1>5

LEMMA BeginReportPreserves ==
  ASSUME IInv, BeginReport
  PROVE  IInv'
<1>1. TypeInv /\ FixInv /\ UNCHANGED Analysed
  BY DEF IInv, BeginReport, Analysed
<1>2. phase = "fix" /\ cur = Idle /\ work = {} /\ phase' = "report" /\ work' = Reached
      /\ cur' = cur /\ conc' = conc
  BY DEF BeginReport
<1>3. TypeInv'
  BY <1>1, <1>2 DEF TypeInv, Phases, Reached, Analysed
<1>4. \A k \in Reached : Settled(k)
  BY <1>1, <1>2 DEF FixInv, Reached, Walking
<1>5. ReportInv'
  <2>1. Reached' = Reached
    BY <1>1, AnalysedStays
  <2>2. Reached \subseteq Block
    BY DEF Reached
  <2>3. \A k \in Reached' : Settled(k)'
    BY <1>1, <1>4, <2>1, <2>2, AnalysedStays
  <2> QED  BY <1>2, <2>1, <2>3 DEF ReportInv
<1>6. FixInv' /\ RunInv'
  BY <1>2 DEF FixInv, RunInv
<1> QED  BY <1>1, <1>3, <1>5, <1>6, AnalysedStays DEF IInv

LEMMA OpenPreserves ==
  ASSUME IInv, NEW k \in Block, Open(k)
  PROVE  IInv'
<1>1. TypeInv /\ ReportInv /\ UNCHANGED Analysed
  BY DEF IInv, Open, Analysed
<1>2. /\ phase = "report" /\ cur = Idle /\ k \in work /\ work' = work \ {k}
      /\ cur' = [block |-> k, index |-> 1, state |-> entry[k]]
      /\ phase' = phase /\ traps' = traps /\ conc' = conc
  BY DEF Open
<1>3. k \in Reached /\ entry[k] \in State /\ 1 \in 1..Len(body.code[k])
  BY <1>1, <1>2, BodyFacts DEF ReportInv, Reached, TypeInv
<1>4. cur' \in Walk1 /\ cur'.index = 1 /\ cur'.block = k /\ cur'.state = entry[k] /\ cur' # Idle
  BY <1>2, <1>3 DEF Walk1, Idle
<1>5. TypeInv'
  BY <1>1, <1>2, <1>3, <1>4 DEF TypeInv, Analysed
<1>6. before[k][1] = entry[k]
  BY <1>1, <1>2, <1>3 DEF ReportInv, Settled, Walked
<1>7. ReportInv'
  <2>1. Reached' = Reached /\ Reached \subseteq Block /\ before' = before
    BY <1>1, AnalysedStays DEF Reached, Analysed
  <2>2. \A j \in Reached' : Settled(j)'
    BY <1>1, <1>2, <2>1, AnalysedStays DEF ReportInv
  <2>3. work' \subseteq Reached'
    BY <1>1, <1>2, <2>1 DEF ReportInv
  <2>4. cur'.block \in Reached' /\ cur'.state = before'[cur'.block][cur'.index]
    BY <1>3, <1>4, <1>6, <2>1
  <2>5. Trapped(cur.block, cur.index - 1)'
    BY <1>4 DEF Trapped
  <2>6. ASSUME NEW j \in Reached', j \notin work', ~Walking(j)'
        PROVE  Trapped(j, Len(body.code[j]))'
    <3>1. j # k
      BY <1>4, <2>6 DEF Walking
    <3>2. Trapped(j, Len(body.code[j]))
      BY <1>1, <1>2, <2>1, <2>6, <3>1 DEF ReportInv, Walking
    <3> QED  BY <1>1, <1>2, <3>2, AnalysedStays
  <2> QED  BY <1>2, <2>2, <2>3, <2>4, <2>5, <2>6 DEF ReportInv
<1>8. FixInv' /\ RunInv'
  BY <1>2 DEF FixInv, RunInv
<1> QED  BY <1>1, <1>5, <1>7, <1>8, AnalysedStays DEF IInv

LEMMA ReportPreserves ==
  ASSUME IInv, Report, NEW k \in Block, NEW i, k = cur.block, i = cur.index
  PROVE  IInv'
<1> DEFINE p == At(k, i)
           found == Reported(p, cur.state)
           next == step(body.code[k][i], cur.state)
<1>1. TypeInv /\ ReportInv /\ UNCHANGED Analysed
  BY DEF IInv, Report, Analysed
<1>2. /\ phase = "report" /\ cur # Idle
      /\ traps' = IF found = {} THEN traps ELSE traps \cup {p}
      /\ cur' = IF i = Len(body.code[k]) THEN Idle
                ELSE [cur EXCEPT !.index = i + 1, !.state = next]
      /\ work' = work /\ phase' = phase /\ conc' = conc
  BY Zenon DEF Report
<1> HIDE DEF found
<1>3. /\ cur \in Walk1 /\ i \in 1..Len(body.code[k]) /\ cur.state \in State
      /\ Len(body.code[k]) \in Nat \ {0}
  BY <1>1, <1>2, BodyFacts DEF TypeInv, Walk1
<1>4. next \in State /\ next = StepOf(body, tracked, body.code[k][i], cur.state)
  BY <1>3, StepType, StepIs
<1> HIDE DEF next
<1>5. k \in Reached /\ Settled(k) /\ cur.state = before[k][i] /\ Trapped(k, i - 1)
  BY <1>1, <1>2 DEF ReportInv
<1>6. RefusedOf(body, tracked, body.code[k][i], before[k][i]) => p \in traps'
  <2> SUFFICES ASSUME RefusedOf(body, tracked, body.code[k][i], before[k][i])
               PROVE  p \in traps'
    OBVIOUS
  <2>1. InstrAt(body, p) = body.code[k][i]
    BY DEF InstrAt, At
  <2>2. found # {}
    BY <1>5, <2>1, RefusedIsReported DEF found
  <2> QED  BY <1>2, <2>2
<1>7. body' = body /\ tracked' = tracked /\ before' = before /\ entry' = entry
  BY <1>1 DEF Analysed
<1>8. traps \subseteq traps'
  BY <1>2
<1>9. \A j \in 1..i : RefusedOf(body, tracked, body.code[k][j], before[k][j]) => At(k, j) \in traps'
  <2> SUFFICES ASSUME NEW j \in 1..i, RefusedOf(body, tracked, body.code[k][j], before[k][j])
               PROVE  At(k, j) \in traps'
    OBVIOUS
  <2>1. CASE j = i
    BY <1>6, <2>1
  <2>2. CASE j # i
    <3>1. j \in 1..(i - 1)
      BY <1>3, <2>2
    <3> QED  BY <1>5, <1>8, <3>1 DEF Trapped
  <2> QED  BY <2>1, <2>2
<1>10. Reached' = Reached /\ Reached \subseteq Block
  BY <1>1, AnalysedStays DEF Reached
<1>11. \A j \in Reached' : Settled(j)'
  BY <1>1, <1>2, <1>10, AnalysedStays DEF ReportInv
<1>12. ASSUME NEW j \in Reached', j \notin work', ~Walking(j)', j # k
       PROVE  Trapped(j, Len(body.code[j]))'
  <2>1. Trapped(j, Len(body.code[j]))
    BY <1>1, <1>2, <1>10, <1>12 DEF ReportInv, Walking
  <2> QED  BY <1>1, <1>8, <2>1, AnalysedStays
<1>13. CASE i = Len(body.code[k])
  <2>1. cur' = Idle
    BY <1>2, <1>13
  <2>2. Trapped(k, Len(body.code[k]))'
    BY <1>7, <1>9, <1>13 DEF Trapped
  <2>3. TypeInv'
    BY <1>1, <1>2, <1>7, <2>1 DEF TypeInv
  <2>4. ReportInv'
    BY <1>1, <1>2, <1>10, <1>11, <1>12, <2>1, <2>2 DEF ReportInv
  <2>5. FixInv' /\ RunInv'
    BY <1>2 DEF FixInv, RunInv
  <2> QED  BY <1>1, <2>3, <2>4, <2>5, AnalysedStays DEF IInv
<1>14. CASE i # Len(body.code[k])
  <2>1. i + 1 \in 1..Len(body.code[k]) /\ i + 1 \in Nat \ {0}
    BY <1>3, <1>14
  <2>2. cur' = [block |-> k, index |-> i + 1, state |-> next]
    BY <1>2, <1>3, <1>14, Zenon DEF Walk1
  <2>3. cur' \in Walk1 /\ cur'.block = k /\ cur'.index = i + 1 /\ cur'.state = next /\ cur' # Idle
    BY <1>4, <2>1, <2>2 DEF Walk1, Idle
  <2>4. TypeInv'
    BY <1>1, <1>2, <1>7, <2>1, <2>3 DEF TypeInv
  <2>5. before[k][i + 1] = next
    <3>1. i + 1 # 1 /\ (i + 1) - 1 = i
      BY <1>3
    <3> QED  BY <1>4, <1>5, <2>1, <3>1 DEF Settled, Walked
  <2>6. Trapped(cur.block, cur.index - 1)'
    <3>1. cur'.index - 1 = i
      BY <1>3, <2>3
    <3> QED  BY <1>7, <1>9, <2>3, <3>1 DEF Trapped
  <2>7. ASSUME NEW j \in Reached', j \notin work', ~Walking(j)'
        PROVE  Trapped(j, Len(body.code[j]))'
    BY <1>12, <2>3, <2>7 DEF Walking
  <2>8. cur'.block \in Reached' /\ cur'.state = before'[cur'.block][cur'.index]
        /\ work' \subseteq Reached'
    BY <1>1, <1>2, <1>5, <1>7, <1>10, <2>3, <2>5 DEF ReportInv
  <2>9. ReportInv'
    BY <1>2, <1>11, <2>6, <2>7, <2>8 DEF ReportInv
  <2>10. FixInv' /\ RunInv'
    BY <1>2 DEF FixInv, RunInv
  <2> QED  BY <1>1, <2>4, <2>9, <2>10, AnalysedStays DEF IInv
<1> QED  BY <1>13, <1>14

LEMMA BeginRunPreserves ==
  ASSUME IInv, BeginRun
  PROVE  IInv'
<1>1. TypeInv /\ EntryInv /\ ReportInv /\ UNCHANGED Analysed
  BY DEF IInv, BeginRun, Analysed
<1>2. /\ phase = "report" /\ cur = Idle /\ work = {} /\ phase' = "run"
      /\ at' = At(body.entry, 1)
      /\ work' = work /\ cur' = cur /\ traps' = traps /\ conc' = conc
  BY DEF BeginRun
<1>3. /\ body.entry \in Block /\ body.entry \in Reached /\ 1 \in 1..Len(body.code[body.entry])
  BY <1>1, BodyFacts DEF TypeInv, EntryInv, Reached
<1>4. before[body.entry][1] = entry[body.entry]
  BY <1>1, <1>2, <1>3 DEF ReportInv, Settled, Walked
<1>5. ASSUME NEW l \in Local
      PROVE  /\ "running" \in entry[body.entry][l]
             /\ Within(tracked, l, conc[l], entry[body.entry][l])
  <2>1. entry_state(body, tracked)[l] \subseteq entry[body.entry][l]
    BY <1>1 DEF EntryInv
  <2>2. conc[l] = IF l \in body.params THEN "value" ELSE "unassigned"
    BY <1>1, <1>2 DEF TypeInv
  <2>3. entry_state(body, tracked)[l] =
          IF l \in body.params THEN VALUE
          ELSE IF tracked[l] \in Bindings THEN Just("unassigned") ELSE {"running"}
    BY DEF entry_state
  <2> QED  BY <2>1, <2>2, <2>3 DEF VALUE, Just, Within
<1>6. TypeInv'
  BY <1>1, <1>2 DEF TypeInv, Phases, Analysed
<1>7. Reached' = Reached /\ Reached \subseteq Block /\ EntryInv'
  BY <1>1, AnalysedStays DEF Reached
<1>8. \A j \in Reached : Trapped(j, Len(body.code[j])) /\ Settled(j)
  BY <1>1, <1>2 DEF ReportInv, Walking
<1>9. \A j \in Reached' : Trapped(j, Len(body.code[j]))' /\ Settled(j)'
  BY <1>1, <1>2, <1>7, <1>8, AnalysedStays
<1>10. RunInv'
  <2>1. at'.block = body.entry /\ at'.index = 1 /\ at' = At(at'.block, at'.index)
    BY <1>2 DEF At
  <2>2. body' = body /\ tracked' = tracked /\ before' = before
    BY <1>1 DEF Analysed
  <2>3. Allowed(before[at.block][at.index])'
    BY <1>2, <1>4, <1>5, <2>1, <2>2 DEF Allowed
  <2> QED  BY <1>2, <1>3, <1>7, <1>9, <2>1, <2>2, <2>3 DEF RunInv
<1>11. FixInv' /\ ReportInv'
  BY <1>2, <1>9 DEF FixInv, ReportInv
<1> QED  BY <1>6, <1>7, <1>10, <1>11 DEF IInv

LEMMA StopPreserves ==
  ASSUME IInv, Stop
  PROVE  IInv'
<1>1. TypeInv /\ ReportInv /\ UNCHANGED Analysed
  BY DEF IInv, Stop, Analysed
<1>2. phase = "run" /\ phase' = "stopped" /\ work' = work /\ cur' = cur /\ conc' = conc
  BY DEF Stop
<1>3. TypeInv'
  BY <1>1, <1>2 DEF TypeInv, Phases, Analysed
<1>4. Reached' = Reached /\ Reached \subseteq Block /\ EntryInv'
  BY <1>1, AnalysedStays DEF Reached
<1>5. ReportInv'
  BY <1>1, <1>2, <1>4, AnalysedStays DEF ReportInv
<1>6. FixInv' /\ RunInv'
  BY <1>2 DEF FixInv, RunInv
<1> QED  BY <1>3, <1>4, <1>5, <1>6 DEF IInv

\* A step of the running body goes to a point whose state allows what it
\* leaves: the next of its block, or the first of a successor.
LEMMA ExecutePreserves ==
  ASSUME IInv, Execute, NEW k \in Block, NEW i, k = at.block, i = at.index
  PROVE  IInv'
<1> DEFINE instr == body.code[k][i]
           state == before[k][i]
           next == StepOf(body, tracked, instr, state)
<1>1. TypeInv /\ ReportInv /\ RunInv /\ UNCHANGED Analysed
  BY DEF IInv, Execute, Analysed
<1>2. /\ phase = "run" /\ phase' = phase
      /\ at \notin traps /\ traps' = traps /\ work' = work /\ cur' = cur
      /\ conc' = Executed(InstrAt(body, at))
  BY DEF Execute
<1>3. /\ k \in Reached /\ Settled(k) /\ i \in 1..Len(body.code[k]) /\ at = At(k, i)
      /\ Allowed(state)
      /\ \A j \in Reached : Settled(j) /\ Trapped(j, Len(body.code[j]))
  BY <1>1, <1>2 DEF RunInv, ReportInv
<1>4. InstrAt(body, at) = instr /\ instr \in Instr
  BY <1>1, <1>3, BodyFacts DEF InstrAt, TypeInv
<1>5. \/ instr.kind \in Statements /\ at' = At(k, i + 1)
      \/ instr.kind \notin Statements /\ instr.kind # "trap"
         /\ \E j \in SuccsOf(instr) : at' = At(j, 1)
  BY <1>4 DEF Execute
<1>6. Walked(k, Len(body.code[k])) /\ Len(body.code[k]) \in Nat \ {0} /\ state \in State
  <2>1. before[k] \in Seq(State) /\ Len(before[k]) = Len(body.code[k])
    BY <1>1, <1>3 DEF TypeInv, Settled, Walked
  <2>2. state \in State
    BY <1>3, <2>1
  <2> QED  BY <1>1, <1>3, <2>2, BodyFacts DEF TypeInv, Settled
<1>7. instr.kind # "trap"
  BY <1>5 DEF Statements
<1>8. \A l \in Local :
        /\ "running" \in next[l]
        /\ Within(tracked, l, conc'[l], next[l])
  BY <1>1, <1>2, <1>3, <1>4, <1>6, <1>7, StepAllowed DEF TypeInv
<1>9. body' = body /\ tracked' = tracked /\ before' = before /\ entry' = entry
  BY <1>1 DEF Analysed
<1>10. conc' \in [Local -> Content]
  <2>1. \A l \in Local : conc[l] \in Content
    BY <1>1 DEF TypeInv
  <2>2. \A l \in Local : Executed(instr)[l] \in Content
    BY <2>1 DEF Executed, Content
  <2>3. Executed(instr) = [l \in Local |-> Executed(instr)[l]]
    BY DEF Executed
  <2> QED  BY <1>2, <1>4, <2>2, <2>3
<1>11. TypeInv'
  BY <1>1, <1>2, <1>9, <1>10 DEF TypeInv
<1>12. Reached' = Reached /\ Reached \subseteq Block /\ EntryInv'
  BY <1>1, AnalysedStays DEF Reached
<1>13. \A j \in Reached' : Settled(j)' /\ Trapped(j, Len(body.code[j]))'
  BY <1>1, <1>2, <1>3, <1>12, AnalysedStays
<1>14. /\ at' = At(at'.block, at'.index)
       /\ at'.block \in Reached
       /\ at'.index \in 1..Len(body.code[at'.block])
       /\ \A l \in Local :
            /\ "running" \in before[at'.block][at'.index][l]
            /\ Within(tracked, l, conc'[l], before[at'.block][at'.index][l])
  <2>1. CASE instr.kind \in Statements /\ at' = At(k, i + 1)
    <3>1. i # Len(body.code[k])
      BY <1>1, <1>3, <2>1, BodyFacts DEF TypeInv, Statements, Terminators
    <3>2. i + 1 \in 1..Len(body.code[k]) /\ i + 1 # 1 /\ (i + 1) - 1 = i
      BY <1>3, <1>6, <3>1
    <3>3. before[k][i + 1] = next
      BY <1>6, <3>2 DEF Walked
    <3>4. at'.block = k /\ at'.index = i + 1
      BY <2>1 DEF At
    <3> HIDE DEF next
    <3> QED  BY <1>3, <1>8, <2>1, <3>2, <3>3, <3>4
  <2>2. CASE instr.kind \notin Statements /\ \E j \in SuccsOf(instr) : at' = At(j, 1)
    <3>1. PICK j \in SuccsOf(instr) : at' = At(j, 1)
      BY <2>2
    <3>2. instr.kind \in Terminators
      BY <1>4, <2>2 DEF Instr
    <3>3. i = Len(body.code[k])
      BY <1>1, <1>3, <3>2, BodyFacts DEF TypeInv
    <3>4. instr = Last(body, k) /\ j \in successors(body, k)
      BY <3>1, <3>3 DEF Last, successors
    <3>5. entry[j] # NoState /\ \A l \in Local : next[l] \subseteq entry[j][l]
      BY <1>3, <3>3, <3>4 DEF Settled
    <3>6. j \in Reached
      BY <1>1, <3>4, <3>5, SuccsAreBlocks DEF TypeInv, Reached
    <3>7. 1 \in 1..Len(body.code[j]) /\ before[j][1] = entry[j]
      <4>1. Walked(j, Len(body.code[j])) /\ j \in Block
        BY <1>3, <3>6 DEF Settled, Reached
      <4>2. 1 \in 1..Len(body.code[j])
        BY <1>1, <4>1, BodyFacts DEF TypeInv
      <4> QED  BY <4>1, <4>2 DEF Walked
    <3>8. at'.block = j /\ at'.index = 1
      BY <3>1 DEF At
    <3> HIDE DEF next
    <3> QED  BY <1>8, <3>1, <3>5, <3>6, <3>7, <3>8 DEF Within
  <2> QED  BY <1>5, <2>1, <2>2
<1>15. RunInv'
  <2>1. Allowed(before[at.block][at.index])'
    BY <1>9, <1>14 DEF Allowed
  <2> QED  BY <1>2, <1>9, <1>12, <1>13, <1>14, <2>1 DEF RunInv
<1>16. FixInv' /\ ReportInv'
  BY <1>2, <1>13 DEF FixInv, ReportInv
<1> QED  BY <1>11, <1>12, <1>15, <1>16 DEF IInv

LEMMA StutterPreserves ==
  ASSUME IInv, UNCHANGED vars
  PROVE  IInv'
<1>1. UNCHANGED Analysed /\ traps' = traps /\ work' = work /\ cur' = cur /\ phase' = phase
      /\ conc' = conc /\ at' = at /\ body' = body /\ tracked' = tracked /\ entry' = entry
      /\ before' = before
  BY DEF vars, Analysed
<1>2. TypeInv' /\ EntryInv'
  BY <1>1 DEF IInv, TypeInv, EntryInv
<1>3. FixInv'
  <2>1. ASSUME NEW k \in Block, entry[k] # NoState, k \notin work, ~Walking(k), phase = "fix"
        PROVE  Settled(k)'
    BY <1>1, <2>1, AnalysedStays DEF IInv, FixInv
  <2>2. (cur # Idle /\ phase = "fix") => Walked(cur.block, cur.index - 1)'
    BY <1>1 DEF IInv, FixInv, Walked
  <2> QED  BY <1>1, <2>1, <2>2 DEF IInv, FixInv, Walking
<1>4. Reached' = Reached /\ Reached \subseteq Block
  BY <1>1, AnalysedStays DEF Reached
<1>5. \A k : Trapped(k, Len(body.code[k])) => Trapped(k, Len(body.code[k]))'
  BY <1>1, AnalysedStays
<1>6. ReportInv'
  <2>1. phase' # "fix" => \A k \in Reached' : Settled(k)'
    BY <1>1, <1>4, AnalysedStays DEF IInv, ReportInv
  <2>2. (phase = "report" /\ cur # Idle) => Trapped(cur.block, cur.index - 1)'
    BY <1>1 DEF IInv, ReportInv, Trapped
  <2> QED  BY <1>1, <1>4, <1>5, <2>1, <2>2 DEF IInv, ReportInv, Walking
<1>7. RunInv'
  BY <1>1, <1>4, <1>5 DEF IInv, RunInv, Allowed
<1> QED  BY <1>2, <1>3, <1>6, <1>7 DEF IInv

LEMMA NextPreserves == IInv /\ [Next]_vars => IInv'
<1> SUFFICES ASSUME IInv, [Next]_vars PROVE IInv'
  OBVIOUS
<1>1. CASE \E k \in Block : Pop(k) \/ Open(k)
  BY <1>1, PopPreserves, OpenPreserves
<1>2. CASE Walk
  BY <1>2, WalkPreserves
<1>3. CASE Propagate
  <2>1. cur.block \in Block
    BY <1>3 DEF IInv, TypeInv, Walk1, Propagate
  <2>2. PICK k \in Block : k = cur.block
    BY <2>1
  <2> QED  BY <1>3, <2>2, PropagatePreserves
<1>4. CASE BeginReport
  BY <1>4, BeginReportPreserves
<1>5. CASE Report
  <2>1. cur.block \in Block
    BY <1>5 DEF IInv, TypeInv, Walk1, Report
  <2>2. PICK k \in Block : k = cur.block
    BY <2>1
  <2>3. PICK i : i = cur.index
    OBVIOUS
  <2> QED  BY <1>5, <2>2, <2>3, ReportPreserves
<1>6. CASE BeginRun
  BY <1>6, BeginRunPreserves
<1>7. CASE Stop
  BY <1>7, StopPreserves
<1>8. CASE Execute
  <2>1. at.block \in Block
    BY <1>8 DEF IInv, RunInv, Execute, Reached
  <2>2. PICK k \in Block : k = at.block
    BY <2>1
  <2>3. PICK i : i = at.index
    OBVIOUS
  <2> QED  BY <1>8, <2>2, <2>3, ExecutePreserves
<1>9. CASE UNCHANGED vars
  BY <1>9, StutterPreserves
<1> QED  BY <1>1, <1>2, <1>3, <1>4, <1>5, <1>6, <1>7, <1>8, <1>9 DEF Next

LEMMA InvNoMisuse == IInv => NoMisuse
<1> SUFFICES ASSUME IInv, phase = "run", at \notin traps
             PROVE  LET instr == InstrAt(body, at)
                    IN  ReadsWhatIsThere(instr) /\ WritesIntoWhatIsThere(instr)
                        /\ LosesNothing(instr)
  BY DEF NoMisuse
<1>0. at.block \in Block
  BY DEF IInv, RunInv, Reached
<1>1. PICK k \in Block : \E i : k = at.block /\ i = at.index
  BY <1>0
<1>a. PICK i : k = at.block /\ i = at.index
  BY <1>1
<1>2. /\ i \in 1..Len(body.code[k]) /\ at = At(k, i)
      /\ Allowed(before[k][i]) /\ Trapped(k, Len(body.code[k]))
  BY <1>a DEF IInv, RunInv
<1>3. InstrAt(body, at) = body.code[k][i] /\ body.code[k][i] \in Instr
  BY <1>a, <1>2, BodyFacts DEF InstrAt, IInv, TypeInv
<1>4. ~RefusedOf(body, tracked, body.code[k][i], before[k][i])
  BY <1>2 DEF Trapped
<1> QED  BY <1>2, <1>3, <1>4, NotRefusedNotMisused DEF IInv, TypeInv
-----------------------------------------------------------------------------
(* What the paths say.  The check of it runs the blocks and lets a set grow; *)
(* the proofs use the least set closed under "a block reached is run and     *)
(* leaves what it leaves to its successors", which is the same set.          *)

NatLess == {ss \in Nat \X Nat : ss[1] < ss[2]}

\* A set of numbers has a least one.
LEMMA Least ==
  ASSUME NEW T \in SUBSET Nat, T # {}
  PROVE  \E x \in T : \A y \in T : x <= y
<1>1. IsWellFoundedOn(NatLess, Nat)
  BY NatLessThanWellFounded DEF OpToRel, NatLess
<1>2. PICK x \in T : \A y \in T : ~ (<<y, x>> \in NatLess)
  BY <1>1, WFMin
<1>3. \A y \in T : ~(y < x)
  BY <1>2 DEF NatLess
<1>4. \A y \in T : x <= y
  BY <1>3
<1> QED  BY <1>4

\* Induction up to k, of membership of a set.
LEMMA UpTo ==
  ASSUME NEW k \in Nat, NEW S, 0 \in S,
         \A n \in 0..k : n \in S /\ n < k => n + 1 \in S
  PROVE  \A n \in 0..k : n \in S
<1> DEFINE T == {n \in 0..k : n \notin S}
<1>1. SUFFICES ASSUME T # {} PROVE FALSE
  OBVIOUS
<1>2. T \in SUBSET Nat
  OBVIOUS
<1>3. PICK x \in T : \A y \in T : x <= y
  BY <1>1, <1>2, Least
<1>4. x \in 0..k /\ x \notin S /\ x # 0
  BY <1>3
<1>5. x - 1 \in 0..k /\ ~(x <= x - 1) /\ x - 1 < k /\ (x - 1) + 1 = x
  BY <1>4
<1>6. x - 1 \notin T
  BY <1>3, <1>5
<1> QED  BY <1>4, <1>5, <1>6

\* What a point of b leaves in l where it finds c.
GivenIn(b, instr, l) ==
  \E i \in DOMAIN instr.reads :
    LET read == instr.reads[i]
    IN  /\ read.place.local = l
        /\ read.how \in {"copy", "move"}
        /\ \/ ~b.data[l].binding
           \/ /\ read.place.proj = <<>>
              /\ read.how = "move" \/ ~Duplicable(b.data[l])

Leaves(b, instr, l, c) ==
  IF IsDef(instr, l) THEN "value"
  ELSE IF instr.kind = "dead" /\ instr.dest.local = l THEN "unassigned"
  ELSE IF GivenIn(b, instr, l) THEN "moved"
  ELSE c

\* What the first points of a block leave, each after the one before it.
After(b, k, l, c) ==
  CHOOSE f : f = [i \in Nat |-> IF i = 0 THEN c ELSE Leaves(b, b.code[k][i], l, f[i - 1])]

LEMMA AfterIs ==
  ASSUME NEW b, NEW k, NEW l, NEW c
  PROVE  /\ After(b, k, l, c)[0] = c
         /\ \A i \in Nat : After(b, k, l, c)[i + 1]
                             = Leaves(b, b.code[k][i + 1], l, After(b, k, l, c)[i])
<1> DEFINE code == b.code[k]
           Writes(i) == \/ IsDef(code[i], l)
                        \/ code[i].kind = "dead" /\ code[i].dest.local = l
                        \/ GivenIn(b, code[i], l)
           Writers(i) == {j \in 1..i : Writes(j)}
           last(T) == CHOOSE j \in T : \A m \in T : m <= j
           g == [i \in Nat |-> IF Writers(i) = {} THEN c ELSE Leaves(b, code[last(Writers(i))], l, c)]
<1>1. \A i \in Nat : g[i] = IF i = 0 THEN c ELSE Leaves(b, code[i], l, g[i - 1])
  <2> SUFFICES ASSUME NEW i \in Nat
               PROVE  g[i] = IF i = 0 THEN c ELSE Leaves(b, code[i], l, g[i - 1])
    OBVIOUS
  <2>1. CASE i = 0
    <3>1. Writers(i) = {}
      BY <2>1
    <3> HIDE DEF Writers
    <3> QED  BY <2>1, <3>1
  <2>2. CASE i # 0 /\ Writes(i)
    <3>1. i \in Writers(i) /\ \A m \in Writers(i) : m \in Nat /\ m <= i
      BY <2>2
    <3> HIDE DEF Writers
    <3>2. last(Writers(i)) = i
      <4>1. \A j \in Writers(i) : (\A m \in Writers(i) : m <= j) => j = i
        BY <3>1
      <4> QED  BY <3>1, <4>1
    <3> HIDE DEF last
    <3>3. g[i] = Leaves(b, code[i], l, c)
      BY <3>1, <3>2
    <3> HIDE DEF g, code
    <3> QED  BY <2>2, <3>3 DEF Leaves
  <2>3. CASE i # 0 /\ ~Writes(i)
    <3>1. i - 1 \in Nat
      BY <2>3
    <3>2. \A j : j \in 1..i /\ j # i <=> j \in 1..(i - 1)
      BY <2>3
    <3>3. Writers(i) = Writers(i - 1)
      <4> HIDE DEF code
      <4> QED  BY <2>3, <3>2
    <3> HIDE DEF Writers, last
    <3>4. g[i] = g[i - 1]
      BY <3>1, <3>3
    <3> HIDE DEF g, code
    <3> QED  BY <2>3, <3>4 DEF Leaves
  <2> QED  BY <2>1, <2>2, <2>3
<1>2. g = [i \in Nat |-> g[i]]
  OBVIOUS
<1> HIDE DEF g
<1>3. g = [i \in Nat |-> IF i = 0 THEN c ELSE Leaves(b, code[i], l, g[i - 1])]
  BY <1>1, <1>2
<1>4. \E f : f = [i \in Nat |-> IF i = 0 THEN c ELSE Leaves(b, b.code[k][i], l, f[i - 1])]
  BY <1>3
<1> DEFINE a == After(b, k, l, c)
<1>5. a = [i \in Nat |-> IF i = 0 THEN c ELSE Leaves(b, b.code[k][i], l, a[i - 1])]
  BY <1>4 DEF After
<1> HIDE DEF a
<1>6. a[0] = c
  BY <1>5
<1>7. ASSUME NEW i \in Nat PROVE a[i + 1] = Leaves(b, b.code[k][i + 1], l, a[i])
  <2>1. i + 1 \in Nat /\ i + 1 # 0 /\ (i + 1) - 1 = i
    OBVIOUS
  <2>2. a[i + 1] = Leaves(b, b.code[k][i + 1], l, a[(i + 1) - 1])
    BY <1>5, <2>1
  <2> QED  BY <2>1, <2>2
<1> QED  BY <1>6, <1>7 DEF a

LEMMA RunBlockIs ==
  ASSUME NEW k, NEW l, NEW c
  PROVE  RunBlock(k, l, c) = After(body, k, l, c)[Len(body.code[k])]
BY DEF RunBlock, After, Leaves, GivenBy, Given, GivenIn

LEMMA ContentsRun ==
  ASSUME NEW b, NEW k, NEW l, NEW c \in Content, NEW n \in Nat
  PROVE  After(b, k, l, c)[n] \in Content
<1> DEFINE S == {i \in 0..n : After(b, k, l, c)[i] \in Content}
<1>1. 0 \in S
  BY AfterIs
<1>2. ASSUME NEW i \in 0..n, i \in S, i < n PROVE i + 1 \in S
  <2>1. After(b, k, l, c)[i + 1] = Leaves(b, b.code[k][i + 1], l, After(b, k, l, c)[i])
    BY AfterIs
  <2>2. After(b, k, l, c)[i + 1] \in Content
    BY <1>2, <2>1 DEF Leaves, Content
  <2> QED  BY <1>2, <2>2
<1> HIDE DEF S
<1>3. n \in S
  BY <1>1, <1>2, UpTo
<1> QED  BY <1>3 DEF S

\* The blocks some path reaches, each with a content it may find in l there.
Pairs == Block \X Content
Started(b, l) == {<<b.entry, IF l \in b.params THEN "value" ELSE "unassigned">>}

\* b.code[k] run to its end from c.
Left(b, k, l, c) == After(b, k, l, c)[Len(b.code[k])]

\* One block further along every path.
Onward(b, l, s) ==
  s \cup UNION {{<<k, Left(b, n[1], l, n[2])>> : k \in successors(b, n[1])} : n \in s}

\* The least set with s in it that goes no further.
Grown(b, l, s) ==
  {n \in Pairs : \A t \in SUBSET Pairs : (s \subseteq t /\ Onward(b, l, t) \subseteq t) => n \in t}

OnAPath(b, l) == Grown(b, l, Started(b, l))

LEMMA OnwardStays ==
  ASSUME body \in Bodies, NEW l, NEW s \in SUBSET Pairs
  PROVE  Onward(body, l, s) \in SUBSET Pairs
<1> SUFFICES ASSUME NEW n \in s, NEW k \in successors(body, n[1])
             PROVE  <<k, Left(body, n[1], l, n[2])>> \in Pairs
  BY DEF Onward
<1>1. n[1] \in Block /\ n[2] \in Content
  BY DEF Pairs
<1>2. k \in Block
  BY <1>1, SuccsAreBlocks
<1>3. Left(body, n[1], l, n[2]) \in Content
  BY <1>1, BodyFacts, ContentsRun DEF Left
<1> QED  BY <1>2, <1>3 DEF Pairs

\* What s grows to has s in it, goes no further, and is what any set
\* between s and it grows to.
LEMMA GrownIs ==
  ASSUME body \in Bodies, NEW l, NEW s \in SUBSET Pairs
  PROVE  /\ s \subseteq Grown(body, l, s)
         /\ Onward(body, l, Grown(body, l, s)) \subseteq Grown(body, l, s)
         /\ Grown(body, l, Onward(body, l, s)) = Grown(body, l, s)
         /\ Onward(body, l, s) = s => Grown(body, l, s) = s
<1> DEFINE G == Grown(body, l, s)
<1>1. s \subseteq G
  BY DEF Grown
<1>2. ASSUME NEW t \in SUBSET Pairs, NEW u \in SUBSET t
      PROVE  Onward(body, l, u) \subseteq Onward(body, l, t)
  BY DEF Onward
<1>3. Onward(body, l, G) \subseteq G
  <2>1. G \in SUBSET Pairs
    BY DEF Grown
  <2>2. Onward(body, l, G) \subseteq Pairs
    BY <2>1, OnwardStays
  <2>3. ASSUME NEW t \in SUBSET Pairs, s \subseteq t, Onward(body, l, t) \subseteq t
        PROVE  Onward(body, l, G) \subseteq t
    <3>1. G \subseteq t
      BY <2>3 DEF Grown
    <3> HIDE DEF G
    <3>2. Onward(body, l, G) \subseteq Onward(body, l, t)
      BY <1>2, <3>1
    <3> QED  BY <2>3, <3>2
  <2> QED  BY <2>2, <2>3 DEF Grown
<1>4. \A t \in SUBSET Pairs : Onward(body, l, t) \subseteq t =>
        (s \subseteq t <=> Onward(body, l, s) \subseteq t)
  <2> SUFFICES ASSUME NEW t \in SUBSET Pairs, Onward(body, l, t) \subseteq t
               PROVE  s \subseteq t <=> Onward(body, l, s) \subseteq t
    OBVIOUS
  <2>1. s \subseteq t => Onward(body, l, s) \subseteq Onward(body, l, t)
    BY <1>2
  <2>2. s \subseteq Onward(body, l, s)
    BY DEF Onward
  <2> QED  BY <2>1, <2>2
<1>5. Grown(body, l, Onward(body, l, s)) = G
  BY <1>4 DEF Grown
<1>6. Onward(body, l, s) = s => G = s
  <2> SUFFICES ASSUME Onward(body, l, s) = s PROVE G \subseteq s
    BY <1>1
  <2> QED  BY DEF Grown
<1> QED  BY <1>1, <1>3, <1>5, <1>6

\* Letting the set grow until it no longer does ends there.
LEMMA OnPathsIs ==
  ASSUME body \in Bodies, NEW l
  PROVE  OnPaths(l) = OnAPath(body, l)
<1> DEFINE D == SUBSET Pairs
           next(s) == s \cup UNION {{<<k, RunBlock(n[1], l, n[2])>> :
                                        k \in successors(body, n[1])} : n \in s}
           Rule(f) == [s \in D |-> IF next(s) = s THEN s ELSE f[next(s)]]
           least == [s \in D |-> Grown(body, l, s)]
<1>n. \A s : next(s) = Onward(body, l, s)
  <2>1. \A n : RunBlock(n[1], l, n[2]) = Left(body, n[1], l, n[2])
    BY RunBlockIs DEF Left
  <2> QED  BY <2>1 DEF Onward
<1>1. \A s \in D : Onward(body, l, s) \in D /\ s \subseteq Onward(body, l, s)
  BY OnwardStays DEF Onward
<1> HIDE DEF next
<1>2. least = Rule(least)
  <2>1. ASSUME NEW s \in D
        PROVE  Grown(body, l, s) = IF next(s) = s THEN s ELSE least[next(s)]
    BY <1>1, <1>n, GrownIs
  <2> QED  BY <2>1
<1> DEFINE grow == CHOOSE f : f = Rule(f)
<1>3. grow = Rule(grow)
  <2> HIDE DEF Rule, least
  <2> QED  BY <1>2
<1> HIDE DEF grow
<1>4. ASSUME NEW s \in D PROVE grow[s] = Grown(body, l, s)
  <2> DEFINE size(t) == Cardinality(Pairs) - Cardinality(t)
             Bad == {t \in D : grow[t] # Grown(body, l, t)}
             Sizes == {size(t) : t \in Bad}
  <2>1. SUFFICES ASSUME Bad # {} PROVE FALSE
    OBVIOUS
  <2>2. IsFiniteSet(Pairs)
    <3>1. IsFiniteSet(Content)
      <4>1. Content = ({"unassigned"} \cup {"value"}) \cup {"moved"}
        BY DEF Content
      <4>2. IsFiniteSet({"unassigned"} \cup {"value"})
        BY FS_Singleton, FS_AddElement
      <4> QED  BY <4>1, <4>2, FS_AddElement
    <3> QED  BY <3>1, BlockAssumption, FS_Product DEF Pairs
  <2>3. \A t \in D : IsFiniteSet(t) /\ size(t) \in Nat
    <3> SUFFICES ASSUME NEW t \in D PROVE IsFiniteSet(t) /\ size(t) \in Nat
      OBVIOUS
    <3>1. IsFiniteSet(t) /\ Cardinality(t) <= Cardinality(Pairs)
      BY <2>2, FS_Subset
    <3>2. Cardinality(t) \in Nat /\ Cardinality(Pairs) \in Nat
      BY <2>2, <3>1, FS_CardinalityType
    <3> QED  BY <3>1, <3>2
  <2>s. Sizes \in SUBSET Nat /\ Sizes # {}
    BY <2>1, <2>3
  <2>4. PICK m \in Sizes : \A n \in Sizes : m <= n
    <3> HIDE DEF Sizes
    <3> QED  BY <2>s, Least
  <2>5. PICK t \in Bad : m = size(t)
    BY <2>4
  <2>6. t \in D /\ grow[t] # Grown(body, l, t)
    BY <2>5
  <2> DEFINE u == Onward(body, l, t)
  <2>7. u \in D /\ t \subseteq u
    BY <1>1, <2>6
  <2>8. u # t
    <3>1. u = t => grow[t] = t /\ Grown(body, l, t) = t
      BY <1>3, <1>n, <2>6, GrownIs
    <3> QED  BY <2>6, <3>1
  <2>9. grow[t] = grow[u] /\ Grown(body, l, t) = Grown(body, l, u)
    BY <1>3, <1>n, <2>6, <2>8, GrownIs
  <2> HIDE DEF u
  <2>10. u \in Bad
    BY <2>6, <2>7, <2>9
  <2>11. Cardinality(t) < Cardinality(u)
    <3>1. Cardinality(t) \in Nat /\ Cardinality(u) \in Nat
      BY <2>3, <2>6, <2>7, FS_CardinalityType
    <3>2. Cardinality(t) <= Cardinality(u) /\ Cardinality(t) # Cardinality(u)
      BY <2>3, <2>7, <2>8, FS_Subset
    <3> QED  BY <3>1, <3>2
  <2>12. size(u) < size(t)
    <3>1. Cardinality(t) \in Nat /\ Cardinality(u) \in Nat /\ Cardinality(Pairs) \in Nat
      BY <2>2, <2>3, <2>6, <2>7, FS_CardinalityType
    <3> QED  BY <2>11, <3>1
  <2>13. m <= size(u)
    BY <2>4, <2>10
  <2> QED  BY <2>3, <2>5, <2>6, <2>7, <2>12, <2>13
<1>5. Started(body, l) \in D
  BY BodyFacts DEF Started, Pairs, Content
<1>6. OnPaths(l) = grow[Started(body, l)]
  BY DEF OnPaths, grow, next, Started, Pairs
<1> QED  BY <1>4, <1>5, <1>6 DEF OnAPath

\* What holds of the flags of l after i points of k: each content among them
\* is one some path has there, and there is one.
Shown(b, l, k, i, holds) ==
  /\ \E c \in Content : c \in holds
  /\ \A c \in Content : c \in holds =>
       \E first \in Content : <<k, first>> \in OnAPath(b, l) /\ c = After(b, k, l, first)[i]

\* Every state kept is shown by the paths.  (A trap of lowering's cuts paths
\* the flags follow.)
PathInv ==
  ~has_trap(body) =>
    \A l \in Local : Named(l) =>
      /\ \A k \in Block : entry[k] # NoState => Shown(body, l, k, 0, entry[k][l])
      /\ phase = "fix" /\ cur # Idle =>
           Shown(body, l, cur.block, cur.index - 1, cur.state[l])

\* What a step does to the flags of a binding, in a body without traps:
\* one content whatever was there, or nothing.
StepsAsPaths(instr, l, old, new) ==
  \/ \E d \in Content : new = Just(d) /\ \A c : Leaves(body, instr, l, c) = d
  \/ new = old /\ \A c : Leaves(body, instr, l, c) = c

LEMMA StepOfBinding ==
  ASSUME body \in Bodies, tracked = Kinds(body), ~has_trap(body),
         NEW l \in Local, Named(l), NEW instr, instr.kind # "trap", NEW state
  PROVE  StepsAsPaths(instr, l, state[l], StepOf(body, tracked, instr, state)[l])
<1>1. tracked[l] \in Bindings
  BY KindsFacts DEF IsBinding
<1>2. tracked[l] # "untracked"
  BY <1>1 DEF Bindings
<1>3. TakenOf(tracked, instr.reads, l) <=> GivenIn(body, instr, l)
  BY <1>1, TakenIsGiven DEF GivenIn, Given
<1>4. ~HaltedOf(body, instr, state)
  BY DEF HaltedOf
<1>5. StepOf(body, tracked, instr, state)[l] =
        IF IsDef(instr, l) THEN VALUE
        ELSE IF instr.kind = "dead" /\ instr.dest.local = l THEN Just("unassigned")
        ELSE IF GivenIn(body, instr, l) THEN Just("moved") ELSE state[l]
  BY <1>2, <1>3, <1>4 DEF StepOf
<1>6. VALUE = Just("value")
  BY DEF VALUE, Just
<1>7. "value" \in Content /\ "unassigned" \in Content /\ "moved" \in Content
  BY DEF Content
<1>8. CASE IsDef(instr, l)
  BY <1>5, <1>6, <1>7, <1>8 DEF Leaves, StepsAsPaths
<1>9. CASE ~IsDef(instr, l) /\ instr.kind = "dead" /\ instr.dest.local = l
  BY <1>5, <1>7, <1>9 DEF Leaves, StepsAsPaths
<1>10. CASE ~IsDef(instr, l) /\ ~(instr.kind = "dead" /\ instr.dest.local = l)
  <2>1. CASE GivenIn(body, instr, l)
    BY <1>5, <1>7, <1>10, <2>1 DEF Leaves, StepsAsPaths
  <2>2. CASE ~GivenIn(body, instr, l)
    BY <1>5, <1>10, <2>2 DEF Leaves, StepsAsPaths
  <2> QED  BY <2>1, <2>2
<1> QED  BY <1>8, <1>9, <1>10

LEMMA NoTraps ==
  ASSUME body \in Bodies, ~has_trap(body), NEW k \in Block, NEW i \in 1..Len(body.code[k])
  PROVE  body.code[k][i].kind # "trap"
<1>1. CASE i = Len(body.code[k])
  BY <1>1 DEF has_trap, Last
<1>2. CASE i # Len(body.code[k])
  BY <1>2, BodyFacts DEF Terminators
<1> QED  BY <1>1, <1>2

\* One point further along what is shown.
LEMMA ShownStep ==
  ASSUME body \in Bodies, tracked = Kinds(body), ~has_trap(body),
         NEW l \in Local, Named(l), NEW k \in Block, NEW i \in 1..Len(body.code[k]),
         NEW state, Shown(body, l, k, i - 1, state[l])
  PROVE  Shown(body, l, k, i, StepOf(body, tracked, body.code[k][i], state)[l])
<1> DEFINE instr == body.code[k][i]
           out == StepOf(body, tracked, instr, state)[l]
<1>1. i \in Nat /\ i - 1 \in Nat /\ (i - 1) + 1 = i
  BY BodyFacts
<1>2. \A first : After(body, k, l, first)[i] = Leaves(body, instr, l, After(body, k, l, first)[i - 1])
  <2> SUFFICES ASSUME NEW first
               PROVE  After(body, k, l, first)[i] = Leaves(body, instr, l, After(body, k, l, first)[i - 1])
    OBVIOUS
  <2>1. After(body, k, l, first)[(i - 1) + 1]
          = Leaves(body, body.code[k][(i - 1) + 1], l, After(body, k, l, first)[i - 1])
    BY <1>1, AfterIs
  <2> QED  BY <1>1, <2>1
<1>3. instr.kind # "trap"
  BY NoTraps
<1>4. StepsAsPaths(instr, l, state[l], out)
  BY <1>3, StepOfBinding
<1>5. PICK first0 \in Content : <<k, first0>> \in OnAPath(body, l)
  BY DEF Shown
<1> HIDE DEF instr, out
<1>6. CASE \E d \in Content : out = Just(d) /\ \A c : Leaves(body, instr, l, c) = d
  <2>1. PICK d \in Content : out = Just(d) /\ \A c : Leaves(body, instr, l, c) = d
    BY <1>6
  <2>2. d \in out /\ \A c \in Content : c \in out => c = d
    BY <2>1 DEF Just, Content
  <2>3. After(body, k, l, first0)[i] = d
    BY <1>2, <2>1
  <2>4. Shown(body, l, k, i, out)
    BY <1>5, <2>2, <2>3 DEF Shown
  <2> QED  BY <2>4 DEF out, instr
<1>7. CASE out = state[l] /\ \A c : Leaves(body, instr, l, c) = c
  <2>1. \A first : After(body, k, l, first)[i] = After(body, k, l, first)[i - 1]
    BY <1>2, <1>7
  <2>2. Shown(body, l, k, i, out)
    BY <1>7, <2>1 DEF Shown
  <2> QED  BY <2>2 DEF out, instr
<1> QED  BY <1>4, <1>6, <1>7 DEF StepsAsPaths

\* Past the end of a block, what is shown is shown of its successors.
LEMMA ShownOnward ==
  ASSUME body \in Bodies, NEW l \in Local, NEW k \in Block, NEW j \in successors(body, k),
         NEW holds, Shown(body, l, k, Len(body.code[k]), holds)
  PROVE  Shown(body, l, j, 0, holds)
<1>1. Started(body, l) \in SUBSET Pairs
  BY BodyFacts DEF Started, Pairs, Content
<1>2. Onward(body, l, OnAPath(body, l)) \subseteq OnAPath(body, l)
  BY <1>1, GrownIs DEF OnAPath
<1>3. ASSUME NEW first, <<k, first>> \in OnAPath(body, l)
      PROVE  <<j, Left(body, k, l, first)>> \in OnAPath(body, l)
  <2>1. <<k, first>>[1] = k /\ <<k, first>>[2] = first
    OBVIOUS
  <2>2. <<j, Left(body, <<k, first>>[1], l, <<k, first>>[2])>> \in Onward(body, l, OnAPath(body, l))
    BY <1>3, <2>1 DEF Onward
  <2> QED  BY <1>2, <2>1, <2>2
<1>4. \A c : After(body, j, l, c)[0] = c
  BY AfterIs
<1> QED  BY <1>3, <1>4 DEF Shown, Left

LEMMA ShownJoined ==
  ASSUME NEW b, NEW l, NEW k, NEW i, NEW holds, NEW more,
         Shown(b, l, k, i, holds), Shown(b, l, k, i, more)
  PROVE  Shown(b, l, k, i, holds \cup more)
BY DEF Shown

LEMMA InitPaths == Init => PathInv
<1> SUFFICES ASSUME Init, ~has_trap(body), NEW l \in Local, Named(l)
             PROVE  /\ \A k \in Block : entry[k] # NoState => Shown(body, l, k, 0, entry[k][l])
                    /\ ~(phase = "fix" /\ cur # Idle)
  BY DEF PathInv
<1>1. body \in Bodies /\ tracked = Kinds(body) /\ cur = Idle
  BY DEF Init
<1> DEFINE first == IF l \in body.params THEN "value" ELSE "unassigned"
<1>2. entry_state(body, tracked)[l] = Just(first)
  <2>1. tracked[l] \in Bindings
    BY <1>1, KindsFacts DEF IsBinding
  <2> QED  BY <2>1 DEF entry_state, VALUE, Just
<1>3. Started(body, l) \in SUBSET Pairs
  BY <1>1, BodyFacts DEF Started, Pairs, Content
<1>4. <<body.entry, first>> \in OnAPath(body, l)
  <2>1. <<body.entry, first>> \in Started(body, l)
    BY DEF Started
  <2> QED  BY <1>1, <1>3, <2>1, GrownIs DEF OnAPath
<1>5. first \in Content /\ \A c \in Content : c \in Just(first) => c = first
  BY DEF Content, Just
<1> HIDE DEF first
<1>6. Shown(body, l, body.entry, 0, Just(first))
  <2>1. After(body, body.entry, l, first)[0] = first
    BY AfterIs
  <2>2. first \in Just(first)
    BY DEF Just
  <2> QED  BY <1>4, <1>5, <2>1, <2>2 DEF Shown
<1>7. ASSUME NEW k \in Block, entry[k] # NoState
      PROVE  k = body.entry /\ entry[k] = entry_state(body, tracked)
  BY <1>7 DEF Init
<1> QED  BY <1>1, <1>2, <1>6, <1>7

\* The steps that touch neither the states entering the blocks nor a walk.
LEMMA PathsStay ==
  ASSUME PathInv, body' = body, entry' = entry,
         (phase' = "fix" /\ cur' # Idle) => (phase = "fix" /\ cur' = cur)
  PROVE  PathInv'
<1>1. \A l : Named(l)' <=> Named(l)
  BY DEF Named
<1> QED  BY <1>1 DEF PathInv

LEMMA PopPaths ==
  ASSUME IInv, PathInv, NEW k \in Block, Pop(k)
  PROVE  PathInv'
<1>1. body' = body /\ entry' = entry /\ cur'.block = k /\ cur'.index = 1 /\ cur'.state = entry[k]
      /\ entry[k] # NoState
  BY DEF Pop, IInv, FixInv
<1>2. \A l : Named(l)' <=> Named(l)
  BY <1>1 DEF Named
<1>3. cur'.index - 1 = 0
  BY <1>1
<1> QED  BY <1>1, <1>2, <1>3 DEF PathInv

LEMMA WalkPaths ==
  ASSUME IInv, PathInv, Walk
  PROVE  PathInv'
<1> DEFINE k == cur.block
           i == cur.index
           out == StepOf(body, tracked, body.code[k][i], cur.state)
<1>1. /\ body' = body /\ entry' = entry /\ phase = "fix" /\ cur # Idle
      /\ cur \in Walk1 /\ i \in 1..Len(body.code[k])
      /\ cur' = [cur EXCEPT !.index = @ + 1, !.state = step(body.code[cur.block][cur.index], @)]
      /\ body \in Bodies /\ tracked = Kinds(body)
  BY DEF Walk, IInv, TypeInv
<1>2. k \in Block /\ i \in Nat
  BY <1>1 DEF Walk1
<1>3. cur'.block = k /\ cur'.index = i + 1 /\ cur'.state = out
  BY <1>1, StepIs DEF Walk1
<1>4. \A l : Named(l)' <=> Named(l)
  BY <1>1 DEF Named
<1>5. cur'.index - 1 = i
  BY <1>2, <1>3
<1> HIDE DEF k, i, out
<1>6. ASSUME ~has_trap(body), NEW l \in Local, Named(l)
      PROVE  Shown(body, l, k, i, out[l])
  <2>1. Shown(body, l, k, i - 1, cur.state[l])
    BY <1>1, <1>6 DEF PathInv, k, i
  <2> QED  BY <1>1, <1>2, <1>6, <2>1, ShownStep DEF out
<1> QED  BY <1>1, <1>3, <1>4, <1>5, <1>6 DEF PathInv

LEMMA PropagatePaths ==
  ASSUME IInv, PathInv, Propagate
  PROVE  PathInv'
<1> DEFINE k == cur.block
           n == Len(body.code[k])
           out == StepOf(body, tracked, body.code[k][n], cur.state)
<1>1. /\ body' = body /\ phase = "fix" /\ cur # Idle /\ cur' = Idle
      /\ cur \in Walk1 /\ cur.index = n /\ n \in 1..Len(body.code[k])
      /\ body \in Bodies /\ tracked = Kinds(body)
  BY DEF Propagate, IInv, TypeInv
<1>2. k \in Block
  BY <1>1 DEF Walk1
<1>3. ASSUME NEW j \in Block
      PROVE  entry'[j] = IF j \in successors(body, k) THEN join(entry[j], out) ELSE entry[j]
  <2>1. out = step(body.code[cur.block][cur.index], cur.state)
    BY <1>1, StepIs
  <2> HIDE DEF out
  <2> QED  BY <1>3, <2>1 DEF Propagate
<1>4. \A l : Named(l)' <=> Named(l)
  BY <1>1 DEF Named
<1> HIDE DEF k, n, out
<1>5. ASSUME ~has_trap(body), NEW l \in Local, Named(l), NEW j \in Block, entry'[j] # NoState
      PROVE  Shown(body, l, j, 0, entry'[j][l])
  <2>1. Shown(body, l, k, n, out[l])
    <3>1. Shown(body, l, k, n - 1, cur.state[l])
      BY <1>1, <1>5 DEF PathInv, k
    <3>2. n \in 1..Len(body.code[k])
      BY <1>1
    <3> QED  BY <1>1, <1>2, <1>5, <3>1, <3>2, ShownStep DEF out
  <2>2. entry[j] # NoState => Shown(body, l, j, 0, entry[j][l])
    BY <1>5 DEF PathInv
  <2>3. CASE j \in successors(body, k)
    <3>1. Shown(body, l, j, 0, out[l])
      BY <1>1, <1>2, <2>1, <2>3, ShownOnward DEF n
    <3>2. CASE entry[j] = NoState
      BY <1>3, <2>3, <3>1, <3>2 DEF join
    <3>3. CASE entry[j] # NoState
      <4>1. entry'[j][l] = entry[j][l] \cup out[l]
        BY <1>3, <2>3, <3>3 DEF join
      <4> QED  BY <2>2, <3>1, <3>3, <4>1, ShownJoined
    <3> QED  BY <3>2, <3>3
  <2>4. CASE j \notin successors(body, k)
    BY <1>3, <1>5, <2>2, <2>4
  <2> QED  BY <2>3, <2>4
<1> QED  BY <1>1, <1>4, <1>5 DEF PathInv

LEMMA NextPaths == IInv /\ PathInv /\ [Next]_vars => PathInv'
<1> SUFFICES ASSUME IInv, PathInv, [Next]_vars PROVE PathInv'
  OBVIOUS
<1>1. CASE \E k \in Block : Pop(k)
  BY <1>1, PopPaths
<1>2. CASE Walk
  BY <1>2, WalkPaths
<1>3. CASE Propagate
  BY <1>3, PropagatePaths
<1>4. CASE \E k \in Block : Open(k)
  <2>1. body' = body /\ entry' = entry /\ phase' = "report"
    BY <1>4 DEF Open
  <2> QED  BY <2>1, PathsStay
<1>5. CASE BeginReport
  <2>1. body' = body /\ entry' = entry /\ phase' = "report"
    BY <1>5 DEF BeginReport
  <2> QED  BY <2>1, PathsStay
<1>6. CASE Report
  <2>1. body' = body /\ entry' = entry /\ phase' = "report"
    BY <1>6 DEF Report
  <2> QED  BY <2>1, PathsStay
<1>7. CASE BeginRun
  <2>1. body' = body /\ entry' = entry /\ phase' = "run"
    BY <1>7 DEF BeginRun
  <2> QED  BY <2>1, PathsStay
<1>8. CASE Stop
  <2>1. body' = body /\ entry' = entry /\ phase' = "stopped"
    BY <1>8 DEF Stop
  <2> QED  BY <2>1, PathsStay
<1>9. CASE Execute
  <2>1. body' = body /\ entry' = entry /\ phase' = "run"
    BY <1>9 DEF Execute
  <2> QED  BY <2>1, PathsStay
<1>10. CASE UNCHANGED vars
  <2>1. body' = body /\ entry' = entry /\ phase' = phase /\ cur' = cur
    BY <1>10 DEF vars
  <2> QED  BY <2>1, PathsStay
<1> QED  BY <1>1, <1>2, <1>3, <1>4, <1>5, <1>6, <1>7, <1>8, <1>9, <1>10 DEF Next

\* The other half: what a path leaves at a block is among its flags, once
\* the blocks are settled.
LEMMA PathsAreFlagged ==
  ASSUME IInv, phase # "fix", ~has_trap(body), NEW l \in Local, Named(l), NEW n \in OnAPath(body, l)
  PROVE  entry[n[1]] # NoState /\ n[2] \in entry[n[1]][l]
<1> DEFINE S == {m \in Pairs : entry[m[1]] # NoState /\ m[2] \in entry[m[1]][l]}
<1>1. TypeInv /\ EntryInv /\ body \in Bodies /\ tracked = Kinds(body)
  BY DEF IInv, TypeInv
<1>2. \A k \in Block : entry[k] # NoState => Settled(k)
  BY DEF IInv, ReportInv, Reached
<1>3. tracked[l] \in Bindings
  BY <1>1, KindsFacts DEF IsBinding
<1>4. Started(body, l) \subseteq S
  <2> DEFINE first == IF l \in body.params THEN "value" ELSE "unassigned"
  <2>1. first \in entry_state(body, tracked)[l]
    BY <1>3 DEF entry_state, VALUE, Just
  <2>2. first \in entry[body.entry][l] /\ entry[body.entry] # NoState
    BY <1>1, <2>1 DEF EntryInv
  <2>3. <<body.entry, first>> \in Pairs
    BY <1>1, BodyFacts DEF Pairs, Content
  <2> QED  BY <2>2, <2>3 DEF Started
<1>5. ASSUME NEW m \in S, NEW j \in successors(body, m[1])
      PROVE  <<j, Left(body, m[1], l, m[2])>> \in S
  <2> DEFINE k == m[1]
             c == m[2]
             size == Len(body.code[k])
             state(i) == before[k][i]
             out == StepOf(body, tracked, body.code[k][size], state(size))
             T == {i \in 0..size : After(body, k, l, c)[i] \in
                     IF i = size THEN out[l] ELSE state(i + 1)[l]}
  <2>1. k \in Block /\ c \in Content /\ entry[k] # NoState /\ c \in entry[k][l]
    BY DEF Pairs
  <2>2. Settled(k)
    BY <1>2, <2>1
  <2>3. size \in Nat \ {0}
    BY <1>1, <2>1, BodyFacts
  <2>4. \A i \in 1..size : state(i) = IF i = 1 THEN entry[k]
                             ELSE StepOf(body, tracked, body.code[k][i - 1], state(i - 1))
    BY <2>2 DEF Settled, Walked
  <2>5. \A i \in Nat : After(body, k, l, c)[i + 1]
                        = Leaves(body, body.code[k][i + 1], l, After(body, k, l, c)[i])
    BY AfterIs
  <2> HIDE DEF state, size, k, c
  <2>6. ASSUME NEW i \in 1..size, NEW d \in state(i)[l]
        PROVE  Leaves(body, body.code[k][i], l, d)
                 \in StepOf(body, tracked, body.code[k][i], state(i))[l]
    <3>1. body.code[k][i].kind # "trap"
      BY <1>1, <2>1, NoTraps DEF size
    <3>2. StepsAsPaths(body.code[k][i], l, state(i)[l],
                       StepOf(body, tracked, body.code[k][i], state(i))[l])
      BY <1>1, <3>1, StepOfBinding
    <3> QED  BY <2>6, <3>2 DEF StepsAsPaths, Just
  <2> HIDE DEF out
  <2>7. 0 \in T
    <3>1. After(body, k, l, c)[0] = c
      BY AfterIs
    <3>2. state(0 + 1) = entry[k] /\ 0 # size /\ 0 \in 0..size
      BY <2>3, <2>4
    <3> QED  BY <2>1, <3>1, <3>2
  <2>8. ASSUME NEW i \in 0..size, i \in T, i < size
        PROVE  i + 1 \in T
    <3>1. /\ i + 1 \in 1..size /\ i + 1 \in 0..size /\ i \in Nat
          /\ i # size /\ (i + 1) - 1 = i
      BY <2>3, <2>8
    <3>2. After(body, k, l, c)[i] \in state(i + 1)[l]
      BY <2>8, <3>1
    <3>3. After(body, k, l, c)[i + 1]
            \in StepOf(body, tracked, body.code[k][i + 1], state(i + 1))[l]
      BY <2>5, <2>6, <3>1, <3>2
    <3>4. CASE i + 1 = size
      BY <3>1, <3>3, <3>4 DEF out
    <3>5. CASE i + 1 # size
      <4>1. (i + 1) + 1 \in 1..size /\ (i + 1) + 1 # 1 /\ ((i + 1) + 1) - 1 = i + 1
        BY <2>3, <3>1, <3>5
      <4>2. state((i + 1) + 1) = StepOf(body, tracked, body.code[k][i + 1], state(i + 1))
        BY <2>4, <4>1
      <4> QED  BY <3>1, <3>3, <3>5, <4>2
    <3> QED  BY <3>4, <3>5
  <2>9. size \in T
    <3> HIDE DEF T
    <3>1. size \in Nat /\ size \in 0..size
      BY <2>3
    <3>2. \A i \in 0..size : i \in T /\ i < size => i + 1 \in T
      BY <2>8
    <3> QED  BY <2>7, <3>1, <3>2, UpTo
  <2>10. After(body, k, l, c)[size] \in out[l]
    BY <2>9
  <2>11. entry[j] # NoState /\ out[l] \subseteq entry[j][l]
    BY <2>2 DEF Settled, out, size, state, Last, k
  <2>12. j \in Block
    BY <1>1, <2>1, SuccsAreBlocks DEF k
  <2>13. Left(body, k, l, c) = After(body, k, l, c)[size] /\ Left(body, k, l, c) \in Content
    BY <2>1, <2>3, ContentsRun DEF Left, size
  <2>14. <<j, Left(body, k, l, c)>> \in S
    BY <2>10, <2>11, <2>12, <2>13 DEF Pairs
  <2> QED  BY <2>14 DEF k, c
<1>6. Onward(body, l, S) \subseteq S
  <2> HIDE DEF S
  <2> QED  BY <1>5 DEF Onward
<1>7. OnAPath(body, l) \subseteq S
  <2>1. S \in SUBSET Pairs
    OBVIOUS
  <2> HIDE DEF S
  <2> QED  BY <1>4, <1>6, <2>1 DEF OnAPath, Grown
<1> QED  BY <1>7

LEMMA InvFlags == IInv /\ PathInv => FlagsAreThePaths
<1> SUFFICES ASSUME IInv, PathInv, phase = "report", ~has_trap(body),
                    NEW l \in Local, Named(l), NEW k \in Block
             PROVE  {c \in Content : <<k, c>> \in OnPaths(l)}
                      = IF entry[k] = NoState THEN {} ELSE entry[k][l] \ {"running"}
  BY DEF FlagsAreThePaths
<1>1. body \in Bodies /\ OnPaths(l) = OnAPath(body, l)
  BY OnPathsIs DEF IInv, TypeInv
<1>2. \A c : <<k, c>> \in OnAPath(body, l) => entry[k] # NoState /\ c \in entry[k][l]
  <2> SUFFICES ASSUME NEW c, <<k, c>> \in OnAPath(body, l)
               PROVE  entry[k] # NoState /\ c \in entry[k][l]
    OBVIOUS
  <2>1. <<k, c>>[1] = k /\ <<k, c>>[2] = c
    OBVIOUS
  <2>2. entry[<<k, c>>[1]] # NoState /\ <<k, c>>[2] \in entry[<<k, c>>[1]][l]
    BY PathsAreFlagged
  <2> QED  BY <2>1, <2>2
<1>3. CASE entry[k] = NoState
  BY <1>1, <1>2, <1>3
<1>4. CASE entry[k] # NoState
  <2>1. \A c \in Content : c \in entry[k][l] => <<k, c>> \in OnAPath(body, l)
    <3>1. Shown(body, l, k, 0, entry[k][l])
      BY <1>4 DEF PathInv
    <3>2. \A first : After(body, k, l, first)[0] = first
      BY AfterIs
    <3> QED  BY <3>1, <3>2 DEF Shown
  <2>2. entry[k][l] \subseteq Flag
    BY <1>4 DEF IInv, TypeInv, State, Holds
  <2>3. entry[k][l] \ {"running"} = {c \in Content : c \in entry[k][l]}
    BY <2>2 DEF Flag, Content
  <2>4. {c \in Content : <<k, c>> \in OnPaths(l)} = {c \in Content : c \in entry[k][l]}
    BY <1>1, <1>2, <2>1
  <2> QED  BY <1>4, <2>3, <2>4
<1> QED  BY <1>3, <1>4
-----------------------------------------------------------------------------
(* Functions that go from state to state until they stop, which is how the  *)
(* walks of the checker are written, and the order of a set of blocks.      *)

\* f goes from state to state of D by nxt until it stops, and is what res
\* says of the state it stops in.
TailOf(D, stop, nxt, res, f) == f = [s \in D |-> IF s \in stop THEN res[s] ELSE f[nxt[s]]]

\* Inv holds of the next state, and each step makes big less, or leaves it
\* and makes small less.
Sinks(Inv, stop, nxt, big, small) ==
  /\ \A s \in Inv : big[s] \in Nat /\ small[s] \in Nat
  /\ \A s \in Inv : s \notin stop =>
       /\ nxt[s] \in Inv
       /\ \/ big[nxt[s]] < big[s]
          \/ big[nxt[s]] = big[s] /\ small[nxt[s]] < small[s]

\* There is such a function, whatever nxt is: where the steps never stop any
\* value will do.
LEMMA TailRecursion ==
  ASSUME NEW D, NEW stop, stop \subseteq D, NEW nxt, nxt \in [D -> D], NEW res
  PROVE  \E f : TailOf(D, stop, nxt, res, f)
<1> DEFINE Onto(C) == \A u \in C : u \notin stop => nxt[u] \in C
           Ends(s) == {t \in stop : \A C \in SUBSET D : s \in C /\ Onto(C) => t \in C}
           g == [s \in D |-> res[CHOOSE t : t \in Ends(s)]]
<1>1. ASSUME NEW s \in D, s \in stop PROVE g[s] = res[s]
  <2>1. Onto({s}) /\ {s} \in SUBSET D
    BY <1>1
  <2>2. Ends(s) = {s}
    <3>1. s \in Ends(s)
      BY <1>1
    <3>2. \A t \in Ends(s) : t \in {s}
      BY <2>1
    <3> HIDE DEF Ends
    <3> QED  BY <3>1, <3>2
  <2>3. (CHOOSE t : t \in Ends(s)) = s
    <3> HIDE DEF Ends
    <3> QED  BY <2>2
  <2> HIDE DEF Ends
  <2> QED  BY <2>3
<1>2. ASSUME NEW s \in D, s \notin stop PROVE g[s] = g[nxt[s]]
  <2>1. nxt[s] \in D
    OBVIOUS
  <2>2. ASSUME NEW t \in Ends(nxt[s]) PROVE t \in Ends(s)
    <3>1. ASSUME NEW C \in SUBSET D, s \in C, Onto(C) PROVE t \in C
      <4>1. nxt[s] \in C
        BY <1>2, <3>1
      <4> QED  BY <2>2, <3>1, <4>1
    <3> QED  BY <2>2, <3>1
  <2>3. ASSUME NEW t \in Ends(s) PROVE t \in Ends(nxt[s])
    <3>1. ASSUME NEW C \in SUBSET D, nxt[s] \in C, Onto(C) PROVE t \in C
      <4>1. Onto(C \cup {s}) /\ C \cup {s} \in SUBSET D /\ s \in C \cup {s}
        BY <3>1
      <4>2. t \in C \cup {s}
        BY <2>3, <4>1
      <4>3. t # s
        BY <1>2, <2>3
      <4> QED  BY <4>2, <4>3
    <3> QED  BY <2>3, <3>1
  <2>4. Ends(s) = Ends(nxt[s])
    <3> HIDE DEF Ends
    <3> QED  BY <2>2, <2>3
  <2> HIDE DEF Ends
  <2> QED  BY <2>1, <2>4
<1>3. g = [s \in D |-> g[s]]
  OBVIOUS
<1> HIDE DEF g
<1>4. g = [s \in D |-> IF s \in stop THEN res[s] ELSE g[nxt[s]]]
  BY <1>1, <1>2, <1>3
<1> QED  BY <1>4 DEF TailOf

\* ... and where the steps sink, it is res of a state the invariant holds of
\* and the steps stop in.
LEMMA TailEnds ==
  ASSUME NEW D, NEW stop, NEW nxt, NEW res, NEW f, TailOf(D, stop, nxt, res, f),
         NEW Inv, Inv \subseteq D, NEW big, NEW small, Sinks(Inv, stop, nxt, big, small),
         NEW s0 \in Inv
  PROVE  \E t \in Inv : t \in stop /\ f[s0] = res[t]
<1> USE DEF TailOf, Sinks
<1> DEFINE Bad == {s \in Inv : ~\E t \in Inv : t \in stop /\ f[s] = res[t]}
<1>1. SUFFICES ASSUME Bad # {} PROVE FALSE
  OBVIOUS
<1> DEFINE Bigs == {big[s] : s \in Bad}
<1>2. PICK m \in Bigs : \A n \in Bigs : m <= n
  <2>1. Bigs \in SUBSET Nat /\ Bigs # {}
    BY <1>1
  <2> HIDE DEF Bigs
  <2> QED  BY <2>1, Least
<1> DEFINE Smalls == {small[s] : s \in {u \in Bad : big[u] = m}}
<1>3. PICK p \in Smalls : \A n \in Smalls : p <= n
  <2>1. Smalls \in SUBSET Nat /\ Smalls # {}
    BY <1>2
  <2> HIDE DEF Smalls
  <2> QED  BY <2>1, Least
<1>4. PICK s \in Bad : big[s] = m /\ small[s] = p
  BY <1>3
<1>5. s \notin stop
  <2>1. s \in stop => f[s] = res[s]
    OBVIOUS
  <2> QED  BY <2>1
<1>6. f[s] = f[nxt[s]] /\ nxt[s] \in Inv
  BY <1>5
<1>7. nxt[s] \in Bad
  BY <1>6
<1>8. m <= big[nxt[s]]
  BY <1>2, <1>7
<1>9. /\ big[s] \in Nat /\ small[s] \in Nat
      /\ big[nxt[s]] \in Nat /\ small[nxt[s]] \in Nat
  BY <1>4, <1>7
<1>10. big[nxt[s]] = m /\ small[nxt[s]] < p
  BY <1>4, <1>5, <1>8, <1>9
<1>11. small[nxt[s]] \in Smalls
  BY <1>7, <1>10
<1> HIDE DEF Smalls
<1>12. p <= small[nxt[s]]
  BY <1>3, <1>11
<1> QED  BY <1>4, <1>9, <1>10, <1>12

\* In order.
Rising(q) == \A i, j \in DOMAIN q : i < j => q[i] < q[j]

\* A rising sequence as long as a set of numbers has all of the set.
LEMMA RisingIsOnto ==
  ASSUME NEW S \in SUBSET Nat, IsFiniteSet(S), NEW q \in [1..Cardinality(S) -> S], Rising(q)
  PROVE  \A k \in S : \E i \in DOMAIN q : q[i] = k
<1> DEFINE n == Cardinality(S)
<1>1. n \in Nat
  BY FS_CardinalityType
<1>2. q \in Injection(1..n, S)
  <2>1. ASSUME NEW i \in 1..n, NEW j \in 1..n, q[i] = q[j] PROVE i = j
    <3>1. q[i] \in Nat /\ q[j] \in Nat
      OBVIOUS
    <3>2. ~(i < j) /\ ~(j < i)
      BY <2>1, <3>1 DEF Rising
    <3> QED  BY <1>1, <3>2
  <2> QED  BY <2>1 DEF Injection, IsInjective
<1>3. IsFiniteSet(1..n) /\ Cardinality(1..n) = n
  BY <1>1, FS_Interval
<1>4. q \in Surjection(1..n, S)
  BY <1>2, <1>3, FS_Injection
<1> QED  BY <1>4 DEF Surjection

\* A finite set of numbers has one.
LEMMA RisingExists ==
  ASSUME NEW B \in SUBSET Nat, IsFiniteSet(B), NEW S \in SUBSET B
  PROVE  \E q \in [1..Cardinality(S) -> S] : Rising(q)
<1> DEFINE Ordered(T) == \E q \in [1..Cardinality(T) -> T] : Rising(q)
           Bad == {T \in SUBSET B : ~Ordered(T)}
           Sizes == {Cardinality(T) : T \in Bad}
<1>1. SUFFICES ASSUME Bad # {} PROVE FALSE
  OBVIOUS
<1>2. \A T \in SUBSET B : IsFiniteSet(T) /\ Cardinality(T) \in Nat
  BY FS_Subset, FS_CardinalityType
<1>3. PICK m \in Sizes : \A n \in Sizes : m <= n
  <2>1. Sizes \in SUBSET Nat /\ Sizes # {}
    BY <1>1, <1>2
  <2> HIDE DEF Sizes
  <2> QED  BY <2>1, Least
<1>4. PICK T \in Bad : Cardinality(T) = m
  BY <1>3
<1>5. T \in SUBSET B /\ IsFiniteSet(T) /\ m \in Nat /\ ~Ordered(T)
  BY <1>2, <1>4
<1>6. T # {}
  <2>1. SUFFICES ASSUME T = {} PROVE Ordered(T)
    BY <1>5
  <2>2. Cardinality(T) = 0
    BY <2>1, FS_EmptySet
  <2>3. 1..Cardinality(T) = {}
    BY <2>2
  <2>4. <<>> \in [1..Cardinality(T) -> T] /\ Rising(<<>>)
    BY <2>3 DEF Rising
  <2> QED  BY <2>4
<1>7. PICK x \in T : \A y \in T : x <= y
  BY <1>5, <1>6, Least
<1> DEFINE U == T \ {x}
<1>8. U \in SUBSET B /\ Cardinality(U) = m - 1 /\ m - 1 \in Nat
  <2>1. Cardinality(U) = m - 1
    BY <1>4, <1>5, FS_RemoveElement
  <2>2. U \in SUBSET B
    BY <1>5
  <2> HIDE DEF U
  <2> QED  BY <1>2, <2>1, <2>2
<1>9. Ordered(U)
  <2>1. U \notin Bad
    <3>1. U \in Bad => m <= Cardinality(U)
      BY <1>3
    <3> HIDE DEF U
    <3> QED  BY <1>5, <1>8, <3>1
  <2> HIDE DEF U, Ordered
  <2> QED  BY <1>8, <2>1
<1>10. PICK q \in [1..(m - 1) -> U] : Rising(q)
  BY <1>8, <1>9
<1> DEFINE r == [i \in 1..m |-> IF i = 1 THEN x ELSE q[i - 1]]
<1>11. \A i \in 1..m : i # 1 => i - 1 \in 1..(m - 1) /\ q[i - 1] \in T /\ q[i - 1] # x
  <2> SUFFICES ASSUME NEW i \in 1..m, i # 1
               PROVE  i - 1 \in 1..(m - 1) /\ q[i - 1] \in U
    OBVIOUS
  <2>1. i - 1 \in 1..(m - 1)
    BY <1>5
  <2> QED  BY <1>10, <2>1
<1>12. r \in [1..m -> T]
  BY <1>11
<1>13. Rising(r)
  <2> SUFFICES ASSUME NEW i \in 1..m, NEW j \in 1..m, i < j PROVE r[i] < r[j]
    BY DEF Rising
  <2>1. j # 1 /\ r[j] = q[j - 1]
    BY <1>5
  <2>2. CASE i = 1
    <3>1. x <= q[j - 1] /\ q[j - 1] # x /\ q[j - 1] \in Nat /\ x \in Nat
      BY <1>5, <1>7, <1>11, <2>1
    <3>2. r[i] = x
      BY <2>2
    <3> QED  BY <2>1, <3>1, <3>2
  <2>3. CASE i # 1
    <3>1. r[i] = q[i - 1]
      BY <2>3
    <3>2. i - 1 \in DOMAIN q /\ j - 1 \in DOMAIN q /\ i - 1 < j - 1
      BY <1>5, <1>11, <2>1, <2>3
    <3> QED  BY <1>10, <2>1, <3>1, <3>2 DEF Rising
  <2> QED  BY <2>2, <2>3
<1> HIDE DEF r
<1>14. Ordered(T)
  BY <1>4, <1>12, <1>13
<1> QED  BY <1>5, <1>14

\* A stack without its top.
LEMMA BelowIs ==
  ASSUME NEW S, NEW q \in Seq(S), q # <<>>
  PROVE  /\ Len(q) \in Nat \ {0} /\ q[Len(q)] \in S
         /\ SubSeq(q, 1, Len(q) - 1) \in Seq(S)
         /\ Len(SubSeq(q, 1, Len(q) - 1)) = Len(q) - 1
         /\ \A i \in 1..(Len(q) - 1) : SubSeq(q, 1, Len(q) - 1)[i] = q[i]
<1> DEFINE n == Len(q) - 1
           r == SubSeq(q, 1, n)
<1>1. Len(q) \in Nat \ {0} /\ q[Len(q)] \in S
  OBVIOUS
<1>2. n \in Nat /\ \A i \in 1..n : q[i] \in S
  BY <1>1
<1> HIDE DEF n
<1>3. /\ r \in Seq(S) /\ Len(r) = IF 1 <= n THEN n - 1 + 1 ELSE 0
      /\ \A i \in 1..(n - 1 + 1) : r[i] = q[1 + i - 1]
  BY <1>2, SubSeqProperties
<1> HIDE DEF r
<1>4. Len(r) = n /\ n - 1 + 1 = n
  BY <1>2, <1>3
<1>5. ASSUME NEW i \in 1..n PROVE r[i] = q[i]
  <2>1. i \in 1..(n - 1 + 1) /\ 1 + i - 1 = i
    BY <1>2
  <2> QED  BY <1>3, <2>1
<1> QED  BY <1>1, <1>3, <1>4, <1>5 DEF r, n

\* Two sequences, one after the other.
LEMMA JoinedIs ==
  ASSUME NEW S, NEW a \in Seq(S), NEW b \in Seq(S)
  PROVE  \A i \in 1..(Len(a) + Len(b)) :
           (a \o b)[i] = IF i <= Len(a) THEN a[i] ELSE b[i - Len(a)]
OBVIOUS
-----------------------------------------------------------------------------
(* reverse_postorder: the blocks ordered are closed under the edges.        *)

\* One step of the walk of reverse_postorder, and where it ends.
Frames == [seen: SUBSET Block, post: Seq(Block), stack: Seq(Block \X Nat)]
TopOf(s) == s.stack[Len(s.stack)]
SuccsAt(b, n) == Last(b, n[1]).succs
BelowTop(s) == SubSeq(s.stack, 1, Len(s.stack) - 1)
MovedOn(s) == Append(BelowTop(s), <<TopOf(s)[1], TopOf(s)[2] + 1>>)

Deeper(b, s) ==
  IF TopOf(s)[2] >= Len(SuccsAt(b, TopOf(s)))
    THEN [s EXCEPT !.post = Append(@, TopOf(s)[1]), !.stack = BelowTop(s)]
    ELSE LET next == SuccsAt(b, TopOf(s))[TopOf(s)[2] + 1]
         IN  IF next \in s.seen
               THEN [s EXCEPT !.stack = MovedOn(s)]
               ELSE [s EXCEPT !.seen = @ \cup {next}, !.stack = Append(MovedOn(s), <<next, 0>>)]

PostOrder(b) == CHOOSE f : f = [s \in Frames |-> IF s.stack = <<>> THEN s.post ELSE f[Deeper(b, s)]]

PostStart(b) == [seen |-> {b.entry}, post |-> <<>>, stack |-> <<<<b.entry, 0>>>>]

OrderRule(b, f) ==
  [s \in Frames |->
     IF s.stack = <<>> THEN s.post
        ELSE LET top   == s.stack[Len(s.stack)]
                 succs == Last(b, top[1]).succs
                 below == SubSeq(s.stack, 1, Len(s.stack) - 1)
                 moved == Append(below, <<top[1], top[2] + 1>>)
             IN  IF top[2] >= Len(succs)
                   THEN f[[s EXCEPT !.post = Append(@, top[1]), !.stack = below]]
                   ELSE LET next == succs[top[2] + 1]
                        IN  IF next \in s.seen
                              THEN f[[s EXCEPT !.stack = moved]]
                              ELSE f[[s EXCEPT !.seen = @ \cup {next},
                                                  !.stack = Append(moved, <<next, 0>>)]]]

\* Deeper is the step reverse_postorder takes.
LEMMA OrderRuleIs ==
  ASSUME NEW b, NEW f
  PROVE OrderRule(b, f) = [s \in Frames |-> IF s.stack = <<>> THEN s.post ELSE f[Deeper(b, s)]]
BY DEF OrderRule, Deeper, TopOf, SuccsAt, BelowTop, MovedOn

\* The blocks ordered are those the walk leaves.
LEMMA PostOrderOf ==
  ASSUME NEW b
  PROVE  DOMAIN reverse_postorder(b) = {PostOrder(b)[PostStart(b)][i] : i \in DOMAIN PostOrder(b)[PostStart(b)]}
<1> DEFINE post == (CHOOSE f : f = OrderRule(b, f))[PostStart(b)]
<1>1. PostOrder(b) = CHOOSE f : f = OrderRule(b, f)
  BY OrderRuleIs DEF PostOrder
<1>2. reverse_postorder(b) = [k \in {post[i] : i \in DOMAIN post} |->
         Len(post) - (CHOOSE i \in DOMAIN post : post[i] = k)]
  BY Zenon DEF reverse_postorder, OrderRule, Frames, PostStart
<1>3. post = PostOrder(b)[PostStart(b)]
  BY <1>1
<1> HIDE DEF post
<1> QED BY <1>2, <1>3

\* A stack is its top and what is below.
LEMMA TopOfStack ==
  ASSUME NEW s \in Frames, s.stack # <<>>
  PROVE  /\ Len(s.stack) \in Nat \ {0}
         /\ TopOf(s) \in Block \X Nat /\ TopOf(s) = s.stack[Len(s.stack)]
         /\ TopOf(s)[1] \in Block /\ TopOf(s)[2] \in Nat
         /\ BelowTop(s) \in Seq(Block \X Nat) /\ Len(BelowTop(s)) = Len(s.stack) - 1
         /\ \A i \in 1..(Len(s.stack) - 1) : BelowTop(s)[i] = s.stack[i]
<1> DEFINE q == s.stack
<1>1. q \in Seq(Block \X Nat) /\ q # <<>>
  BY DEF Frames
<1> HIDE DEF q
<1>2. /\ Len(q) \in Nat \ {0} /\ q[Len(q)] \in Block \X Nat
      /\ SubSeq(q, 1, Len(q) - 1) \in Seq(Block \X Nat) /\ Len(SubSeq(q, 1, Len(q) - 1)) = Len(q) - 1
      /\ \A i \in 1..(Len(q) - 1) : SubSeq(q, 1, Len(q) - 1)[i] = q[i]
  BY <1>1, BelowIs
<1> QED  BY <1>2 DEF TopOf, BelowTop, q

\* A frame follows the edges of its block.
LEMMA SuccsType ==
  ASSUME body \in Bodies, NEW n, n[1] \in Block
  PROVE  /\ SuccsAt(body, n) \in Seq(Block)
         /\ successors(body, n[1]) = {SuccsAt(body, n)[i] : i \in 1..Len(SuccsAt(body, n))}
<1>1. Last(body, n[1]) \in Instr
  BY BodyFacts DEF Last
<1>2. SuccsAt(body, n) \in Seq(Block)
  BY <1>1 DEF Instr, SuccsAt
<1> QED  BY <1>2 DEF SuccsAt, successors, SuccsOf

\* A step leads from state to state, and touches nothing below the top.
LEMMA DeeperType ==
  ASSUME body \in Bodies, NEW s \in Frames, s.stack # <<>>
  PROVE  /\ Deeper(body, s) \in Frames
         /\ MovedOn(s) \in Seq(Block \X Nat) /\ Len(MovedOn(s)) = Len(s.stack)
         /\ MovedOn(s)[Len(s.stack)] = <<TopOf(s)[1], TopOf(s)[2] + 1>>
         /\ \A i \in 1..(Len(s.stack) - 1) : MovedOn(s)[i] = s.stack[i]
<1> DEFINE top == TopOf(s)
           succs == SuccsAt(body, top)
           m == Len(s.stack)
           deeper == <<top[1], top[2] + 1>>
           below == BelowTop(s)
<1>1. /\ m \in Nat \ {0} /\ top[1] \in Block /\ top[2] \in Nat
      /\ below \in Seq(Block \X Nat) /\ Len(below) = m - 1
      /\ \A i \in 1..(m - 1) : below[i] = s.stack[i]
  BY TopOfStack
<1>2. succs \in Seq(Block)
  BY <1>1, SuccsType
<1>3. s \in [seen: SUBSET Block, post: Seq(Block), stack: Seq(Block \X Nat)]
  BY DEF Frames
<1>4. deeper \in Block \X Nat
  BY <1>1
<1> HIDE DEF deeper, below, m, top, succs
<1>5. /\ Append(below, deeper) \in Seq(Block \X Nat)
      /\ Len(Append(below, deeper)) = m
      /\ Append(below, deeper)[m] = deeper
      /\ \A i \in 1..(m - 1) : Append(below, deeper)[i] = s.stack[i]
  BY <1>1, <1>4
<1>6. MovedOn(s) = Append(below, deeper)
  BY DEF MovedOn, below, deeper, top
<1>7. Deeper(body, s) \in Frames
  <2>1. CASE top[2] >= Len(succs)
    <3>1. Append(s.post, top[1]) \in Seq(Block)
      BY <1>1, <1>3
    <3>2. [s EXCEPT !.post = Append(s.post, top[1]), !.stack = below] \in Frames
      BY <1>1, <1>3, <3>1 DEF Frames
    <3> QED  BY <2>1, <3>2 DEF Deeper, top, succs, below
  <2>2. CASE ~(top[2] >= Len(succs))
    <3> DEFINE next == succs[top[2] + 1]
    <3>1. next \in Block
      BY <1>1, <1>2, <2>2
    <3> HIDE DEF next
    <3>2. CASE next \in s.seen
      <4>1. [s EXCEPT !.stack = Append(below, deeper)] \in Frames
        BY <1>3, <1>5 DEF Frames
      <4> QED  BY <1>6, <2>2, <3>2, <4>1 DEF Deeper, top, succs, next
    <3>3. CASE next \notin s.seen
      <4>1. <<next, 0>> \in Block \X Nat
        BY <3>1
      <4>2. Append(Append(below, deeper), <<next, 0>>) \in Seq(Block \X Nat)
        BY <1>5, <4>1
      <4>3. [s EXCEPT !.seen = s.seen \cup {next},
                      !.stack = Append(Append(below, deeper), <<next, 0>>)] \in Frames
        BY <1>3, <3>1, <4>2 DEF Frames
      <4> QED  BY <1>6, <2>2, <3>3, <4>3 DEF Deeper, top, succs, next
    <3> QED  BY <3>2, <3>3
  <2> QED  BY <2>1, <2>2
<1> QED  BY <1>5, <1>6, <1>7 DEF deeper, m, top

\* Of the walk under way: the edges a frame has followed lead to blocks seen,
\* a block left has all its edges followed, and a block seen is left or has
\* a frame.
Followed(b, s, n) ==
  /\ n[2] <= Len(SuccsAt(b, n))
  /\ \A j \in 1..n[2] : SuccsAt(b, n)[j] \in s.seen

DepthFirst(b, s) ==
  /\ \A i \in 1..Len(s.stack) : Followed(b, s, s.stack[i])
  /\ \A i \in 1..Len(s.post) : successors(b, s.post[i]) \subseteq s.seen
  /\ \A k \in s.seen : \/ \E i \in 1..Len(s.post) : s.post[i] = k
                       \/ \E i \in 1..Len(s.stack) : s.stack[i][1] = k
  /\ b.entry \in s.seen

\* The walk ends: a step sees a block or leaves one, or follows one edge
\* more.
LeftOver(b, s) == IF s.stack = <<>> THEN 0 ELSE Len(SuccsAt(b, TopOf(s))) - TopOf(s)[2]
Unseen(s) == 2 * Cardinality(Block \ s.seen) + Len(s.stack)

\* Seeing a block counts twice, so that its frame does not count against it.
LEMMA UnseenType ==
  ASSUME NEW s \in Frames
  PROVE  /\ Unseen(s) \in Nat /\ Cardinality(Block \ s.seen) \in Nat /\ Len(s.stack) \in Nat
         /\ \A k \in Block : k \notin s.seen =>
              Cardinality(Block \ (s.seen \cup {k})) = Cardinality(Block \ s.seen) - 1
<1>1. IsFiniteSet(Block \ s.seen)
  BY BlockAssumption, FS_Subset
<1>2. Cardinality(Block \ s.seen) \in Nat
  BY <1>1, FS_CardinalityType
<1>3. Len(s.stack) \in Nat
  BY DEF Frames
<1>4. ASSUME NEW k \in Block, k \notin s.seen
      PROVE  Cardinality(Block \ (s.seen \cup {k})) = Cardinality(Block \ s.seen) - 1
  <2>1. Block \ (s.seen \cup {k}) = (Block \ s.seen) \ {k}
    OBVIOUS
  <2>2. k \in Block \ s.seen
    BY <1>4
  <2>3. Cardinality((Block \ s.seen) \ {k}) = Cardinality(Block \ s.seen) - 1
    BY <1>1, <2>2, FS_RemoveElement, ZenonT(40)
  <2> QED  BY <2>1, <2>3
<1>5. Unseen(s) \in Nat
  BY <1>2, <1>3 DEF Unseen
<1> QED  BY <1>2, <1>3, <1>4, <1>5

\* Each step keeps to the above, and is nearer the end.
LEMMA DeeperKeeps ==
  ASSUME body \in Bodies, NEW s \in Frames, s.stack # <<>>, DepthFirst(body, s)
  PROVE  /\ DepthFirst(body, Deeper(body, s))
         /\ \/ Unseen(Deeper(body, s)) < Unseen(s)
            \/ /\ Unseen(Deeper(body, s)) = Unseen(s)
               /\ LeftOver(body, Deeper(body, s)) < LeftOver(body, s)
<1> DEFINE top == TopOf(s)
           succs == SuccsAt(body, top)
           m == Len(s.stack)
           t == Deeper(body, s)
           below == BelowTop(s)
           on == MovedOn(s)
           deeper == <<top[1], top[2] + 1>>
<1>1. /\ m \in Nat \ {0} /\ top[1] \in Block /\ top[2] \in Nat /\ top = s.stack[m]
      /\ below \in Seq(Block \X Nat) /\ Len(below) = m - 1
      /\ \A i \in 1..(m - 1) : below[i] = s.stack[i]
  BY TopOfStack
<1>2. /\ succs \in Seq(Block)
      /\ successors(body, top[1]) = {succs[i] : i \in 1..Len(succs)}
  BY <1>1, SuccsType
<1>3. /\ t \in Frames
      /\ on \in Seq(Block \X Nat) /\ Len(on) = m /\ on[m] = deeper
      /\ \A i \in 1..(m - 1) : on[i] = s.stack[i]
  BY DeeperType
<1>4. s.seen \subseteq Block /\ s.post \in Seq(Block) /\ s.stack \in Seq(Block \X Nat)
  BY DEF Frames
<1>5. Followed(body, s, top)
  BY <1>1 DEF DepthFirst
<1>6. SuccsAt(body, deeper) = succs /\ deeper[1] = top[1] /\ deeper[2] = top[2] + 1
  BY DEF SuccsAt
<1> HIDE DEF deeper, on, below, top, m
<1>7. CASE top[2] >= Len(succs)
  <2>1. t = [s EXCEPT !.post = Append(s.post, top[1]), !.stack = below]
    BY <1>7 DEF Deeper, top, below
  <2>2. t.seen = s.seen /\ t.stack = below /\ t.post = Append(s.post, top[1])
    BY <2>1 DEF Frames
  <2> HIDE DEF t
  <2>3. /\ Len(t.post) = Len(s.post) + 1 /\ t.post[Len(t.post)] = top[1]
        /\ \A i \in 1..Len(s.post) : t.post[i] = s.post[i]
        /\ Len(s.post) \in Nat
    BY <1>1, <1>4, <2>2
  <2>4. successors(body, top[1]) \subseteq s.seen
    <3>1. top[2] = Len(succs)
      BY <1>1, <1>2, <1>5, <1>7 DEF Followed
    <3> QED  BY <1>2, <1>5, <3>1 DEF Followed
  <2>5. \A i \in 1..Len(t.stack) : Followed(body, t, t.stack[i])
    <3> SUFFICES ASSUME NEW i \in 1..(m - 1) PROVE Followed(body, t, s.stack[i])
      BY <1>1, <2>2
    <3>1. Followed(body, s, s.stack[i])
      BY <1>1 DEF DepthFirst, m
    <3> QED  BY <2>2, <3>1 DEF Followed
  <2>6. ASSUME NEW i \in 1..Len(t.post) PROVE successors(body, t.post[i]) \subseteq t.seen
    <3>1. CASE i = Len(t.post)
      BY <2>2, <2>3, <2>4, <3>1
    <3>2. CASE i # Len(t.post)
      <4>1. i \in 1..Len(s.post)
        BY <2>3, <3>2
      <4> QED  BY <2>2, <2>3, <4>1 DEF DepthFirst
    <3> QED  BY <3>1, <3>2
  <2>7. ASSUME NEW k \in t.seen
        PROVE  \/ \E i \in 1..Len(t.post) : t.post[i] = k
               \/ \E i \in 1..Len(t.stack) : t.stack[i][1] = k
    <3>1. CASE \E i \in 1..Len(s.post) : s.post[i] = k
      <4>1. PICK i \in 1..Len(s.post) : s.post[i] = k
        BY <3>1
      <4>2. i \in 1..Len(t.post)
        BY <2>3
      <4> QED  BY <2>3, <4>1, <4>2
    <3>2. CASE \E i \in 1..m : s.stack[i][1] = k
      <4>1. PICK i \in 1..m : s.stack[i][1] = k
        BY <3>2
      <4>2. CASE i = m
        <5>1. Len(t.post) \in 1..Len(t.post) /\ t.post[Len(t.post)] = k
          BY <1>1, <2>3, <4>1, <4>2
        <5> QED  BY <5>1
      <4>3. CASE i # m
        <5>1. i \in 1..(m - 1)
          BY <1>1, <4>3
        <5>2. i \in 1..Len(t.stack) /\ t.stack[i][1] = k
          BY <1>1, <2>2, <4>1, <5>1
        <5> QED  BY <5>2
      <4> QED  BY <4>2, <4>3
    <3> QED  BY <2>2, <3>1, <3>2 DEF DepthFirst, m
  <2>8. DepthFirst(body, t)
    BY <2>2, <2>5, <2>6, <2>7 DEF DepthFirst
  <2>9. Unseen(t) < Unseen(s)
    BY <1>1, <2>2, UnseenType DEF Unseen, m
  <2> QED  BY <2>8, <2>9 DEF t
<1>8. CASE ~(top[2] >= Len(succs))
  <2> DEFINE next == succs[top[2] + 1]
  <2>1. next \in Block /\ top[2] + 1 \in 1..Len(succs)
    BY <1>1, <1>2, <1>8
  <2>2. ASSUME s.seen \subseteq t.seen, next \in t.seen
        PROVE  Followed(body, t, deeper)
    <3>1. ASSUME NEW j \in 1..(top[2] + 1) PROVE succs[j] \in t.seen
      <4>1. CASE j = top[2] + 1
        BY <2>2, <4>1
      <4>2. CASE j # top[2] + 1
        <5>1. j \in 1..top[2]
          BY <1>1, <4>2
        <5>2. succs[j] \in s.seen
          BY <1>5, <5>1 DEF Followed
        <5> QED  BY <2>2, <5>2
      <4> QED  BY <4>1, <4>2
    <3>2. top[2] + 1 <= Len(succs)
      BY <2>1
    <3> QED  BY <1>6, <3>1, <3>2 DEF Followed
  <2>3. ASSUME s.seen \subseteq t.seen, NEW i \in 1..(m - 1)
        PROVE  Followed(body, t, on[i])
    <3>1. i \in 1..m
      BY <1>1
    <3>2. Followed(body, s, s.stack[i])
      BY <3>1 DEF DepthFirst, m
    <3> QED  BY <1>3, <2>3, <3>2 DEF Followed
  <2>4. ASSUME s.seen \subseteq t.seen, next \in t.seen
        PROVE  \A i \in 1..m : Followed(body, t, on[i])
    <3> SUFFICES ASSUME NEW i \in 1..m PROVE Followed(body, t, on[i])
      OBVIOUS
    <3>1. CASE i = m
      BY <1>3, <2>2, <2>4, <3>1
    <3>2. CASE i # m
      <4>1. i \in 1..(m - 1)
        BY <1>1, <3>2
      <4> QED  BY <2>3, <2>4, <4>1
    <3> QED  BY <3>1, <3>2
  <2>5. \A i \in 1..m : on[i][1] = s.stack[i][1]
    <3> SUFFICES ASSUME NEW i \in 1..m PROVE on[i][1] = s.stack[i][1]
      OBVIOUS
    <3>1. CASE i = m
      BY <1>1, <1>3, <1>6, <3>1
    <3>2. CASE i # m
      <4>1. i \in 1..(m - 1)
        BY <1>1, <3>2
      <4> QED  BY <1>3, <4>1
    <3> QED  BY <3>1, <3>2
  <2>6. CASE next \in s.seen
    <3>1. t = [s EXCEPT !.stack = on]
      BY <1>8, <2>6 DEF Deeper, top, on
    <3>2. t.seen = s.seen /\ t.stack = on /\ t.post = s.post
      BY <3>1 DEF Frames
    <3> HIDE DEF t
    <3>3. \A i \in 1..Len(t.stack) : Followed(body, t, t.stack[i])
      BY <1>3, <2>4, <2>6, <3>2
    <3>4. \A i \in 1..Len(t.post) : successors(body, t.post[i]) \subseteq t.seen
      BY <3>2 DEF DepthFirst
    <3>5. ASSUME NEW k \in t.seen
          PROVE  \/ \E i \in 1..Len(t.post) : t.post[i] = k
                 \/ \E i \in 1..Len(t.stack) : t.stack[i][1] = k
      <4>1. \/ \E i \in 1..Len(s.post) : s.post[i] = k
            \/ \E i \in 1..m : s.stack[i][1] = k
        BY <3>2 DEF DepthFirst, m
      <4>2. \A i \in 1..m : s.stack[i][1] = k => t.stack[i][1] = k
        BY <2>5, <3>2
      <4> QED  BY <1>3, <3>2, <4>1, <4>2
    <3>6. DepthFirst(body, t)
      BY <3>2, <3>3, <3>4, <3>5 DEF DepthFirst
    <3>7. Unseen(t) = Unseen(s)
      BY <1>3, <3>2 DEF Unseen, m
    <3>8. LeftOver(body, t) < LeftOver(body, s)
      <4>1. t.stack # <<>>
        BY <1>1, <1>3, <3>2
      <4>2. TopOf(t) = deeper
        BY <1>3, <3>2 DEF TopOf
      <4>3. LeftOver(body, t) = Len(succs) - (top[2] + 1)
        BY <1>6, <4>1, <4>2 DEF LeftOver
      <4>4. LeftOver(body, s) = Len(succs) - top[2]
        BY DEF LeftOver, top
      <4> HIDE DEF succs
      <4> QED  BY <1>1, <1>2, <4>3, <4>4
    <3> QED  BY <3>6, <3>7, <3>8 DEF t
  <2>7. CASE next \notin s.seen
    <3>1. t = [s EXCEPT !.seen = s.seen \cup {next}, !.stack = Append(on, <<next, 0>>)]
      BY <1>8, <2>7 DEF Deeper, top, on
    <3>2. t.seen = s.seen \cup {next} /\ t.stack = Append(on, <<next, 0>>) /\ t.post = s.post
      BY <3>1 DEF Frames
    <3> HIDE DEF t
    <3>3. /\ Len(t.stack) = m + 1 /\ t.stack[m + 1] = <<next, 0>>
          /\ \A i \in 1..m : t.stack[i] = on[i]
      <4>1. <<next, 0>> \in Block \X Nat
        BY <2>1
      <4> HIDE DEF next
      <4> QED  BY <1>1, <1>3, <3>2, <4>1
    <3>4. ASSUME NEW i \in 1..Len(t.stack) PROVE Followed(body, t, t.stack[i])
      <4>1. CASE i = m + 1
        <5>1. t.stack[i][2] = 0 /\ t.stack[i][1] = next
          BY <3>3, <4>1
        <5>2. Len(SuccsAt(body, t.stack[i])) \in Nat
          BY <2>1, <5>1, SuccsType
        <5> QED  BY <5>1, <5>2 DEF Followed
      <4>2. CASE i # m + 1
        <5>1. i \in 1..m
          BY <1>1, <3>3, <4>2
        <5> QED  BY <2>4, <3>2, <3>3, <5>1
      <4> QED  BY <4>1, <4>2
    <3>5. \A i \in 1..Len(t.post) : successors(body, t.post[i]) \subseteq t.seen
      BY <3>2 DEF DepthFirst
    <3>6. ASSUME NEW k \in t.seen
          PROVE  \/ \E i \in 1..Len(t.post) : t.post[i] = k
                 \/ \E i \in 1..Len(t.stack) : t.stack[i][1] = k
      <4>1. CASE k = next
        <5>1. m + 1 \in 1..Len(t.stack) /\ t.stack[m + 1][1] = k
          BY <1>1, <3>3, <4>1
        <5> QED  BY <5>1
      <4>2. CASE k \in s.seen
        <5> HIDE DEF next
        <5>0. \A i \in 1..m : i \in 1..(m + 1)
          BY <1>1
        <5>1. \A i \in 1..m : i \in 1..Len(t.stack) /\ t.stack[i][1] = s.stack[i][1]
          BY <2>5, <3>3, <5>0
        <5>2. \/ \E i \in 1..Len(s.post) : s.post[i] = k
              \/ \E i \in 1..m : s.stack[i][1] = k
          BY <4>2 DEF DepthFirst, m
        <5>3. CASE \E i \in 1..m : s.stack[i][1] = k
          <6>1. PICK i \in 1..m : s.stack[i][1] = k
            BY <5>3
          <6> QED  BY <5>1, <6>1
        <5>4. CASE \E i \in 1..Len(s.post) : s.post[i] = k
          BY <3>2, <5>4
        <5> QED  BY <5>2, <5>3, <5>4
      <4>3. k = next \/ k \in s.seen
        <5> HIDE DEF next
        <5> QED  BY <3>2
      <4> QED  BY <4>1, <4>2, <4>3
    <3>7. DepthFirst(body, t)
      BY <3>2, <3>4, <3>5, <3>6 DEF DepthFirst
    <3>8. Unseen(t) < Unseen(s)
      <4>1. Cardinality(Block \ t.seen) = Cardinality(Block \ s.seen) - 1
        BY <2>1, <2>7, <3>2, UnseenType
      <4>2. Cardinality(Block \ s.seen) \in Nat /\ m \in Nat
        BY <1>1, UnseenType
      <4> QED  BY <3>3, <4>1, <4>2 DEF Unseen, m
    <3> QED  BY <3>7, <3>8 DEF t
  <2> QED  BY <2>6, <2>7
<1> QED  BY <1>7, <1>8

\* It begins so.
LEMMA WalkStarts ==
  ASSUME body \in Bodies
  PROVE  /\ PostStart(body) \in Frames
         /\ DepthFirst(body, PostStart(body))
<1> DEFINE s == PostStart(body)
<1>1. body.entry \in Block
  BY BodyFacts
<1>2. /\ s.seen = {body.entry} /\ s.post = <<>> /\ s.stack = <<<<body.entry, 0>>>>
      /\ s.stack \in Seq(Block \X Nat) /\ s.post \in Seq(Block)
      /\ Len(s.stack) = 1 /\ s.stack[1] = <<body.entry, 0>> /\ Len(s.post) = 0
  BY <1>1 DEF PostStart
<1>3. s \in Frames
  BY <1>1, <1>2 DEF PostStart, Frames
<1> HIDE DEF s
<1>4. <<body.entry, 0>>[1] = body.entry /\ <<body.entry, 0>>[2] = 0
  OBVIOUS
<1>5. Len(SuccsAt(body, <<body.entry, 0>>)) \in Nat
  BY <1>1, <1>4, SuccsType
<1>6. Followed(body, s, <<body.entry, 0>>)
  BY <1>4, <1>5 DEF Followed
<1>7. \A i \in 1..Len(s.stack) : Followed(body, s, s.stack[i])
  BY <1>2, <1>6
<1>8. \A k \in s.seen : \E i \in 1..Len(s.stack) : s.stack[i][1] = k
  BY <1>2, <1>4
<1>9. DepthFirst(body, s)
  BY <1>2, <1>7, <1>8 DEF DepthFirst
<1> QED  BY <1>3, <1>9 DEF s

\* The order of a body's blocks has the entry in it, and every successor of
\* a block it has.
LEMMA OrderFacts ==
  ASSUME body \in Bodies, NEW order, order = reverse_postorder(body)
  PROVE  /\ body.entry \in DOMAIN order
         /\ DOMAIN order \subseteq Block
         /\ \A k \in DOMAIN order : successors(body, k) \subseteq DOMAIN order
<1> DEFINE stop == {s \in Frames : s.stack = <<>>}
           nxt == [s \in Frames |-> IF s \in stop THEN s ELSE Deeper(body, s)]
           res == [s \in Frames |-> s.post]
           big == [s \in Frames |-> Unseen(s)]
           small == [s \in Frames |-> LeftOver(body, s)]
           Inv == {s \in Frames : DepthFirst(body, s)}
           f == PostOrder(body)
<1>1. nxt \in [Frames -> Frames] /\ stop \in SUBSET Frames /\ Inv \in SUBSET Frames
  BY DeeperType
<1>2. \A g : [s \in Frames |-> IF s.stack = <<>> THEN s.post ELSE g[Deeper(body, s)]]
             = [s \in Frames |-> IF s \in stop THEN res[s] ELSE g[nxt[s]]]
  OBVIOUS
<1>3. \E g : TailOf(Frames, stop, nxt, res, g)
  <2> HIDE DEF stop, nxt, res
  <2> QED  BY <1>1, TailRecursion
<1>4. TailOf(Frames, stop, nxt, res, f)
  <2>1. \E g : g = [s \in Frames |-> IF s.stack = <<>> THEN s.post ELSE g[Deeper(body, s)]]
    <3> HIDE DEF stop, nxt, res
    <3> QED  BY <1>2, <1>3 DEF TailOf
  <2>2. f = [s \in Frames |-> IF s.stack = <<>> THEN s.post ELSE f[Deeper(body, s)]]
    BY <2>1 DEF PostOrder
  <2> HIDE DEF f, stop, nxt, res
  <2> QED  BY <1>2, <2>2 DEF TailOf
<1>5. \A s \in Inv : big[s] \in Nat /\ small[s] \in Nat
  <2> SUFFICES ASSUME NEW s \in Frames, DepthFirst(body, s)
               PROVE  Unseen(s) \in Nat /\ LeftOver(body, s) \in Nat
    OBVIOUS
  <2>1. Unseen(s) \in Nat
    BY UnseenType
  <2>2. CASE s.stack # <<>>
    <3>1. TopOf(s)[1] \in Block /\ TopOf(s)[2] \in Nat
          /\ Len(s.stack) \in Nat \ {0} /\ TopOf(s) = s.stack[Len(s.stack)]
      BY <2>2, TopOfStack
    <3>2. Len(SuccsAt(body, TopOf(s))) \in Nat
      BY <3>1, SuccsType
    <3>3. Followed(body, s, TopOf(s))
      BY <3>1 DEF DepthFirst
    <3>4. LeftOver(body, s) \in Nat
      BY <2>2, <3>1, <3>2, <3>3 DEF Followed, LeftOver
    <3> QED  BY <2>1, <3>4
  <2>3. CASE s.stack = <<>>
    BY <2>1, <2>3 DEF LeftOver
  <2> QED  BY <2>2, <2>3
<1>6. ASSUME NEW s \in Inv, s \notin stop
      PROVE  /\ nxt[s] \in Inv
             /\ \/ big[nxt[s]] < big[s]
                \/ big[nxt[s]] = big[s] /\ small[nxt[s]] < small[s]
  <2>1. s \in Frames /\ DepthFirst(body, s) /\ s.stack # <<>> /\ nxt[s] = Deeper(body, s)
    BY <1>6
  <2>2. Deeper(body, s) \in Frames
    BY <2>1, DeeperType
  <2>3. /\ DepthFirst(body, Deeper(body, s))
        /\ \/ Unseen(Deeper(body, s)) < Unseen(s)
           \/ /\ Unseen(Deeper(body, s)) = Unseen(s)
              /\ LeftOver(body, Deeper(body, s)) < LeftOver(body, s)
    BY <2>1, DeeperKeeps
  <2>4. big[s] = Unseen(s) /\ big[nxt[s]] = Unseen(Deeper(body, s))
        /\ small[s] = LeftOver(body, s) /\ small[nxt[s]] = LeftOver(body, Deeper(body, s))
    BY <2>1, <2>2
  <2>5. nxt[s] \in Inv
    BY <2>1, <2>2, <2>3
  <2> HIDE DEF nxt, big, small
  <2> QED  BY <2>3, <2>4, <2>5
<1>7. PostStart(body) \in Inv
  BY WalkStarts
<1>8. PICK t \in Inv : t \in stop /\ f[PostStart(body)] = res[t]
  <2>1. Sinks(Inv, stop, nxt, big, small)
    <3> HIDE DEF stop, nxt, res, big, small, Inv
    <3> QED  BY <1>5, <1>6 DEF Sinks
  <2> HIDE DEF stop, nxt, res, big, small, Inv, f
  <2> QED  BY <1>1, <1>4, <1>7, <2>1, TailEnds
<1>9. t \in Frames /\ DepthFirst(body, t) /\ t.stack = <<>> /\ f[PostStart(body)] = t.post
  BY <1>8
<1>10. t.post \in Seq(Block) /\ t.seen \subseteq Block
  BY <1>9 DEF Frames
<1>11. DOMAIN order = {t.post[i] : i \in 1..Len(t.post)}
  <2>1. DOMAIN t.post = 1..Len(t.post)
    BY <1>10
  <2>2. DOMAIN reverse_postorder(body) = {f[PostStart(body)][i] : i \in DOMAIN f[PostStart(body)]}
    BY PostOrderOf
  <2> HIDE DEF f
  <2> QED  BY <1>9, <2>1, <2>2
<1>12. \A k \in t.seen : \E i \in 1..Len(t.post) : t.post[i] = k
  <2>1. Len(t.stack) = 0
    BY <1>9
  <2> QED  BY <1>9, <2>1 DEF DepthFirst
<1>13. t.seen \subseteq DOMAIN order
  BY <1>11, <1>12
<1>14. DOMAIN order \subseteq Block
  BY <1>10, <1>11
<1> HIDE DEF f, stop, Inv, res
<1>15. \A k \in DOMAIN order : successors(body, k) \subseteq DOMAIN order
  <2> SUFFICES ASSUME NEW i \in 1..Len(t.post)
               PROVE  successors(body, t.post[i]) \subseteq DOMAIN order
    BY <1>11
  <2>1. successors(body, t.post[i]) \subseteq t.seen
    BY <1>9 DEF DepthFirst
  <2> QED  BY <1>13, <2>1
<1>16. body.entry \in DOMAIN order
  BY <1>9, <1>13 DEF DepthFirst
<1> QED  BY <1>14, <1>15, <1>16
-----------------------------------------------------------------------------
(* walk_back: what it finds leads to where it starts, and where it finds    *)
(* nothing there is nothing to find.                                        *)

\* What a point does to a binding or a temporary l, as tr tracks it.
Ends(tr, instr, l) ==
  \/ IsDef(instr, l)
  \/ instr.kind = "dead" /\ instr.dest.local = l
  \/ instr.kind = "trap" /\ instr.blamed = l /\ tr[l] \in Bindings

\* ... a move of l that a walk back finds, and the locals it is asked about.
Takes(tr, instr, l) == TakenOf(tr, instr.reads, l) /\ ~Ends(tr, instr, l)

Watched(tr, l) == tr[l] \in Bindings \/ tr[l] = "temporary"

\* effect, read off a step from a state that holds anything, is that.
LEMMA EffectIs ==
  ASSUME NEW l \in Local, Watched(tracked, l), NEW instr
  PROVE  /\ effect(instr, l) = "ends" <=> Ends(tracked, instr, l)
         /\ effect(instr, l) = "takes" <=> Takes(tracked, instr, l)
<1> DEFINE any == [m \in Local |-> IF m = l THEN Flag ELSE {"running"}]
           after == step(instr, any)[l]
<1>1. any[l] = Flag /\ tracked[l] # "untracked"
  BY DEF Watched, Bindings
<1> HIDE DEF any
<1>2. after =
        LET read == IF TakenOf(tracked, instr.reads, l) THEN Just("moved") ELSE Flag
        IN  IF instr.kind = "trap" /\ (IsDef(instr, l) \/ (instr.blamed = l /\ tracked[l] \in Bindings))
              THEN HALTED
            ELSE IF IsDef(instr, l) THEN IF HaltedOf(body, instr, any) THEN HALTED ELSE VALUE
            ELSE IF instr.kind = "dead" /\ instr.dest.local = l THEN Just("unassigned")
            ELSE read
  BY <1>1, StepIs DEF StepOf
<1>3. effect(instr, l) = IF after = Flag THEN "nothing"
                         ELSE IF after = Just("moved") THEN "takes" ELSE "ends"
  BY Zenon DEF effect, any
<1> HIDE DEF after
<1>4. /\ HALTED # Flag /\ HALTED # Just("moved")
      /\ VALUE # Flag /\ VALUE # Just("moved")
      /\ Just("unassigned") # Flag /\ Just("unassigned") # Just("moved")
      /\ Just("moved") # Flag
  <2>1. "moved" \in Flag /\ "value" \in Flag /\ "moved" \in Just("moved")
        /\ "value" \notin Just("moved") /\ "value" \notin Just("unassigned")
        /\ "moved" \notin HALTED /\ "moved" \notin VALUE /\ "moved" \notin Just("unassigned")
    BY DEF Flag, Content, Just, HALTED, VALUE
  <2> QED  BY <2>1
<1>5. CASE Ends(tracked, instr, l)
  <2>1. after = HALTED \/ after = VALUE \/ after = Just("unassigned")
    BY <1>2, <1>5 DEF Ends
  <2> QED  BY <1>3, <1>4, <1>5, <2>1 DEF Takes
<1>6. CASE ~Ends(tracked, instr, l)
  <2>1. after = IF TakenOf(tracked, instr.reads, l) THEN Just("moved") ELSE Flag
    BY <1>2, <1>6 DEF Ends
  <2> QED  BY <1>3, <1>4, <1>6, <2>1 DEF Takes
<1> QED  BY <1>5, <1>6
\* A walk back's state: the blocks seen, and where to look back from in each
\* of those still to do.
Spots == [block: Block, index: Nat]
Fronts == [seen: SUBSET Block, stack: Seq(Spots)]

\* Back through one block.
ScanRule(l, found, f) ==
  [p \in [block: Block, index: Nat] |->
     IF p.index = 0 THEN NoPoint
     ELSE IF p \in found THEN p
     ELSE IF effect(InstrAt(body, p), l) = "ends" THEN At(p.block, 0)
     ELSE f[At(p.block, p.index - 1)]]

Scan(l, found) == CHOOSE f : f = ScanRule(l, found, f)

\* Where the walk starts, the point it looks back from next, and the others.
Start(to) == [seen |-> {}, stack |-> <<At(to.block, to.index - 1)>>]
Nearest(s) == s.stack[Len(s.stack)]
Rest(s) == SubSeq(s.stack, 1, Len(s.stack) - 1)

\* The blocks an edge leads from to k, that the walk may take and has not seen.
Edge(order, round, k, j) == {k, j} \subseteq DOMAIN order /\ (round \/ order[k] < order[j])
NewPreds(round, s, j) == {k \in predecessors(body, j) \ s.seen : Edge(rpo, round, k, j)}
InOrder(S) == CHOOSE q \in [1..Cardinality(S) -> S] : \A i, j \in DOMAIN q : i < j => q[i] < q[j]
EndsOf(q) == [i \in DOMAIN q |-> At(q[i], Len(body.code[q[i]]))]

\* ... a walk back's rule, as walk_back states it.
WalkRule(l, round, found, f) ==
  [s \in [seen: SUBSET Block, stack: Seq([block: Block, index: Nat])] |->
        IF s.stack = <<>> THEN NoPoint
        ELSE LET from == s.stack[Len(s.stack)]
                 hit  == Scan(l, found)[from]
                 rest == SubSeq(s.stack, 1, Len(s.stack) - 1)
                 next == {k \in predecessors(body, from.block) \ s.seen :
                            /\ from.block \in DOMAIN rpo /\ k \in DOMAIN rpo
                            /\ round \/ rpo[k] < rpo[from.block]}
                 more == CHOOSE q \in [1..Cardinality(next) -> next] :
                           \A i, j \in DOMAIN q : i < j => q[i] < q[j]
             IN  IF hit = NoPoint
                   THEN f[[seen  |-> s.seen \cup next,
                              stack |-> rest \o [i \in DOMAIN more |->
                                          At(more[i], Len(body.code[more[i]]))]]]
                 ELSE IF hit.index = 0 THEN f[[s EXCEPT !.stack = rest]]
                 ELSE hit]

\* walk_back is the function of that rule,
LEMMA WalkBackUnfolds ==
  ASSUME NEW to, NEW l, NEW round, NEW found
  PROVE  walk_back(to, l, round, found) = (CHOOSE f : f = WalkRule(l, round, found, f))[Start(to)]
BY Zenon DEF walk_back, WalkRule, Scan, ScanRule, Start

\* The state a walk goes on with when its block has not what it looks for.
Further(l, round, found, s) ==
  IF Scan(l, found)[Nearest(s)] = NoPoint
    THEN LET next == NewPreds(round, s, Nearest(s).block)
         IN  [seen |-> s.seen \cup next, stack |-> Rest(s) \o EndsOf(InOrder(next))]
    ELSE [s EXCEPT !.stack = Rest(s)]

\* ... which goes from state to state by Further.
LEMMA WalkRuleIs ==
  ASSUME NEW l, NEW round, NEW found, NEW f
  PROVE  WalkRule(l, round, found, f) =
           [s \in Fronts |->
              IF s.stack = <<>> THEN NoPoint
              ELSE IF Scan(l, found)[Nearest(s)] # NoPoint /\ Scan(l, found)[Nearest(s)].index # 0
                THEN Scan(l, found)[Nearest(s)]
              ELSE f[Further(l, round, found, s)]]
<1>1. \A s : {k \in predecessors(body, Nearest(s).block) \ s.seen :
                /\ Nearest(s).block \in DOMAIN rpo /\ k \in DOMAIN rpo
                /\ round \/ rpo[k] < rpo[Nearest(s).block]}
             = NewPreds(round, s, Nearest(s).block)
  BY DEF NewPreds, Edge
<1>2. WalkRule(l, round, found, f) =
        [s \in Fronts |->
           IF s.stack = <<>> THEN NoPoint
           ELSE LET next == {k \in predecessors(body, Nearest(s).block) \ s.seen :
                               /\ Nearest(s).block \in DOMAIN rpo /\ k \in DOMAIN rpo
                               /\ round \/ rpo[k] < rpo[Nearest(s).block]}
                IN  IF Scan(l, found)[Nearest(s)] = NoPoint
                      THEN f[[seen |-> s.seen \cup next, stack |-> Rest(s) \o EndsOf(InOrder(next))]]
                    ELSE IF Scan(l, found)[Nearest(s)].index = 0
                      THEN f[[s EXCEPT !.stack = Rest(s)]]
                    ELSE Scan(l, found)[Nearest(s)]]
  BY Zenon DEF WalkRule, Fronts, Spots, Nearest, Rest, InOrder, EndsOf
<1>3. ASSUME NEW s \in Fronts
      PROVE  (IF s.stack = <<>> THEN NoPoint
              ELSE LET next == {k \in predecessors(body, Nearest(s).block) \ s.seen :
                               /\ Nearest(s).block \in DOMAIN rpo /\ k \in DOMAIN rpo
                               /\ round \/ rpo[k] < rpo[Nearest(s).block]}
                   IN  IF Scan(l, found)[Nearest(s)] = NoPoint
                         THEN f[[seen |-> s.seen \cup next, stack |-> Rest(s) \o EndsOf(InOrder(next))]]
                       ELSE IF Scan(l, found)[Nearest(s)].index = 0
                         THEN f[[s EXCEPT !.stack = Rest(s)]]
                       ELSE Scan(l, found)[Nearest(s)])
             = IF s.stack = <<>> THEN NoPoint
               ELSE IF Scan(l, found)[Nearest(s)] # NoPoint /\ Scan(l, found)[Nearest(s)].index # 0
                 THEN Scan(l, found)[Nearest(s)]
               ELSE f[Further(l, round, found, s)]
  <2> DEFINE hit == Scan(l, found)[Nearest(s)]
  <2>1. CASE hit = NoPoint
    <3>1. Further(l, round, found, s) =
             [seen |-> s.seen \cup NewPreds(round, s, Nearest(s).block),
              stack |-> Rest(s) \o EndsOf(InOrder(NewPreds(round, s, Nearest(s).block)))]
      BY <2>1, Zenon DEF Further
    <3> QED  BY <1>1, <2>1, <3>1, Zenon
  <2>2. CASE hit # NoPoint
    <3>1. Further(l, round, found, s) = [s EXCEPT !.stack = Rest(s)]
      BY <2>2 DEF Further
    <3> HIDE DEF hit
    <3> QED  BY <2>2, <3>1, Zenon DEF hit
  <2> QED  BY <2>1, <2>2
<1> QED  BY <1>2, <1>3, Zenon

\* A point the walk back through a block stops at.
Stops(l, found, p) == p \in found \/ Ends(tracked, InstrAt(body, p), l)

\* A point is its block and its index.
LEMMA AtIs ==
  ASSUME NEW k, NEW i
  PROVE  /\ At(k, i).block = k /\ At(k, i).index = i
         /\ k \in Block /\ i \in Nat => At(k, i) \in Spots
         /\ \A p \in Spots : p.block \in Block /\ p.index \in Nat /\ p = At(p.block, p.index)
         /\ \A j, m : At(k, i) = At(j, m) <=> k = j /\ i = m
<1>1. At(k, i).block = k /\ At(k, i).index = i
  BY DEF At
<1>2. k \in Block /\ i \in Nat => At(k, i) \in Spots
  BY DEF At, Spots
<1>3. \A p \in Spots : p.block \in Block /\ p.index \in Nat /\ p = At(p.block, p.index)
  BY DEF At, Spots
<1>4. ASSUME NEW j, NEW m PROVE At(k, i) = At(j, m) <=> k = j /\ i = m
  <2>1. At(j, m).block = j /\ At(j, m).index = m
    BY DEF At
  <2> QED  BY <1>1, <2>1
<1> QED  BY <1>1, <1>2, <1>3, <1>4

\* Looking back through a block finds the last point that is asked for or
\* stops the walk, whichever comes first, or passes its start.
LEMMA ScanIs ==
  ASSUME NEW l \in Local, Watched(tracked, l), NEW found, NEW k \in Block, NEW i \in Nat
  PROVE  \/ /\ Scan(l, found)[At(k, i)] = NoPoint
            /\ \A m \in 1..i : ~Stops(l, found, At(k, m))
         \/ \E j \in 1..i :
              /\ \A m \in (j + 1)..i : ~Stops(l, found, At(k, m))
              /\ \/ At(k, j) \in found /\ Scan(l, found)[At(k, i)] = At(k, j)
                 \/ /\ At(k, j) \notin found /\ Stops(l, found, At(k, j))
                    /\ Scan(l, found)[At(k, i)] = At(k, 0)
<1> DEFINE stop == {p \in Spots : p.index = 0 \/ Stops(l, found, p)}
           nxt == [p \in Spots |-> IF p \in stop THEN p ELSE At(p.block, p.index - 1)]
           res == [p \in Spots |-> IF p.index = 0 THEN NoPoint
                                   ELSE IF p \in found THEN p ELSE At(p.block, 0)]
           Inv == {p \in Spots : /\ p.block = k /\ p.index <= i
                                 /\ \A m \in (p.index + 1)..i : ~Stops(l, found, At(k, m))}
           big == [p \in Spots |-> p.index]
           small == [p \in Spots |-> 0]
           f == Scan(l, found)
<1>1. stop \subseteq Spots /\ Inv \subseteq Spots
  OBVIOUS
<1>2. ASSUME NEW p \in Spots, p.index # 0
      PROVE  /\ At(p.block, p.index - 1) \in Spots /\ At(p.block, p.index - 1).block = p.block
             /\ At(p.block, p.index - 1).index = p.index - 1
  <2>1. p.block \in Block /\ p.index - 1 \in Nat
    BY <1>2, AtIs
  <2> QED  BY <2>1, AtIs
<1>3. nxt \in [Spots -> Spots]
  BY <1>2
<1>4. ASSUME NEW g
      PROVE  ScanRule(l, found, g) = [p \in Spots |-> IF p \in stop THEN res[p] ELSE g[nxt[p]]]
  <2>1. ASSUME NEW p \in Spots
        PROVE  (IF p.index = 0 THEN NoPoint
                ELSE IF p \in found THEN p
                ELSE IF effect(InstrAt(body, p), l) = "ends" THEN At(p.block, 0)
                ELSE g[At(p.block, p.index - 1)]) = IF p \in stop THEN res[p] ELSE g[nxt[p]]
    BY EffectIs DEF Stops
  <2> HIDE DEF stop, nxt, res
  <2> QED  BY <2>1 DEF ScanRule, Spots
<1>5. \E g : TailOf(Spots, stop, nxt, res, g)
  <2> HIDE DEF stop, nxt, res
  <2> QED  BY <1>1, <1>3, TailRecursion
<1>6. TailOf(Spots, stop, nxt, res, f)
  <2> HIDE DEF stop, nxt, res
  <2>1. \E g : g = ScanRule(l, found, g)
    BY <1>4, <1>5 DEF TailOf
  <2>2. f = ScanRule(l, found, f)
    BY <2>1 DEF Scan
  <2> HIDE DEF f
  <2> QED  BY <1>4, <2>2 DEF TailOf
<1>7. Sinks(Inv, stop, nxt, big, small)
  <2>1. \A p \in Inv : big[p] \in Nat /\ small[p] \in Nat
    BY AtIs
  <2>2. ASSUME NEW p \in Inv, p \notin stop
        PROVE  nxt[p] \in Inv /\ big[nxt[p]] < big[p]
    <3> DEFINE q == At(p.block, p.index - 1)
    <3>1. p \in Spots /\ p.index # 0 /\ p.index \in Nat /\ p = At(k, p.index) /\ ~Stops(l, found, p)
      BY <2>2, AtIs
    <3>2. q \in Spots /\ q.block = p.block /\ q.index = p.index - 1 /\ nxt[p] = q
      BY <1>2, <2>2, <3>1
    <3> HIDE DEF q
    <3>3. ASSUME NEW m \in (q.index + 1)..i PROVE ~Stops(l, found, At(k, m))
      <4>1. CASE m = p.index
        BY <3>1, <4>1
      <4>2. CASE m # p.index
        <5>1. m \in (p.index + 1)..i
          BY <3>1, <3>2, <4>2
        <5> QED  BY <5>1
      <4> QED  BY <4>1, <4>2
    <3>4. q.index <= i /\ q.index < p.index
      BY <3>1, <3>2
    <3>5. q \in Inv
      BY <3>2, <3>3, <3>4
    <3> QED  BY <3>1, <3>2, <3>4, <3>5
  <2> HIDE DEF Inv, stop, nxt, big, small
  <2> QED  BY <2>1, <2>2 DEF Sinks
<1>8. At(k, i) \in Inv
  BY AtIs
<1>9. PICK p \in Inv : p \in stop /\ f[At(k, i)] = res[p]
  <2> HIDE DEF Inv, stop, nxt, big, small, f, res
  <2> QED  BY <1>1, <1>6, <1>7, <1>8, TailEnds
<1>10. p \in Spots /\ p.index \in Nat /\ p = At(k, p.index) /\ p.index <= i
       /\ \A m \in (p.index + 1)..i : ~Stops(l, found, At(k, m))
  BY <1>9, AtIs
<1>11. CASE p.index = 0
  <2>1. Scan(l, found)[At(k, i)] = NoPoint
    BY <1>9, <1>10, <1>11
  <2> QED  BY <1>10, <1>11, <2>1
<1>12. CASE p.index # 0
  <2>1. p.index \in 1..i /\ Stops(l, found, p)
    BY <1>9, <1>10, <1>12
  <2>2. Scan(l, found)[At(k, i)] = IF p \in found THEN p ELSE At(k, 0)
    <3>1. p.block = k
      BY <1>9
    <3> QED  BY <1>9, <1>10, <1>12, <3>1
  <2> QED  BY <1>10, <2>1, <2>2
<1> QED  BY <1>11, <1>12

\* The blocks before, in the order of the arena, are all there.
LEMMA InOrderIs ==
  ASSUME NEW S \in SUBSET Block
  PROVE  /\ Cardinality(S) \in Nat
         /\ InOrder(S) \in [1..Cardinality(S) -> S]
         /\ \A k \in S : \E i \in 1..Cardinality(S) : InOrder(S)[i] = k
<1>1. IsFiniteSet(S) /\ Block \in SUBSET Nat /\ S \in SUBSET Nat /\ IsFiniteSet(Block)
  BY BlockAssumption, FS_Subset
<1>2. \E q \in [1..Cardinality(S) -> S] : Rising(q)
  BY <1>1, RisingExists
<1>3. InOrder(S) \in [1..Cardinality(S) -> S] /\ Rising(InOrder(S))
  BY <1>2 DEF InOrder, Rising
<1>4. \A k \in S : \E i \in DOMAIN InOrder(S) : InOrder(S)[i] = k
  BY <1>1, <1>3, RisingIsOnto
<1>5. Cardinality(S) \in Nat
  BY <1>1, FS_CardinalityType
<1> QED  BY <1>3, <1>4, <1>5

\* The walk's fronts, and what makes it end.
BlockEnd(k) == At(k, Len(body.code[k]))
\* Every block is seen once, and every front popped.
Size(s) == Cardinality(Block \ s.seen) + Len(s.stack)

\* The ends of a set of blocks, each once.
LEMMA EndsOfIs ==
  ASSUME body \in Bodies, NEW S \in SUBSET Block
  PROVE  /\ Cardinality(S) \in Nat
         /\ EndsOf(InOrder(S)) \in Seq(Spots)
         /\ Len(EndsOf(InOrder(S))) = Cardinality(S)
         /\ \A i \in 1..Cardinality(S) : \E k \in S : EndsOf(InOrder(S))[i] = BlockEnd(k)
         /\ \A k \in S : \E i \in 1..Cardinality(S) : EndsOf(InOrder(S))[i] = BlockEnd(k)
<1> DEFINE n == Cardinality(S)
           q == InOrder(S)
           e == EndsOf(q)
<1>1. n \in Nat /\ q \in [1..n -> S] /\ \A k \in S : \E i \in 1..n : q[i] = k
  BY InOrderIs
<1>2. \A k \in S : BlockEnd(k) \in Spots
  BY BodyFacts, AtIs DEF BlockEnd
<1> HIDE DEF q, n
<1>3. DOMAIN q = 1..n
  BY <1>1
<1>4. e = [i \in 1..n |-> BlockEnd(q[i])]
  BY <1>3 DEF EndsOf, BlockEnd
<1> HIDE DEF e
<1>5. \A i \in 1..n : q[i] \in S /\ e[i] = BlockEnd(q[i])
  BY <1>1, <1>4
<1>6. e \in [1..n -> Spots]
  BY <1>2, <1>4, <1>5
<1>7. e \in Seq(Spots) /\ Len(e) = n
  BY <1>1, <1>6
<1> QED  BY <1>1, <1>5, <1>7 DEF e, q, n

\* The front popped and the rest.
LEMMA FrontIs ==
  ASSUME NEW s \in Fronts, s.stack # <<>>
  PROVE  /\ Len(s.stack) \in Nat \ {0} /\ Nearest(s) \in Spots
         /\ Nearest(s).block \in Block /\ Nearest(s).index \in Nat
         /\ Nearest(s) = s.stack[Len(s.stack)]
         /\ Rest(s) \in Seq(Spots) /\ Len(Rest(s)) = Len(s.stack) - 1
         /\ \A i \in 1..(Len(s.stack) - 1) : Rest(s)[i] = s.stack[i]
         /\ s.seen \in SUBSET Block
<1> DEFINE q == s.stack
<1>1. q \in Seq(Spots) /\ q # <<>> /\ s.seen \in SUBSET Block
  BY DEF Fronts
<1> HIDE DEF q
<1>2. /\ Len(q) \in Nat \ {0} /\ q[Len(q)] \in Spots
      /\ SubSeq(q, 1, Len(q) - 1) \in Seq(Spots) /\ Len(SubSeq(q, 1, Len(q) - 1)) = Len(q) - 1
      /\ \A i \in 1..(Len(q) - 1) : SubSeq(q, 1, Len(q) - 1)[i] = q[i]
  BY <1>1, BelowIs
<1>3. Nearest(s).block \in Block /\ Nearest(s).index \in Nat
  BY <1>2, AtIs DEF Nearest, q
<1> QED  BY <1>1, <1>2, <1>3 DEF Nearest, Rest, q

\* From s to t the front popped is replaced by the ends of the blocks next.
GoneOn(s, t, next) ==
  /\ t \in Fronts /\ t.seen = s.seen \cup next /\ next \in SUBSET Block
  /\ \A i \in 1..(Len(s.stack) - 1) : i \in 1..Len(t.stack) /\ t.stack[i] = s.stack[i]
  /\ \A i \in 1..Len(t.stack) :
       \/ i \in 1..(Len(s.stack) - 1) /\ t.stack[i] = s.stack[i]
       \/ \E k \in next : t.stack[i] = BlockEnd(k)
  /\ \A k \in next : \E i \in 1..Len(t.stack) : t.stack[i] = BlockEnd(k)
  /\ Size(s) \in Nat /\ Size(t) \in Nat /\ Size(t) < Size(s)

\* A step of the walk that finds nothing in its block goes on to the ends of
\* the blocks before; one that is stopped goes on with the rest.
LEMMA FurtherIs ==
  ASSUME body \in Bodies, NEW l, NEW round, NEW found, NEW s \in Fronts, s.stack # <<>>,
         NEW next, next = IF Scan(l, found)[Nearest(s)] = NoPoint
                            THEN NewPreds(round, s, Nearest(s).block) ELSE {},
         NEW t, t = Further(l, round, found, s)
  PROVE  GoneOn(s, t, next)
<1> DEFINE m == Len(s.stack)
           rest == Rest(s)
           n == Cardinality(next)
           e == EndsOf(InOrder(next))
<1>1. /\ m \in Nat \ {0} /\ rest \in Seq(Spots) /\ Len(rest) = m - 1
      /\ \A i \in 1..(m - 1) : rest[i] = s.stack[i]
      /\ s.seen \in SUBSET Block /\ m - 1 \in Nat
  BY FrontIs
<1>2. next \in SUBSET Block /\ next \cap s.seen = {}
  BY DEF NewPreds, predecessors
<1>3. /\ n \in Nat /\ e \in Seq(Spots) /\ Len(e) = n
      /\ \A i \in 1..n : \E k \in next : e[i] = BlockEnd(k)
      /\ \A k \in next : \E i \in 1..n : e[i] = BlockEnd(k)
  BY <1>2, EndsOfIs
<1>4. /\ Cardinality(Block \ s.seen) \in Nat
      /\ Cardinality(Block \ (s.seen \cup next)) = Cardinality(Block \ s.seen) - n
      /\ Cardinality(Block \ (s.seen \cup next)) \in Nat
  <2> DEFINE S == Block \ s.seen
  <2>1. IsFiniteSet(S) /\ IsFiniteSet(S \ next)
    BY BlockAssumption, FS_Subset, FS_Difference
  <2>2. S \ next = Block \ (s.seen \cup next) /\ S \cap next = next
    BY <1>2
  <2>3. Cardinality(S \ next) = Cardinality(S) - Cardinality(S \cap next)
    BY <2>1, FS_Difference
  <2>4. Cardinality(S) \in Nat /\ Cardinality(S \ next) \in Nat
    BY <2>1, FS_CardinalityType
  <2> QED  BY <2>2, <2>3, <2>4
<1> HIDE DEF n, e, m, rest
<1>5. CASE Scan(l, found)[Nearest(s)] = NoPoint
  <2>1. t = [seen |-> s.seen \cup next, stack |-> rest \o e]
    BY <1>5, Zenon DEF Further, rest, e
  <2>2. t.seen = s.seen \cup next /\ t.stack = rest \o e
    BY <2>1
  <2>3. /\ rest \o e \in Seq(Spots) /\ Len(rest \o e) = (m - 1) + n
        /\ \A i \in 1..((m - 1) + n) :
             (rest \o e)[i] = IF i <= m - 1 THEN rest[i] ELSE e[i - (m - 1)]
    <3>1. rest \o e \in Seq(Spots)
      BY <1>1, <1>3, ConcatProperties
    <3>2. Len(rest \o e) = Len(rest) + Len(e)
      BY <1>1, <1>3, ConcatProperties, ZenonT(40)
    <3>3. \A i \in 1..(Len(rest) + Len(e)) :
            (rest \o e)[i] = IF i <= Len(rest) THEN rest[i] ELSE e[i - Len(rest)]
      <4>1. rest \in Seq(Spots)
        BY <1>1, Zenon
      <4>2. e \in Seq(Spots)
        BY <1>3, Zenon
      <4> QED  BY <4>1, <4>2, JoinedIs, SMTT(60)
    <3> QED  BY <1>1, <1>3, <3>1, <3>2, <3>3
  <2>4. t \in Fronts
    BY <1>1, <1>2, <2>1, <2>3 DEF Fronts
  <2>5. \A i \in 1..(m - 1) : i \in 1..Len(t.stack) /\ t.stack[i] = s.stack[i]
    BY <1>1, <1>3, <2>2, <2>3
  <2>6. ASSUME NEW i \in 1..Len(t.stack), i \notin 1..(m - 1)
        PROVE  \E k \in next : t.stack[i] = BlockEnd(k)
    <3>1. i - (m - 1) \in 1..n /\ t.stack[i] = e[i - (m - 1)]
      BY <1>1, <1>3, <2>2, <2>3, <2>6
    <3> QED  BY <1>3, <3>1
  <2>7. ASSUME NEW k \in next PROVE \E i \in 1..Len(t.stack) : t.stack[i] = BlockEnd(k)
    <3>1. PICK j \in 1..n : e[j] = BlockEnd(k)
      BY <1>3
    <3> DEFINE i == (m - 1) + j
    <3>2. i \in 1..((m - 1) + n) /\ ~(i <= m - 1) /\ i - (m - 1) = j
      BY <1>1, <1>3
    <3> HIDE DEF i
    <3>3. t.stack[i] = BlockEnd(k) /\ i \in 1..Len(t.stack)
      BY <2>2, <2>3, <3>1, <3>2
    <3> QED  BY <3>3
  <2>8. Size(s) \in Nat /\ Size(t) \in Nat /\ Size(t) < Size(s)
    <3>1. Len(t.stack) = (m - 1) + n
      BY <2>2, <2>3
    <3>2. Size(t) = Cardinality(Block \ (s.seen \cup next)) + ((m - 1) + n)
      BY <2>2, <3>1 DEF Size
    <3>3. Size(s) = Cardinality(Block \ s.seen) + m
      BY DEF Size, m
    <3> QED  BY <1>1, <1>3, <1>4, <3>2, <3>3
  <2> QED  BY <1>2, <2>2, <2>4, <2>5, <2>6, <2>7, <2>8 DEF m, GoneOn
<1>6. CASE Scan(l, found)[Nearest(s)] # NoPoint
  <2>1. t = [s EXCEPT !.stack = rest] /\ next = {}
    BY <1>6 DEF Further, rest
  <2>2. t.seen = s.seen /\ t.stack = rest /\ t \in Fronts
    BY <1>1, <2>1 DEF Fronts
  <2>3. Size(s) \in Nat /\ Size(t) \in Nat /\ Size(t) < Size(s)
    <3>1. Len(t.stack) = m - 1 /\ Len(s.stack) = m
      BY <1>1, <2>2 DEF m
    <3> QED  BY <1>1, <1>4, <2>2, <3>1 DEF Size
  <2>4. t.seen = s.seen \cup next
    BY <2>1, <2>2
  <2>5. \A i \in 1..(m - 1) : i \in 1..Len(t.stack) /\ t.stack[i] = s.stack[i]
    BY <1>1, <2>2
  <2>6. \A i \in 1..Len(t.stack) : i \in 1..(m - 1) /\ t.stack[i] = s.stack[i]
    BY <1>1, <2>2
  <2> QED  BY <1>2, <2>1, <2>2, <2>3, <2>4, <2>5, <2>6 DEF m, GoneOn
<1> QED  BY <1>5, <1>6

\* The points after n, by the edges a walk back may take.
Follow(b, order, round, n) ==
  IF n.index < Len(b.code[n.block]) THEN {At(n.block, n.index + 1)}
  ELSE {At(k, 1) : k \in {j \in successors(b, n.block) : Edge(order, round, n.block, j)}}

\* T is left only at q and where the walk stops, so what goes on to q is in
\* every such T only with q.
Shut(round, l, found, q, T) ==
  \A m \in T : m # q /\ ~Stops(l, found, m) => Follow(body, rpo, round, m) \subseteq T
\* ... that is, from n the walk's own edges lead on to q.
GoesTo(round, l, found, q, n) ==
  \A T \in SUBSET Points(body) : n \in T /\ Shut(round, l, found, q, T) => q \in T

\* The walk looks back from f only where going on from f reaches q.
Leading(round, l, found, q, f) ==
  /\ f \in Spots
  /\ f.index <= Len(body.code[f.block])
  /\ \E m \in Follow(body, rpo, round, f) : GoesTo(round, l, found, q, m)

\* What f had to show is known: a point that stops the walk first, or the
\* blocks before, all seen.
Done(round, l, found, seen, f) ==
  \/ \E j \in 1..f.index :
       /\ \A m \in (j + 1)..f.index : ~Stops(l, found, At(f.block, m))
       /\ Stops(l, found, At(f.block, j))
       /\ At(f.block, j) \notin found
  \/ /\ \A m \in 1..f.index : ~Stops(l, found, At(f.block, m))
     /\ \A k \in Block :
          f.block \in successors(body, k) /\ Edge(rpo, round, k, f.block) => k \in seen

\* The fronts so far; each still leads to q, and each not yet looked back
\* from is on the stack.
Looked(q, seen) == {At(q.block, q.index - 1)} \cup {BlockEnd(k) : k \in seen}

OnlyLeading(round, l, found, q, s) ==
  \A i \in 1..Len(s.stack) : Leading(round, l, found, q, s.stack[i])
AllLooked(round, l, found, q, s) ==
  \A f \in Looked(q, s.seen) :
    \/ \E i \in 1..Len(s.stack) : s.stack[i] = f
    \/ Done(round, l, found, s.seen, f)

\* The points of a body are its blocks' indices.
LEMMA PointIs ==
  ASSUME body \in Bodies
  PROVE  /\ \A k \in Block : \A i \in 1..Len(body.code[k]) : At(k, i) \in Points(body)
         /\ \A p \in Points(body) :
              /\ p.block \in Block /\ p.index \in 1..Len(body.code[p.block])
              /\ p = At(p.block, p.index) /\ p \in Spots
<1>1. \A k \in Block : DOMAIN body.code[k] = 1..Len(body.code[k]) /\ Len(body.code[k]) \in Nat \ {0}
  BY BodyFacts
<1>2. ASSUME NEW k \in Block, NEW i \in 1..Len(body.code[k]) PROVE At(k, i) \in Points(body)
  BY <1>1 DEF Points
<1>3. ASSUME NEW p \in Points(body)
      PROVE  /\ p.block \in Block /\ p.index \in 1..Len(body.code[p.block])
             /\ p = At(p.block, p.index) /\ p \in Spots
  <2>1. PICK k \in Block : \E i \in 1..Len(body.code[k]) : p = At(k, i)
    BY <1>1 DEF Points
  <2>2. PICK i \in 1..Len(body.code[k]) : p = At(k, i)
    BY <2>1
  <2>3. i \in Nat
    BY <1>1
  <2>4. p.block = k /\ p.index = i /\ p \in Spots
    BY <2>2, <2>3, AtIs
  <2> QED  BY <2>2, <2>4
<1> QED  BY <1>2, <1>3

\* Inside a block the next point follows, at its end the starts of the
\* successors an edge may be taken to.
LEMMA FollowIs ==
  ASSUME body \in Bodies, NEW order, NEW round, NEW k \in Block, NEW i \in Nat
  PROVE  /\ i < Len(body.code[k]) => Follow(body, order, round, At(k, i)) = {At(k, i + 1)}
         /\ ~(i < Len(body.code[k])) =>
              /\ \A m \in Follow(body, order, round, At(k, i)) :
                   \E j \in successors(body, k) : Edge(order, round, k, j) /\ m = At(j, 1)
              /\ \A j \in successors(body, k) :
                   Edge(order, round, k, j) => At(j, 1) \in Follow(body, order, round, At(k, i))
         /\ Follow(body, order, round, At(k, i)) \subseteq Points(body)
<1>1. At(k, i).block = k /\ At(k, i).index = i
  BY AtIs
<1>2. Len(body.code[k]) \in Nat \ {0}
  BY BodyFacts
<1>3. CASE i < Len(body.code[k])
  <2>1. Follow(body, order, round, At(k, i)) = {At(k, i + 1)}
    BY <1>1, <1>3 DEF Follow
  <2>2. At(k, i + 1) \in Points(body)
    BY <1>2, <1>3, PointIs
  <2> QED  BY <1>3, <2>1, <2>2
<1>4. CASE ~(i < Len(body.code[k]))
  <2>1. Follow(body, order, round, At(k, i)) =
          {At(j, 1) : j \in {m \in successors(body, k) : Edge(order, round, k, m)}}
    BY <1>1, <1>4 DEF Follow
  <2>2. ASSUME NEW j \in successors(body, k) PROVE At(j, 1) \in Points(body)
    <3>1. j \in Block
      BY SuccsAreBlocks
    <3>2. 1 \in 1..Len(body.code[j])
      BY <3>1, BodyFacts
    <3> QED  BY <3>1, <3>2, PointIs
  <2> QED  BY <1>4, <2>1, <2>2
<1> QED  BY <1>3, <1>4

LEMMA FollowWithin ==
  ASSUME body \in Bodies, NEW order, NEW round, NEW k \in Block, NEW i \in Nat,
         i < Len(body.code[k])
  PROVE  Follow(body, order, round, At(k, i)) = {At(k, i + 1)}
<1>1. At(k, i).block = k /\ At(k, i).index = i
  BY AtIs
<1> QED  BY <1>1 DEF Follow

LEMMA FollowOn ==
  ASSUME body \in Bodies, NEW order, NEW round, NEW k \in Block, NEW i \in Nat,
         ~(i < Len(body.code[k])), NEW m \in Follow(body, order, round, At(k, i))
  PROVE  \E j \in successors(body, k) : Edge(order, round, k, j) /\ m = At(j, 1)
<1>1. At(k, i).block = k /\ At(k, i).index = i
  BY AtIs
<1> QED  BY <1>1 DEF Follow

\* Looking back past points that do not stop it, the walk still leads to q.
LEMMA LeadingBack ==
  ASSUME body \in Bodies, NEW round, NEW l, NEW found, NEW q, NEW k \in Block, NEW i \in Nat,
         Leading(round, l, found, q, At(k, i)), NEW j \in 0..i,
         \A m \in (j + 1)..i : ~Stops(l, found, At(k, m))
  PROVE  Leading(round, l, found, q, At(k, j))
<1>1. i <= Len(body.code[k]) /\ Len(body.code[k]) \in Nat /\ j \in Nat
  BY AtIs, BodyFacts DEF Leading
<1>2. PICK w \in Follow(body, rpo, round, At(k, i)) : GoesTo(round, l, found, q, w)
  BY DEF Leading
<1>3. CASE j # i
  <2>1. j < Len(body.code[k])
    BY <1>1, <1>3
  <2>2. Follow(body, rpo, round, At(k, j)) = {At(k, j + 1)}
    BY <1>1, <2>1, FollowWithin
  <2>3. ASSUME NEW T \in SUBSET Points(body), At(k, j + 1) \in T,
               Shut(round, l, found, q, T), q \notin T
        PROVE  FALSE
    <3> DEFINE Bad == {m \in (j + 1)..i : At(k, m) \notin T}
    <3>1. Bad = {}
      <4>1. SUFFICES ASSUME Bad # {} PROVE FALSE
        OBVIOUS
      <4>2. PICK m \in Bad : \A n \in Bad : m <= n
        <5>1. Bad \in SUBSET Nat /\ Bad # {}
          BY <1>1, <4>1
        <5> HIDE DEF Bad
        <5> QED  BY <5>1, Least
      <4>3. m \in (j + 1)..i /\ At(k, m) \notin T /\ m # j + 1
        BY <2>3, <4>2
      <4>4. m - 1 \in (j + 1)..i /\ m - 1 \in Nat /\ ~(m <= m - 1) /\ (m - 1) + 1 = m
            /\ m - 1 < Len(body.code[k])
        BY <1>1, <4>3
      <4>5. At(k, m - 1) \in T
        BY <4>2, <4>4
      <4>6. ~Stops(l, found, At(k, m - 1)) /\ At(k, m - 1) # q
        BY <2>3, <4>4, <4>5
      <4>7. Follow(body, rpo, round, At(k, m - 1)) \subseteq T
        BY <2>3, <4>5, <4>6 DEF Shut
      <4>8. Follow(body, rpo, round, At(k, m - 1)) = {At(k, (m - 1) + 1)}
        BY <4>4, FollowWithin
      <4> QED  BY <4>3, <4>4, <4>7, <4>8
    <3>2. i \in (j + 1)..i
      BY <1>1, <1>3
    <3>3. At(k, i) \in T /\ At(k, i) # q /\ ~Stops(l, found, At(k, i))
      BY <2>3, <3>1, <3>2
    <3>4. w \in T
      BY <1>2, <2>3, <3>3 DEF Shut
    <3> QED  BY <1>2, <2>3, <3>4 DEF GoesTo
  <2>4. GoesTo(round, l, found, q, At(k, j + 1))
    BY <2>3 DEF GoesTo
  <2>5. At(k, j) \in Spots /\ At(k, j).index <= Len(body.code[At(k, j).block])
    BY <1>1, <2>1, AtIs
  <2> QED  BY <2>2, <2>4, <2>5 DEF Leading
<1> QED  BY <1>3

\* A walk back that has not ended keeps to what leads to q, and leaves out
\* nothing that it has looked at.
LEMMA FurtherKeeps ==
  ASSUME body \in Bodies, NEW l \in Local, Watched(tracked, l), NEW round, NEW found,
         NEW q \in Points(body), NEW s \in Fronts, s.stack # <<>>,
         OnlyLeading(round, l, found, q, s), AllLooked(round, l, found, q, s),
         \/ Scan(l, found)[Nearest(s)] = NoPoint
         \/ Scan(l, found)[Nearest(s)].index = 0,
         NEW t, t = Further(l, round, found, s)
  PROVE  OnlyLeading(round, l, found, q, t) /\ AllLooked(round, l, found, q, t)
<1> DEFINE f == Nearest(s)
           hit == Scan(l, found)[f]
           m == Len(s.stack)
<1>1. /\ m \in Nat \ {0} /\ f = s.stack[m] /\ f.block \in Block /\ f.index \in Nat
      /\ s.seen \in SUBSET Block /\ f \in Spots /\ f = At(f.block, f.index)
  BY FrontIs, AtIs
<1>0. PICK next : next = IF hit = NoPoint THEN NewPreds(round, s, f.block) ELSE {}
  OBVIOUS
<1>a. GoneOn(s, t, next)
  BY <1>0, FurtherIs
<1>2. /\ t \in Fronts /\ t.seen = s.seen \cup next /\ next \in SUBSET Block
      /\ \A i \in 1..(m - 1) : i \in 1..Len(t.stack) /\ t.stack[i] = s.stack[i]
      /\ \A i \in 1..Len(t.stack) :
           \/ i \in 1..(m - 1) /\ t.stack[i] = s.stack[i]
           \/ \E k \in next : t.stack[i] = BlockEnd(k)
      /\ \A k \in next : \E i \in 1..Len(t.stack) : t.stack[i] = BlockEnd(k)
  BY <1>a DEF GoneOn
<1>3. Leading(round, l, found, q, f)
  BY <1>1 DEF OnlyLeading
<1>4. \/ /\ hit = NoPoint
         /\ \A j \in 1..f.index : ~Stops(l, found, At(f.block, j))
      \/ \E j \in 1..f.index :
           /\ \A n \in (j + 1)..f.index : ~Stops(l, found, At(f.block, n))
           /\ \/ At(f.block, j) \in found /\ hit = At(f.block, j)
              \/ /\ At(f.block, j) \notin found /\ Stops(l, found, At(f.block, j))
                 /\ hit = At(f.block, 0)
  <2> HIDE DEF f, hit
  <2>1. hit = Scan(l, found)[At(f.block, f.index)]
    BY <1>1 DEF hit, f
  <2> QED  BY <1>1, <2>1, ScanIs
<1> HIDE DEF m, hit, f
<1>5. \A j \in 1..f.index : At(f.block, j) # NoPoint /\ At(f.block, j).index # 0
  BY AtIs DEF NoPoint
<1>6. At(f.block, 0) # NoPoint
  <2>1. f.block # 0
    BY <1>1, BlockAssumption
  <2> QED  BY <2>1, AtIs DEF NoPoint
<1>7. hit = NoPoint \/ hit.index = 0
  BY DEF hit, f
<1>8. CASE hit = NoPoint
  <2>1. \A j \in 1..f.index : ~Stops(l, found, At(f.block, j))
    BY <1>4, <1>5, <1>6, <1>8
  <2>2. next = NewPreds(round, s, f.block)
    BY <1>0, <1>8
  <2>3. Leading(round, l, found, q, At(f.block, 0))
    <3>1. 0 \in 0..f.index /\ \A j \in (0 + 1)..f.index : ~Stops(l, found, At(f.block, j))
      BY <1>1, <2>1
    <3> QED  BY <1>1, <1>3, <3>1, LeadingBack
  <2>4. GoesTo(round, l, found, q, At(f.block, 1))
    <3>1. 0 < Len(body.code[f.block]) /\ 0 + 1 = 1
      BY <1>1, BodyFacts
    <3>2. Follow(body, rpo, round, At(f.block, 0)) = {At(f.block, 0 + 1)}
      BY <1>1, <3>1, FollowWithin
    <3> QED  BY <2>3, <3>1, <3>2 DEF Leading
  <2>5. ASSUME NEW k \in next PROVE Leading(round, l, found, q, BlockEnd(k))
    <3>1. k \in Block /\ f.block \in successors(body, k) /\ Edge(rpo, round, k, f.block)
      BY <2>2, <2>5 DEF NewPreds, predecessors
    <3>2. Len(body.code[k]) \in Nat
      BY <3>1, BodyFacts
    <3>3. At(f.block, 1) \in Follow(body, rpo, round, BlockEnd(k))
      BY <3>1, <3>2, FollowIs DEF BlockEnd
    <3>4. BlockEnd(k) \in Spots /\ BlockEnd(k).index <= Len(body.code[BlockEnd(k).block])
      BY <3>1, <3>2, AtIs DEF BlockEnd
    <3> QED  BY <2>4, <3>3, <3>4 DEF Leading
  <2>6. OnlyLeading(round, l, found, q, t)
    <3> SUFFICES ASSUME NEW i \in 1..Len(t.stack) PROVE Leading(round, l, found, q, t.stack[i])
      BY DEF OnlyLeading
    <3>1. CASE i \in 1..(m - 1) /\ t.stack[i] = s.stack[i]
      <4>1. i \in 1..m
        BY <1>1, <3>1
      <4> QED  BY <3>1, <4>1 DEF OnlyLeading, m
    <3>2. CASE \E k \in next : t.stack[i] = BlockEnd(k)
      BY <2>5, <3>2
    <3> QED  BY <1>2, <3>1, <3>2
  <2>7. ASSUME NEW k \in Block, f.block \in successors(body, k), Edge(rpo, round, k, f.block)
        PROVE  k \in t.seen
    BY <1>2, <2>2, <2>7 DEF NewPreds, predecessors
  <2>8. Done(round, l, found, t.seen, f)
    BY <2>1, <2>7 DEF Done
  <2> HIDE DEF NewPreds
  <2>9. AllLooked(round, l, found, q, t)
    <3> SUFFICES ASSUME NEW g \in Looked(q, t.seen)
                 PROVE  \/ \E i \in 1..Len(t.stack) : t.stack[i] = g
                        \/ Done(round, l, found, t.seen, g)
      BY DEF AllLooked
    <3>1. CASE \E k \in next : g = BlockEnd(k)
      BY <1>2, <3>1
    <3>2. CASE g \in Looked(q, s.seen)
      <4>1. CASE Done(round, l, found, s.seen, g)
        <5>1. s.seen \subseteq t.seen
          BY <1>2
        <5> QED  BY <4>1, <5>1 DEF Done
      <4>2. CASE \E i \in 1..m : s.stack[i] = g
        <5>1. PICK i \in 1..m : s.stack[i] = g
          BY <4>2
        <5>2. CASE i = m
          BY <1>1, <2>8, <5>1, <5>2
        <5>3. CASE i # m
          <6>1. i \in 1..(m - 1)
            BY <1>1, <5>3
          <6> QED  BY <1>2, <5>1, <6>1
        <5> QED  BY <5>2, <5>3
      <4> QED  BY <3>2, <4>1, <4>2 DEF AllLooked, m
    <3>3. g \in Looked(q, s.seen) \/ \E k \in next : g = BlockEnd(k)
      BY <1>2 DEF Looked
    <3> QED  BY <3>1, <3>2, <3>3
  <2> QED  BY <2>6, <2>9
<1>9. CASE hit # NoPoint
  <2>1. hit.index = 0
    BY <1>7, <1>9
  <2>2. PICK j \in 1..f.index :
           /\ \A n \in (j + 1)..f.index : ~Stops(l, found, At(f.block, n))
           /\ At(f.block, j) \notin found /\ Stops(l, found, At(f.block, j))
    BY <1>4, <1>5, <1>9, <2>1
  <2>3. Done(round, l, found, s.seen, f)
    BY <2>2 DEF Done
  <2>4. next = {} /\ t.seen = s.seen
    <3>1. next = {}
      BY <1>0, <1>9
    <3> QED  BY <1>2, <3>1
  <2>5. OnlyLeading(round, l, found, q, t)
    <3> SUFFICES ASSUME NEW i \in 1..Len(t.stack) PROVE Leading(round, l, found, q, t.stack[i])
      BY DEF OnlyLeading
    <3>1. i \in 1..(m - 1) /\ t.stack[i] = s.stack[i]
      BY <1>2, <2>4
    <3>2. i \in 1..m
      BY <1>1, <3>1
    <3> QED  BY <3>1, <3>2 DEF OnlyLeading, m
  <2>6. AllLooked(round, l, found, q, t)
    <3> SUFFICES ASSUME NEW g \in Looked(q, s.seen)
                 PROVE  \/ \E i \in 1..Len(t.stack) : t.stack[i] = g
                        \/ Done(round, l, found, s.seen, g)
      BY <2>4 DEF AllLooked
    <3>1. CASE \E i \in 1..m : s.stack[i] = g
      <4>1. PICK i \in 1..m : s.stack[i] = g
        BY <3>1
      <4>2. CASE i = m
        BY <1>1, <2>3, <4>1, <4>2
      <4>3. CASE i # m
        <5>1. i \in 1..(m - 1)
          BY <1>1, <4>3
        <5> QED  BY <1>2, <4>1, <5>1
      <4> QED  BY <4>2, <4>3
    <3> QED  BY <3>1 DEF AllLooked, m
  <2> QED  BY <2>5, <2>6
<1> QED  BY <1>8, <1>9

\* So it starts.
LEMMA StartIs ==
  ASSUME body \in Bodies, NEW round, NEW l, NEW found, NEW q \in Points(body)
  PROVE  /\ Start(q) \in Fronts
         /\ OnlyLeading(round, l, found, q, Start(q))
         /\ AllLooked(round, l, found, q, Start(q))
<1> DEFINE s == Start(q)
           f == At(q.block, q.index - 1)
<1>1. q.block \in Block /\ q.index \in 1..Len(body.code[q.block]) /\ q = At(q.block, q.index)
  BY PointIs
<1>2. Len(body.code[q.block]) \in Nat
  BY <1>1, BodyFacts
<1>3. q.index - 1 \in Nat /\ q.index - 1 < Len(body.code[q.block]) /\ (q.index - 1) + 1 = q.index
  BY <1>1, <1>2
<1>4. f \in Spots /\ f.block = q.block /\ f.index = q.index - 1
  BY <1>1, <1>3, AtIs
<1>5. Follow(body, rpo, round, f) = {At(q.block, (q.index - 1) + 1)}
  BY <1>1, <1>3, FollowWithin
<1>6. Follow(body, rpo, round, f) = {q}
  BY <1>1, <1>3, <1>5
<1> HIDE DEF f
<1>7. s.seen = {} /\ s.stack = <<f>>
  BY DEF Start, f
<1>8. s \in Fronts /\ Len(s.stack) = 1 /\ s.stack[1] = f
  <2>1. <<f>> \in Seq(Spots)
    BY <1>4
  <2>2. s = [seen |-> {}, stack |-> <<f>>]
    BY DEF Start, f
  <2> HIDE DEF s
  <2> QED  BY <1>7, <2>1, <2>2 DEF Fronts
<1> HIDE DEF s
<1>9. GoesTo(round, l, found, q, q)
  BY DEF GoesTo
<1>10. Leading(round, l, found, q, f)
  BY <1>3, <1>4, <1>6, <1>9 DEF Leading
<1>11. OnlyLeading(round, l, found, q, s)
  BY <1>8, <1>10 DEF OnlyLeading
<1>12. AllLooked(round, l, found, q, s)
  <2>1. Looked(q, s.seen) = {f}
    BY <1>7 DEF Looked, f
  <2>2. 1 \in 1..Len(s.stack) /\ s.stack[1] = f
    BY <1>8
  <2> QED  BY <2>1, <2>2 DEF AllLooked
<1> QED  BY <1>8, <1>11, <1>12 DEF s

\* A walk back finds one of the points asked for, from which q is reached,
\* or it has looked at everything there is.
LEMMA WalkBackIs ==
  ASSUME body \in Bodies, NEW l \in Local, Watched(tracked, l), NEW round,
         NEW found \in SUBSET Points(body), NEW q \in Points(body)
  PROVE  \/ /\ walk_back(q, l, round, found) \in found
            /\ Leading(round, l, found, q, walk_back(q, l, round, found))
         \/ /\ walk_back(q, l, round, found) = NoPoint
            /\ \E seen \in SUBSET Block :
                 \A f \in Looked(q, seen) : Done(round, l, found, seen, f)
<1> DEFINE hit(s) == Scan(l, found)[Nearest(s)]
           stop == {s \in Fronts : s.stack = <<>> \/ (hit(s) # NoPoint /\ hit(s).index # 0)}
           nxt == [s \in Fronts |-> IF s \in stop THEN s ELSE Further(l, round, found, s)]
           res == [s \in Fronts |-> IF s.stack = <<>> THEN NoPoint ELSE hit(s)]
           Inv == {s \in Fronts : /\ OnlyLeading(round, l, found, q, s)
                                  /\ AllLooked(round, l, found, q, s)}
           big == [s \in Fronts |-> Size(s)]
           small == [s \in Fronts |-> 0]
           back == CHOOSE f : f = WalkRule(l, round, found, f)
<1>1. stop \subseteq Fronts /\ Inv \subseteq Fronts
  OBVIOUS
<1>2. ASSUME NEW s \in Fronts, s \notin stop
      PROVE  /\ s.stack # <<>> /\ nxt[s] = Further(l, round, found, s)
             /\ \E next : GoneOn(s, Further(l, round, found, s), next)
             /\ hit(s) = NoPoint \/ hit(s).index = 0
  <2>1. s.stack # <<>> /\ nxt[s] = Further(l, round, found, s)
        /\ (hit(s) = NoPoint \/ hit(s).index = 0)
    BY <1>2
  <2>2. PICK next : next = IF hit(s) = NoPoint THEN NewPreds(round, s, Nearest(s).block) ELSE {}
    OBVIOUS
  <2>3. GoneOn(s, Further(l, round, found, s), next)
    BY <2>1, <2>2, FurtherIs
  <2> QED  BY <2>1, <2>3
<1>3. nxt \in [Fronts -> Fronts]
  <2>1. \A s \in Fronts : s \notin stop => Further(l, round, found, s) \in Fronts
    <3> HIDE DEF stop, nxt, hit
    <3> QED  BY <1>2 DEF GoneOn
  <2> HIDE DEF stop
  <2> QED  BY <2>1
<1>4. ASSUME NEW g
      PROVE  WalkRule(l, round, found, g) = [s \in Fronts |-> IF s \in stop THEN res[s] ELSE g[nxt[s]]]
  <2>1. ASSUME NEW s \in Fronts
        PROVE  (IF s.stack = <<>> THEN NoPoint
                ELSE IF Scan(l, found)[Nearest(s)] # NoPoint /\ Scan(l, found)[Nearest(s)].index # 0
                  THEN Scan(l, found)[Nearest(s)]
                ELSE g[Further(l, round, found, s)]) = IF s \in stop THEN res[s] ELSE g[nxt[s]]
    OBVIOUS
  <2>2. WalkRule(l, round, found, g) =
           [s \in Fronts |->
              IF s.stack = <<>> THEN NoPoint
              ELSE IF Scan(l, found)[Nearest(s)] # NoPoint /\ Scan(l, found)[Nearest(s)].index # 0
                THEN Scan(l, found)[Nearest(s)]
              ELSE g[Further(l, round, found, s)]]
    BY WalkRuleIs
  <2> HIDE DEF stop, nxt, res
  <2> QED  BY <2>1, <2>2
<1>5. \E g : TailOf(Fronts, stop, nxt, res, g)
  <2> HIDE DEF stop, nxt, res
  <2> QED  BY <1>1, <1>3, TailRecursion
<1>6. TailOf(Fronts, stop, nxt, res, back)
  <2> HIDE DEF stop, nxt, res
  <2>1. \E g : g = WalkRule(l, round, found, g)
    BY <1>4, <1>5 DEF TailOf
  <2>2. back = WalkRule(l, round, found, back)
    BY <2>1
  <2> HIDE DEF back
  <2> QED  BY <1>4, <2>2 DEF TailOf
<1>7. Sinks(Inv, stop, nxt, big, small)
  <2>1. ASSUME NEW s \in Inv PROVE big[s] \in Nat /\ small[s] \in Nat
    <3>1. s \in Fronts /\ big[s] = Size(s) /\ small[s] = 0
      BY <1>1
    <3>2. Len(s.stack) \in Nat
      BY <3>1 DEF Fronts
    <3>3. Cardinality(Block \ s.seen) \in Nat
      BY BlockAssumption, FS_Subset, FS_CardinalityType
    <3> QED  BY <3>1, <3>2, <3>3 DEF Size
  <2>2. ASSUME NEW s \in Inv, s \notin stop
        PROVE  nxt[s] \in Inv /\ big[nxt[s]] < big[s]
    <3>1. PICK t : t = Further(l, round, found, s)
      OBVIOUS
    <3>2. /\ s \in Fronts /\ s.stack # <<>> /\ nxt[s] = t
          /\ Scan(l, found)[Nearest(s)] = NoPoint \/ Scan(l, found)[Nearest(s)].index = 0
          /\ t \in Fronts /\ Size(t) < Size(s)
      <4> HIDE DEF stop, nxt
      <4> QED  BY <1>1, <1>2, <2>2, <3>1 DEF GoneOn
    <3>3. OnlyLeading(round, l, found, q, s) /\ AllLooked(round, l, found, q, s)
      OBVIOUS
    <3>4. OnlyLeading(round, l, found, q, t) /\ AllLooked(round, l, found, q, t)
      <4> HIDE DEF stop, nxt, Inv
      <4> QED  BY <3>1, <3>2, <3>3, FurtherKeeps
    <3> HIDE DEF stop, nxt
    <3> QED  BY <3>2, <3>4
  <2> HIDE DEF Inv, stop, nxt, big, small
  <2> QED  BY <2>1, <2>2 DEF Sinks
<1>8. Start(q) \in Inv
  BY StartIs
<1>9. PICK t \in Inv : t \in stop /\ back[Start(q)] = res[t]
  <2> HIDE DEF Inv, stop, nxt, big, small, back, res
  <2> QED  BY <1>1, <1>6, <1>7, <1>8, TailEnds
<1>10. walk_back(q, l, round, found) = back[Start(q)]
  BY WalkBackUnfolds
<1>11. /\ t \in Fronts /\ OnlyLeading(round, l, found, q, t) /\ AllLooked(round, l, found, q, t)
       /\ t.stack = <<>> \/ (hit(t) # NoPoint /\ hit(t).index # 0)
       /\ walk_back(q, l, round, found) = IF t.stack = <<>> THEN NoPoint ELSE hit(t)
  <2> HIDE DEF back
  <2> QED  BY <1>9, <1>10
<1> HIDE DEF back, Inv, stop, nxt, res, big, small, hit
<1>12. CASE t.stack = <<>>
  <2>1. t.seen \in SUBSET Block /\ Len(t.stack) = 0
    BY <1>11, <1>12 DEF Fronts
  <2>2. \A f \in Looked(q, t.seen) : Done(round, l, found, t.seen, f)
    BY <1>11, <2>1 DEF AllLooked
  <2> QED  BY <1>11, <1>12, <2>1, <2>2
<1>13. CASE t.stack # <<>>
  <2> DEFINE f == Nearest(t)
             k == f.block
             i == f.index
  <2>1. /\ Len(t.stack) \in Nat \ {0} /\ f = t.stack[Len(t.stack)]
        /\ k \in Block /\ i \in Nat /\ f = At(k, i)
    BY <1>11, <1>13, FrontIs, AtIs
  <2>2. Leading(round, l, found, q, f)
    BY <1>11, <2>1 DEF OnlyLeading
  <2>3. hit(t) = Scan(l, found)[f] /\ hit(t) # NoPoint /\ hit(t).index # 0
    BY <1>11, <1>13 DEF hit
  <2> HIDE DEF f, k, i
  <2>4. At(k, 0).index = 0
    BY AtIs
  <2>5. PICK j \in 1..i : /\ \A m \in (j + 1)..i : ~Stops(l, found, At(k, m))
                          /\ At(k, j) \in found /\ hit(t) = At(k, j)
    BY <2>1, <2>3, <2>4, ScanIs
  <2>6. Leading(round, l, found, q, At(k, j))
    <3>1. j \in 0..i
      BY <2>1
    <3> QED  BY <2>1, <2>2, <2>5, <3>1, LeadingBack
  <2> QED  BY <1>11, <1>13, <2>5, <2>6
<1> QED  BY <1>12, <1>13

\* T has what comes after a point of F, and after a point of T that does not
\* end l.
Carried(b, tr, order, round, l, F, T) ==
  \A n \in Points(b) :
    n \in F \/ (n \in T /\ ~Ends(tr, InstrAt(b, n), l)) => Follow(b, order, round, n) \subseteq T

\* Where a walk back finds nothing, nothing is carried from what it looks for.
LEMMA NothingBack ==
  ASSUME body \in Bodies, NEW l \in Local, Watched(tracked, l), NEW round,
         NEW found \in SUBSET Points(body), NEW q \in Points(body),
         walk_back(q, l, round, found) = NoPoint
  PROVE  \E T \in SUBSET Points(body) : q \notin T /\ Carried(body, tracked, rpo, round, l, found, T)
<1>1. PICK seen \in SUBSET Block : \A f \in Looked(q, seen) : Done(round, l, found, seen, f)
  <2>1. NoPoint \notin found
    <3>1. \A p \in found : p.block \in Nat \ {0}
      BY PointIs, BlockAssumption
    <3>2. NoPoint.block = 0
      BY AtIs DEF NoPoint
    <3> QED  BY <3>1, <3>2
  <2> QED  BY <2>1, WalkBackIs
<1> DEFINE OnTheWay(f) == {n \in Points(body) :
                             /\ n.block = f.block /\ n.index <= f.index
                             /\ \A m \in (n.index + 1)..f.index : ~Stops(l, found, At(f.block, m))}
           V == UNION {OnTheWay(f) : f \in Looked(q, seen)}
           In(n) == n = q \/ (n \in V /\ ~Ends(tracked, InstrAt(body, n), l))
           T == {n \in Points(body) : ~In(n)}
<1>2. \A n \in Points(body) : /\ n.block \in Block /\ n.index \in Nat /\ n.index # 0
                              /\ n.index <= Len(body.code[n.block]) /\ n = At(n.block, n.index)
                              /\ Len(body.code[n.block]) \in Nat
  <2> SUFFICES ASSUME NEW n \in Points(body)
               PROVE  /\ n.block \in Block /\ n.index \in Nat /\ n.index # 0
                      /\ n.index <= Len(body.code[n.block]) /\ n = At(n.block, n.index)
                      /\ Len(body.code[n.block]) \in Nat
    OBVIOUS
  <2>1. n.block \in Block /\ n.index \in 1..Len(body.code[n.block]) /\ n = At(n.block, n.index)
    BY PointIs
  <2>2. Len(body.code[n.block]) \in Nat
    BY <2>1, BodyFacts
  <2> QED  BY <2>1, <2>2
<1>3. \A f \in Looked(q, seen) : f.block \in Block /\ f.index \in Nat
  <2> SUFFICES ASSUME NEW f \in Looked(q, seen) PROVE f.block \in Block /\ f.index \in Nat
    OBVIOUS
  <2>1. CASE f = At(q.block, q.index - 1)
    <3>1. q.block \in Block /\ q.index - 1 \in Nat
      BY <1>2
    <3> QED  BY <2>1, <3>1, AtIs
  <2>2. CASE \E k \in seen : f = BlockEnd(k)
    BY <2>2, AtIs, BodyFacts DEF BlockEnd
  <2> QED  BY <2>1, <2>2 DEF Looked
<1>4. ASSUME NEW n \in V PROVE n \notin found
  <2>1. PICK f \in Looked(q, seen) : n \in OnTheWay(f)
    OBVIOUS
  <2>2. /\ n \in Points(body) /\ n.block = f.block /\ n.index <= f.index
        /\ \A m \in (n.index + 1)..f.index : ~Stops(l, found, At(f.block, m))
    BY <2>1
  <2>3. n.index \in 1..f.index /\ n = At(f.block, n.index) /\ n.index \in Nat /\ f.index \in Nat
    BY <1>2, <1>3, <2>2
  <2> SUFFICES ASSUME n \in found PROVE FALSE
    OBVIOUS
  <2>4. Stops(l, found, At(f.block, n.index))
    BY <2>3 DEF Stops
  <2>5. PICK j \in 1..f.index :
          /\ \A m \in (j + 1)..f.index : ~Stops(l, found, At(f.block, m))
          /\ Stops(l, found, At(f.block, j)) /\ At(f.block, j) \notin found
    BY <1>1, <2>3, <2>4 DEF Done
  <2>6. ~(n.index > j)
    BY <2>3, <2>4, <2>5
  <2>7. ~(n.index < j)
    BY <2>2, <2>3, <2>5
  <2>8. n.index = j
    BY <2>3, <2>6, <2>7
  <2> QED  BY <2>3, <2>5, <2>8
<1>5. ASSUME NEW n \in Points(body), NEW m \in Follow(body, rpo, round, n), In(m), m \in Points(body)
      PROVE  n \in V
  <2> DEFINE k == n.block
             i == n.index
  <2>1. k \in Block /\ i \in Nat /\ i # 0 /\ i <= Len(body.code[k]) /\ n = At(k, i) /\ Len(body.code[k]) \in Nat
    BY <1>2
  <2>2. m # q => m \notin found /\ ~Stops(l, found, m) /\ m \in V
    BY <1>4, <1>5 DEF Stops
  <2>3. m.block \in Block /\ m.index \in Nat /\ m = At(m.block, m.index)
    BY <1>2, <1>5
  <2>4. \E f \in Looked(q, seen) :
          /\ f.block = m.block /\ m.index <= f.index + 1
          /\ \A j \in m.index..f.index : ~Stops(l, found, At(f.block, j))
    <3>1. CASE m = q
      <4> DEFINE f == At(q.block, q.index - 1)
      <4>1. f \in Looked(q, seen)
        BY DEF Looked
      <4>2. f.block = m.block /\ f.index = m.index - 1
        BY <3>1, AtIs
      <4> HIDE DEF f
      <4>3. m.index <= f.index + 1 /\ \A j \in m.index..f.index : ~Stops(l, found, At(f.block, j))
        BY <2>3, <4>2
      <4> QED  BY <4>1, <4>2, <4>3
    <3>2. CASE m # q
      <4>1. PICK f \in Looked(q, seen) : m \in OnTheWay(f)
        BY <2>2, <3>2
      <4>2. /\ m.block = f.block /\ m.index <= f.index /\ f.index \in Nat
            /\ \A j \in (m.index + 1)..f.index : ~Stops(l, found, At(f.block, j))
        BY <1>3, <4>1
      <4>3. ~Stops(l, found, At(f.block, m.index))
        BY <2>2, <2>3, <3>2, <4>2
      <4>4. ASSUME NEW j \in m.index..f.index PROVE ~Stops(l, found, At(f.block, j))
        <5>1. j = m.index \/ j \in (m.index + 1)..f.index
          BY <2>3, <4>2
        <5> QED  BY <4>2, <4>3, <5>1
      <4>5. m.index <= f.index + 1
        BY <2>3, <4>2
      <4> QED  BY <4>2, <4>4, <4>5
    <3> QED  BY <3>1, <3>2
  <2>5. PICK f \in Looked(q, seen) :
          /\ f.block = m.block /\ m.index <= f.index + 1
          /\ \A j \in m.index..f.index : ~Stops(l, found, At(f.block, j))
    BY <2>4
  <2>6. CASE i < Len(body.code[k])
    <3>1. Follow(body, rpo, round, At(k, i)) = {At(k, i + 1)}
      BY <2>1, <2>6, FollowWithin
    <3>2. m = At(k, i + 1)
      BY <2>1, <3>1
    <3>3. m.block = k /\ m.index = i + 1
      BY <3>2, AtIs
    <3>4. i <= f.index
      BY <1>3, <2>1, <2>5, <3>3
    <3>5. n \in OnTheWay(f)
      BY <2>1, <2>5, <3>3, <3>4
    <3> HIDE DEF OnTheWay
    <3> QED  BY <3>5
  <2>7. CASE ~(i < Len(body.code[k]))
    <3>1. PICK j \in successors(body, k) : Edge(rpo, round, k, j) /\ m = At(j, 1)
      <4>1. m \in Follow(body, rpo, round, At(k, i))
        BY <2>1
      <4> QED  BY <2>1, <2>7, <4>1, FollowOn
    <3>2. m.block = j /\ m.index = 1
      BY <3>1, AtIs
    <3>3. \A x \in 1..f.index : ~Stops(l, found, At(f.block, x))
      BY <2>5, <3>2
    <3>4. k \in seen
      <4>1. Done(round, l, found, seen, f)
        BY <1>1
      <4>2. f.block = j
        BY <2>5, <3>2
      <4> QED  BY <2>1, <3>1, <3>3, <4>1, <4>2 DEF Done
    <3>5. i = Len(body.code[k])
      BY <2>1, <2>7
    <3>6. n = BlockEnd(k) /\ BlockEnd(k) \in Looked(q, seen)
      BY <2>1, <3>4, <3>5 DEF BlockEnd, Looked
    <3>7. \A x \in (i + 1)..i : FALSE
      BY <2>1
    <3>8. n \in OnTheWay(n)
      BY <2>1, <3>7
    <3> HIDE DEF OnTheWay
    <3> QED  BY <3>6, <3>8
  <2> QED  BY <2>6, <2>7
<1>6. Carried(body, tracked, rpo, round, l, found, T)
  <2> SUFFICES ASSUME NEW n \in Points(body),
                      n \in found \/ (n \in T /\ ~Ends(tracked, InstrAt(body, n), l)),
                      NEW m \in Follow(body, rpo, round, n), m \notin T
               PROVE  FALSE
    BY DEF Carried
  <2>1. m \in Points(body)
    <3>1. n = At(n.block, n.index) /\ n.block \in Block /\ n.index \in Nat
      BY <1>2
    <3>2. Follow(body, rpo, round, At(n.block, n.index)) \subseteq Points(body)
      BY <3>1, FollowIs
    <3> QED  BY <3>1, <3>2
  <2>2. In(m)
    BY <2>1
  <2> HIDE DEF V
  <2>3. n \in V
    <3> HIDE DEF In
    <3> QED  BY <1>5, <2>1, <2>2
  <2> QED  BY <1>4, <2>3
<1> QED  BY <1>6
-----------------------------------------------------------------------------
(* LeadsTo, and what the walk back found in its terms.                      *)

\* The points are finitely many.
LEMMA PointsFinite ==
  ASSUME body \in Bodies
  PROVE  IsFiniteSet(Points(body))
<1> DEFINE Of(k) == {At(k, i) : i \in DOMAIN body.code[k]}
           All == {Of(k) : k \in Block}
           f == [k \in Block |-> Of(k)]
<1>1. ASSUME NEW k \in Block PROVE IsFiniteSet(Of(k))
  <2> DEFINE n == Len(body.code[k])
             g == [i \in 1..n |-> At(k, i)]
  <2>1. n \in Nat /\ DOMAIN body.code[k] = 1..n
    BY BodyFacts
  <2>2. IsFiniteSet(1..n)
    BY <2>1, FS_Interval
  <2> HIDE DEF n
  <2>3. g \in Surjection(1..n, Of(k))
    BY <2>1 DEF Surjection
  <2> HIDE DEF g, Of
  <2> QED  BY <2>2, <2>3, FS_Surjection
<1>2. f \in Surjection(Block, All)
  BY DEF Surjection
<1>3. IsFiniteSet(All)
  <2> HIDE DEF f, All
  <2> QED  BY <1>2, BlockAssumption, FS_Surjection
<1>4. \A T \in All : IsFiniteSet(T)
  BY <1>1
<1>5. Points(body) = UNION All
  BY DEF Points
<1> HIDE DEF All
<1> QED  BY <1>3, <1>4, <1>5, FS_UNION

\* LeadsTo's own account of what comes after a point.
Allows(order, round, k, j) == round \/ ({k, j} \subseteq DOMAIN order /\ order[k] < order[j])
Along(b, order, round, n) ==
  IF n.index < Len(b.code[n.block]) THEN {At(n.block, n.index + 1)}
  ELSE {At(k, 1) : k \in {j \in successors(b, n.block) : Allows(order, round, n.block, j)}}

\* Nothing leads out of T but from q and from points that end l.
Held(b, order, round, l, q, T) ==
  \A m \in T : m # q /\ Untouched(InstrAt(b, m), l) => Along(b, order, round, m) \subseteq T

\* Every way on from p, l untouched, comes to q.
Leads(b, order, round, l, p, q) ==
  \A T \in SUBSET Points(b) :
    Along(b, order, round, p) \subseteq T /\ Held(b, order, round, l, q, T) => q \in T

\* LeadsTo lets a set grow: one step of that.
Spread(round, l, q, s) ==
  s \cup UNION {Along(body, rpo, round, n) : n \in {m \in s : m # q /\ Untouched(InstrAt(body, m), l)}}

ReachRule(round, l, q, f) ==
  [s \in SUBSET Points(body) |->
     LET next == s \cup UNION {IF n.index < Len(body.code[n.block]) THEN {At(n.block, n.index + 1)}
                  ELSE {At(k, 1) : k \in {j \in successors(body, n.block) :
                                            round \/ Forward(n.block, j)}} : n \in {m \in s :
                                     m # q /\ Untouched(InstrAt(body, m), l)}}
     IN  IF next = s THEN s ELSE f[next]]

LEMMA LeadsToUnfolds ==
  ASSUME NEW p, NEW q, NEW l, NEW round
  PROVE  LeadsTo(p, q, l, round) <=>
           q \in (CHOOSE f : f = ReachRule(round, l, q, f))[Along(body, rpo, round, p)]
<1>1. \A n : Along(body, rpo, round, n) =
        IF n.index < Len(body.code[n.block]) THEN {At(n.block, n.index + 1)}
        ELSE {At(k, 1) : k \in {j \in successors(body, n.block) : round \/ Forward(n.block, j)}}
  BY Zenon DEF Along, Allows, Forward
<1>2. LeadsTo(p, q, l, round) <=>
        q \in (CHOOSE f : f = ReachRule(round, l, q, f))
                [IF p.index < Len(body.code[p.block]) THEN {At(p.block, p.index + 1)}
                 ELSE {At(k, 1) : k \in {j \in successors(body, p.block) : round \/ Forward(p.block, j)}}]
  BY Zenon DEF LeadsTo, ReachRule
<1> QED  BY <1>1, <1>2, Zenon

LEMMA ReachRuleIs ==
  ASSUME NEW q, NEW l, NEW round, NEW f
  PROVE  ReachRule(round, l, q, f) =
           [s \in SUBSET Points(body) |->
              IF Spread(round, l, q, s) = s THEN s ELSE f[Spread(round, l, q, s)]]
<1>1. \A n : Along(body, rpo, round, n) =
        IF n.index < Len(body.code[n.block]) THEN {At(n.block, n.index + 1)}
        ELSE {At(k, 1) : k \in {j \in successors(body, n.block) : round \/ Forward(n.block, j)}}
  BY Zenon DEF Along, Allows, Forward
<1>2. \A s : Spread(round, l, q, s) =
        s \cup UNION {IF n.index < Len(body.code[n.block]) THEN {At(n.block, n.index + 1)}
                  ELSE {At(k, 1) : k \in {j \in successors(body, n.block) :
                                            round \/ Forward(n.block, j)}} : n \in {m \in s :
                                     m # q /\ Untouched(InstrAt(body, m), l)}}
  BY <1>1 DEF Spread
<1> QED  BY <1>2, Zenon DEF ReachRule

\* What comes after a point is a point.
LEMMA AlongType ==
  ASSUME body \in Bodies, NEW order, NEW round, NEW n \in Points(body)
  PROVE  Along(body, order, round, n) \subseteq Points(body)
<1> DEFINE k == n.block
           i == n.index
<1>1. k \in Block /\ i \in 1..Len(body.code[k]) /\ Len(body.code[k]) \in Nat
  BY PointIs, BodyFacts
<1>2. CASE i < Len(body.code[k])
  <2>1. Along(body, order, round, n) = {At(k, i + 1)}
    BY <1>2 DEF Along
  <2>2. At(k, i + 1) \in Points(body)
    BY <1>1, <1>2, PointIs
  <2> QED  BY <2>1, <2>2
<1>3. CASE ~(i < Len(body.code[k]))
  <2>1. Along(body, order, round, n) =
          {At(j, 1) : j \in {m \in successors(body, k) : Allows(order, round, k, m)}}
    BY <1>3 DEF Along
  <2>2. ASSUME NEW j \in successors(body, k) PROVE At(j, 1) \in Points(body)
    <3>1. j \in Block
      BY <1>1, SuccsAreBlocks
    <3>2. 1 \in 1..Len(body.code[j])
      BY <3>1, BodyFacts
    <3> QED  BY <3>1, <3>2, PointIs
  <2> QED  BY <2>1, <2>2
<1> QED  BY <1>2, <1>3

\* LeadsTo, which lets a set of points grow until it is closed, is
\* membership in every closed set.
LEMMA LeadsToIs ==
  ASSUME body \in Bodies, NEW p \in Points(body), NEW q \in Points(body), NEW l, NEW round
  PROVE  LeadsTo(p, q, l, round) <=> Leads(body, rpo, round, l, p, q)
<1> DEFINE D == SUBSET Points(body)
           spread(s) == Spread(round, l, q, s)
           start == Along(body, rpo, round, p)
           stop == {s \in D : spread(s) = s}
           nxt == [s \in D |-> spread(s)]
           res == [s \in D |-> s]
           Inv == {s \in D : /\ start \subseteq s
                             /\ \A T \in D : start \subseteq T /\ Held(body, rpo, round, l, q, T)
                                  => s \subseteq T}
           big == [s \in D |-> Cardinality(Points(body) \ s)]
           small == [s \in D |-> 0]
           reach == CHOOSE f : f = ReachRule(round, l, q, f)
<1>1. stop \subseteq D /\ Inv \subseteq D /\ start \in D
  BY AlongType
<1>2. ASSUME NEW s \in D PROVE spread(s) \in D /\ s \subseteq spread(s)
  BY AlongType DEF Spread
<1>3. nxt \in [D -> D]
  BY <1>2
<1>4. ASSUME NEW g
      PROVE  ReachRule(round, l, q, g) = [s \in D |-> IF s \in stop THEN res[s] ELSE g[nxt[s]]]
  <2>1. ASSUME NEW s \in D
        PROVE  (IF spread(s) = s THEN s ELSE g[spread(s)]) = IF s \in stop THEN res[s] ELSE g[nxt[s]]
    OBVIOUS
  <2>2. ReachRule(round, l, q, g) = [s \in D |-> IF spread(s) = s THEN s ELSE g[spread(s)]]
    BY ReachRuleIs
  <2> HIDE DEF stop, nxt, res, D
  <2> QED  BY <2>1, <2>2
<1>5. \E g : TailOf(D, stop, nxt, res, g)
  <2> HIDE DEF stop, nxt, res, D
  <2> QED  BY <1>1, <1>3, TailRecursion
<1>6. TailOf(D, stop, nxt, res, reach)
  <2> HIDE DEF stop, nxt, res, D
  <2>1. \E g : g = ReachRule(round, l, q, g)
    BY <1>4, <1>5 DEF TailOf
  <2>2. reach = ReachRule(round, l, q, reach)
    BY <2>1
  <2> HIDE DEF reach
  <2> QED  BY <1>4, <2>2 DEF TailOf
<1>7. ASSUME NEW s \in D
      PROVE  /\ Cardinality(Points(body) \ s) \in Nat
             /\ \A t \in D : s \subseteq t /\ s # t =>
                  Cardinality(Points(body) \ t) < Cardinality(Points(body) \ s)
  <2>1. IsFiniteSet(Points(body) \ s)
    BY PointsFinite, FS_Subset
  <2>2. Cardinality(Points(body) \ s) \in Nat
    BY <2>1, FS_CardinalityType
  <2>3. ASSUME NEW t \in D, s \subseteq t, s # t
        PROVE  Cardinality(Points(body) \ t) < Cardinality(Points(body) \ s)
    <3>1. Points(body) \ t \in SUBSET (Points(body) \ s) /\ Points(body) \ t # Points(body) \ s
      BY <2>3
    <3>2. /\ IsFiniteSet(Points(body) \ t)
          /\ Cardinality(Points(body) \ t) <= Cardinality(Points(body) \ s)
          /\ Cardinality(Points(body) \ t) # Cardinality(Points(body) \ s)
      BY <2>1, <3>1, FS_Subset
    <3>3. Cardinality(Points(body) \ t) \in Nat
      BY <3>2, FS_CardinalityType
    <3> QED  BY <2>2, <3>2, <3>3
  <2> QED  BY <2>2, <2>3
<1>8. Sinks(Inv, stop, nxt, big, small)
  <2>1. ASSUME NEW s \in Inv PROVE big[s] \in Nat /\ small[s] \in Nat
    BY <1>7
  <2>2. ASSUME NEW s \in Inv, s \notin stop
        PROVE  nxt[s] \in Inv /\ big[nxt[s]] < big[s]
    <3>1. /\ s \in D /\ nxt[s] = spread(s) /\ spread(s) # s /\ spread(s) \in D /\ s \subseteq spread(s)
          /\ start \subseteq s
      BY <1>2, <2>2
    <3>2. ASSUME NEW T \in D, start \subseteq T, Held(body, rpo, round, l, q, T)
          PROVE  spread(s) \subseteq T
      <4>1. s \subseteq T
        BY <3>2
      <4> QED  BY <3>2, <4>1 DEF Spread, Held
    <3> HIDE DEF spread, nxt, stop, start
    <3>3. spread(s) \in Inv
      BY <3>1, <3>2
    <3>4. big[spread(s)] < big[s]
      BY <1>7, <3>1
    <3> QED  BY <3>1, <3>3, <3>4
  <2> HIDE DEF Inv, stop, nxt, big, small
  <2> QED  BY <2>1, <2>2 DEF Sinks
<1>9. start \in Inv
  BY <1>1
<1>10. PICK R \in Inv : R \in stop /\ reach[start] = res[R]
  <2> HIDE DEF Inv, stop, nxt, big, small, reach, res, D, start
  <2> QED  BY <1>1, <1>6, <1>8, <1>9, TailEnds
<1>11. reach[start] = R /\ R \in D /\ spread(R) = R /\ start \subseteq R
       /\ \A T \in D : start \subseteq T /\ Held(body, rpo, round, l, q, T) => R \subseteq T
  <2> HIDE DEF reach, start, spread
  <2> QED  BY <1>10
<1>12. LeadsTo(p, q, l, round) <=> q \in R
  <2> HIDE DEF reach
  <2>1. LeadsTo(p, q, l, round) <=> q \in reach[start]
    BY LeadsToUnfolds DEF reach
  <2> QED  BY <1>11, <2>1
<1>13. Held(body, rpo, round, l, q, R)
  BY <1>11 DEF Held, Spread
<1> HIDE DEF reach, stop, nxt, res, Inv, big, small, spread
<1> QED  BY <1>11, <1>12, <1>13 DEF Leads

\* What the walk back finds does lead to where it starts.
LEMMA LeadingLeads ==
  ASSUME body \in Bodies, NEW l \in Local, tracked[l] \in Bindings, NEW round, NEW found,
         NEW q \in Points(body), NEW p, Leading(round, l, found, q, p)
  PROVE  Leads(body, rpo, round, l, p, q)
<1>1. \A n : Follow(body, rpo, round, n) \subseteq Along(body, rpo, round, n)
  BY DEF Follow, Along, Edge, Allows
<1>2. PICK m \in Follow(body, rpo, round, p) : GoesTo(round, l, found, q, m)
  BY DEF Leading
<1> SUFFICES ASSUME NEW T \in SUBSET Points(body), Along(body, rpo, round, p) \subseteq T,
                    Held(body, rpo, round, l, q, T)
             PROVE  q \in T
  BY DEF Leads
<1>3. m \in T
  BY <1>1, <1>2
<1>4. Shut(round, l, found, q, T)
  BY <1>1 DEF Shut, Held, Stops, Ends, Untouched
<1> QED  BY <1>2, <1>3, <1>4 DEF GoesTo

\* Forward, nothing taken leads where the walk back finds nothing.
LEMMA NothingLeads ==
  ASSUME body \in Bodies, tracked = Kinds(body), NEW l \in Local, tracked[l] \in Bindings,
         NEW found, found = {p \in Points(body) : Takes(tracked, InstrAt(body, p), l)},
         NEW q \in Points(body), walk_back(q, l, FALSE, found) = NoPoint,
         NEW p \in Points(body), GivenIn(body, InstrAt(body, p), l), Untouched(InstrAt(body, p), l)
  PROVE  ~Leads(body, rpo, FALSE, l, p, q)
<1>1. Watched(tracked, l) /\ found \in SUBSET Points(body)
  BY DEF Watched
<1>2. PICK T \in SUBSET Points(body) :
         q \notin T /\ Carried(body, tracked, rpo, FALSE, l, found, T)
  BY <1>1, NothingBack
<1>3. \A n : Along(body, rpo, FALSE, n) = Follow(body, rpo, FALSE, n)
  BY DEF Follow, Along, Edge, Allows
<1>4. ASSUME NEW n \in Points(body), Untouched(InstrAt(body, n), l)
      PROVE  ~Ends(tracked, InstrAt(body, n), l)
  BY <1>4 DEF Ends, Untouched
<1>5. Held(body, rpo, FALSE, l, q, T)
  BY <1>2, <1>3, <1>4 DEF Held, Carried
<1>6. TakenOf(tracked, InstrAt(body, p).reads, l)
  BY TakenIsGiven DEF GivenIn, Given
<1>7. p \in found
  BY <1>4, <1>6 DEF Takes
<1>8. Along(body, rpo, FALSE, p) \subseteq T
  BY <1>2, <1>3, <1>7 DEF Carried
<1> QED  BY <1>2, <1>5, <1>8 DEF Leads

\* Where a content of l comes from, other than the body's own start.
Sources(b, tr, l, c) ==
  {p \in Points(b) : IF c = "moved" THEN Takes(tr, InstrAt(b, p), l) ELSE IsDef(InstrAt(b, p), l)}

\* The contents the walks back look for: a binding's "moved", and a
\* temporary's "value".
Sought(tr, l, c) ==
  \/ c = "moved" /\ tr[l] \in Bindings
  \/ c = "value" /\ tr[l] = "temporary"

\* A parameter's value, still in the block it is destructured by.
Handed(b, tr, l, c, k, i) ==
  /\ c = "value" /\ l \in b.params /\ k = b.entry
  /\ \A j \in 1..(i - 1) : ~TakenOf(tr, b.code[k][j].reads, l)

\* c is carried to the i-th point of k, by the edges of the blocks ordered.
Brought(b, tr, order, l, c, k, i) ==
  \/ \A T \in SUBSET Points(b) :
       Carried(b, tr, order, TRUE, l, Sources(b, tr, l, c), T) => At(k, i) \in T
  \/ Handed(b, tr, l, c, k, i)

\* What BlameIsARealMove says of a diagnostic, by the sets closed under the
\* ways on.
RealMove(b, tr, order, d) ==
  d.kind = "AlreadyConsumed" =>
    /\ d.local \in Local /\ tr[d.local] \in Bindings
    /\ d.at \in Points(b) /\ d.site \in Points(b)
    /\ GivenIn(b, InstrAt(b, d.site), d.local)
    /\ d.site # d.at => Leads(b, order, d.round, d.local, d.site, d.at)
    /\ d.round => \A p \in Points(b) :
                    GivenIn(b, InstrAt(b, p), d.local) /\ Untouched(InstrAt(b, p), d.local)
                      => ~Leads(b, order, FALSE, d.local, p, d.at)

\* A report of a move that is brought to where the value is missed names a
\* real one: round a loop only if nothing taken leads there without.
LEMMA FoundMoveIsReal ==
  ASSUME body \in Bodies, tracked = Kinds(body), NEW l \in Local, tracked[l] \in Bindings,
         NEW k \in Block, NEW i \in 1..Len(body.code[k]),
         Brought(body, tracked, rpo, l, "moved", k, i),
         NEW d, d = Diag("AlreadyConsumed", At(k, i), l,
                         find_move(At(k, i), l).site, find_move(At(k, i), l).round)
  PROVE  RealMove(body, tracked, rpo, d)
<1> DEFINE q == At(k, i)
           found == {p \in Points(body) : Takes(tracked, InstrAt(body, p), l)}
           forward == walk_back(q, l, FALSE, found)
           around == walk_back(q, l, TRUE, found)
<1>1. q \in Points(body) /\ Watched(tracked, l) /\ found \in SUBSET Points(body)
  BY PointIs DEF Watched
<1>2. find_move(q, l) = IF forward # NoPoint THEN [site |-> forward, round |-> FALSE]
                        ELSE [site |-> around, round |-> TRUE]
  <2>1. {p \in Points(body) : effect(InstrAt(body, p), l) = "takes"} = found
    BY <1>1, EffectIs
  <2> HIDE DEF q, found
  <2>2. find_move(q, l) = FindBack(q, l, found)
    BY <2>1 DEF find_move
  <2> QED  BY <2>2 DEF FindBack, forward, around
<1>3. ASSUME NEW p \in found PROVE p \in Points(body) /\ GivenIn(body, InstrAt(body, p), l)
  BY TakenIsGiven DEF Takes, GivenIn, Given
<1>4. Sources(body, tracked, l, "moved") = found
  BY DEF Sources
<1>5. \A T \in SUBSET Points(body) : Carried(body, tracked, rpo, TRUE, l, found, T) => q \in T
  BY <1>4 DEF Brought, Handed
<1>6. around # NoPoint
  <2>1. SUFFICES ASSUME around = NoPoint PROVE FALSE
    OBVIOUS
  <2>2. PICK T \in SUBSET Points(body) :
           q \notin T /\ Carried(body, tracked, rpo, TRUE, l, found, T)
    <3> HIDE DEF q, found
    <3> QED  BY <1>1, <2>1, NothingBack DEF around
  <2> QED  BY <1>5, <2>2
<1>7. ASSUME NEW round, walk_back(q, l, round, found) # NoPoint
      PROVE  /\ walk_back(q, l, round, found) \in found
             /\ Leads(body, rpo, round, l, walk_back(q, l, round, found), q)
  <2> HIDE DEF q, found
  <2>1. /\ walk_back(q, l, round, found) \in found
        /\ Leading(round, l, found, q, walk_back(q, l, round, found))
    BY <1>1, <1>7, WalkBackIs
  <2> QED  BY <1>1, <2>1, LeadingLeads
<1>8. /\ d.kind = "AlreadyConsumed" /\ d.at = q /\ d.local = l
      /\ d.site = find_move(q, l).site /\ d.round = find_move(q, l).round
  BY DEF Diag
<1> HIDE DEF q
<1>9. CASE forward # NoPoint
  <2>1. d.site = forward /\ d.round = FALSE
    <3>1. find_move(q, l) = [site |-> forward, round |-> FALSE]
      BY <1>2, <1>9
    <3> HIDE DEF forward, around
    <3>2. find_move(q, l).site = forward /\ find_move(q, l).round = FALSE
      BY <3>1
    <3> QED  BY <1>8, <3>2
  <2>2. forward \in found /\ Leads(body, rpo, FALSE, l, forward, q)
    BY <1>7, <1>9
  <2> HIDE DEF forward, around, found
  <2> QED  BY <1>1, <1>3, <1>8, <2>1, <2>2 DEF RealMove
<1>10. CASE forward = NoPoint
  <2>1. d.site = around /\ d.round = TRUE
    <3>1. find_move(q, l) = [site |-> around, round |-> TRUE]
      BY <1>2, <1>10
    <3> HIDE DEF forward, around
    <3>2. find_move(q, l).site = around /\ find_move(q, l).round = TRUE
      BY <3>1
    <3> QED  BY <1>8, <3>2
  <2>2. around \in found /\ Leads(body, rpo, TRUE, l, around, q)
    BY <1>6, <1>7
  <2>3. ASSUME NEW p \in Points(body), GivenIn(body, InstrAt(body, p), l),
               Untouched(InstrAt(body, p), l)
        PROVE  ~Leads(body, rpo, FALSE, l, p, q)
    BY <1>1, <1>10, <2>3, NothingLeads
  <2> HIDE DEF forward, around, found
  <2> QED  BY <1>1, <1>3, <1>8, <2>1, <2>2, <2>3 DEF RealMove
<1> QED  BY <1>9, <1>10

\* A parameter still handed on is not where its storage or the body ends,
\* nor past its block.
LEMMA HandedIs ==
  ASSUME body \in Bodies, tracked = Kinds(body), NEW l \in Local, NEW c, Sought(tracked, l, c),
         NEW k \in Block, NEW i \in 1..Len(body.code[k]), Handed(body, tracked, l, c, k, i)
  PROVE  /\ body.code[k][i].kind # "return"
         /\ ~(body.code[k][i].kind = "dead" /\ body.code[k][i].dest.local = l)
         /\ i = Len(body.code[k]) => body.code[k][i].kind = "trap"
<1>0. PICK code : code = body.code[k]
  OBVIOUS
<1>1. /\ c = "value" /\ l \in body.params /\ k = body.entry /\ tracked[l] = "temporary"
      /\ \A j \in 1..(i - 1) : ~TakenOf(tracked, code[j].reads, l)
  BY <1>0 DEF Handed, Sought
<1>2. Track(body, l) = "temporary"
  BY <1>1 DEF Kinds
<1>3. PICK n \in DOMAIN code :
         /\ \/ /\ code[n].kind = "assign"
               /\ \E r \in ReadsOf(code[n]) : r.how \in {"copy", "move"} /\ r.place.local = l
            \/ code[n].kind = "trap"
         /\ \A j \in 1..(n - 1) : ~(code[j].kind = "dead" /\ code[j].dest.local = l)
  <2>1. Track(body, l) = "temporary" =>
          \E n \in DOMAIN body.code[body.entry] :
            /\ \/ /\ body.code[body.entry][n].kind = "assign"
                  /\ \E r \in ReadsOf(body.code[body.entry][n]) : r.how \in {"copy", "move"} /\ r.place.local = l
               \/ body.code[body.entry][n].kind = "trap"
            /\ \A j \in 1..(n - 1) : ~(body.code[body.entry][j].kind = "dead" /\ body.code[body.entry][j].dest.local = l)
    BY <1>1, ParamsAssumption, Zenon
  <2> QED  BY <1>0, <1>1, <1>2, <2>1
<1>4. PICK len \in Nat : len = Len(code)
  BY <1>0, BodyFacts
<1>5. DOMAIN code = 1..len /\ \A j \in 1..len : code[j].kind \in Terminators <=> j = len
  BY <1>0, <1>4, BodyFacts
<1>6. /\ code[n].kind = "assign" => TakenOf(tracked, code[n].reads, l)
      /\ code[n].kind = "trap" => n = len
      /\ code[n].kind = "assign" \/ code[n].kind = "trap"
  BY <1>1, <1>3, <1>5 DEF TakenOf, ReadsOf, Terminators
<1>7. i \in 1..len /\ n \in 1..len
  BY <1>0, <1>3, <1>4, <1>5
<1>8. i \in Nat /\ n \in Nat /\ 1 <= i /\ i <= len /\ 1 <= n /\ n <= len
  BY <1>7
<1>9. i <= n
  <2>1. n < i => n \in 1..(i - 1) /\ n # len
    BY <1>8
  <2>2. ~(n < i)
    BY <1>1, <1>6, <2>1
  <2> QED  BY <1>8, <2>2
<1>10. code[i].kind \in Terminators => n = i /\ code[i].kind = "trap"
  <2>1. SUFFICES ASSUME code[i].kind \in Terminators PROVE n = i /\ code[i].kind = "trap"
    OBVIOUS
  <2>2. i = len
    BY <1>5, <1>7, <2>1
  <2>3. n = i
    BY <1>8, <1>9, <2>2
  <2> QED  BY <1>6, <2>1, <2>3 DEF Terminators
<1>11. ~(code[i].kind = "dead" /\ code[i].dest.local = l)
  <2>1. n # i => i \in 1..(n - 1)
    BY <1>8, <1>9
  <2> QED  BY <1>3, <1>6, <2>1
<1>12. code[i].kind # "return"
  BY <1>10 DEF Terminators
<1>13. i = len => code[i].kind = "trap"
  BY <1>5, <1>7, <1>10
<1> QED  BY <1>0, <1>4, <1>11, <1>12, <1>13

\* What a step leaves of a content sought: it is where it comes from, or it
\* was there and is neither ended nor taken.
LEMMA StepBrings ==
  ASSUME NEW l \in Local, NEW c, Sought(tracked, l, c), NEW instr, NEW state,
         c \in StepOf(body, tracked, instr, state)[l]
  PROVE  \/ IF c = "moved" THEN Takes(tracked, instr, l) ELSE IsDef(instr, l)
         \/ /\ c \in state[l] /\ ~Ends(tracked, instr, l)
            /\ c = "value" => ~TakenOf(tracked, instr.reads, l)
<1>1. tracked[l] # "untracked" /\ (c = "moved" \/ c = "value")
  BY DEF Sought, Bindings
<1>2. StepOf(body, tracked, instr, state)[l] =
        LET read == IF TakenOf(tracked, instr.reads, l) THEN Just("moved") ELSE state[l]
        IN  IF instr.kind = "trap" /\ (IsDef(instr, l) \/ (instr.blamed = l /\ tracked[l] \in Bindings))
              THEN HALTED
            ELSE IF IsDef(instr, l) THEN IF HaltedOf(body, instr, state) THEN HALTED ELSE VALUE
            ELSE IF instr.kind = "dead" /\ instr.dest.local = l THEN Just("unassigned")
            ELSE read
  BY <1>1 DEF StepOf
<1>3. /\ c \notin HALTED /\ (c = "moved" => c \notin VALUE) /\ c \notin Just("unassigned")
      /\ (c = "value" => c \notin Just("moved"))
  BY <1>1 DEF HALTED, VALUE, Just
<1>4. CASE IsDef(instr, l)
  <2>1. c # "moved"
    BY <1>2, <1>3, <1>4
  <2> QED  BY <1>4, <2>1
<1>5. CASE ~IsDef(instr, l)
  <2>1. ~(instr.kind = "trap" /\ instr.blamed = l /\ tracked[l] \in Bindings)
        /\ ~(instr.kind = "dead" /\ instr.dest.local = l)
    BY <1>2, <1>3, <1>5
  <2>2. ~Ends(tracked, instr, l)
    BY <1>5, <2>1 DEF Ends
  <2>3. c \in IF TakenOf(tracked, instr.reads, l) THEN Just("moved") ELSE state[l]
    BY <1>2, <1>5, <2>1
  <2>4. CASE TakenOf(tracked, instr.reads, l)
    <3>1. c = "moved"
      BY <1>1, <1>3, <2>3, <2>4
    <3> QED  BY <2>2, <2>4, <3>1 DEF Takes
  <2>5. CASE ~TakenOf(tracked, instr.reads, l)
    BY <2>2, <2>3, <2>5
  <2> QED  BY <2>4, <2>5
<1> QED  BY <1>4, <1>5

\* ... so what is sought after a step is brought to the next point, in the
\* block or past its end; of a parameter's value that is so of a step that
\* runs on, which a trap's does not.
LEMMA BroughtStep ==
  ASSUME body \in Bodies, tracked = Kinds(body), NEW l \in Local, NEW c, Sought(tracked, l, c),
         NEW k \in Block, NEW i \in 1..Len(body.code[k]), NEW state,
         c = "moved" \/ body.code[k][i].kind # "trap",
         c \in StepOf(body, tracked, body.code[k][i], state)[l],
         c \in state[l] => Brought(body, tracked, rpo, l, c, k, i)
  PROVE  /\ i < Len(body.code[k]) => Brought(body, tracked, rpo, l, c, k, i + 1)
         /\ \A j \in successors(body, k) : i = Len(body.code[k]) /\ Edge(rpo, TRUE, k, j)
              => Brought(body, tracked, rpo, l, c, j, 1)
<1> DEFINE instr == body.code[k][i]
           p == At(k, i)
           S == Sources(body, tracked, l, c)
           Every(m) == \A T \in SUBSET Points(body) :
                         Carried(body, tracked, rpo, TRUE, l, S, T) => m \in T
<1>1. p \in Points(body) /\ InstrAt(body, p) = instr /\ i \in Nat /\ Len(body.code[k]) \in Nat
  BY PointIs, AtIs, BodyFacts DEF InstrAt
<1>2. \/ IF c = "moved" THEN Takes(tracked, instr, l) ELSE IsDef(instr, l)
      \/ /\ c \in state[l] /\ ~Ends(tracked, instr, l)
         /\ c = "value" => ~TakenOf(tracked, instr.reads, l)
  BY StepBrings
<1>b. p.block = k /\ p.index = i
  BY AtIs
<1>3. (i < Len(body.code[k]) => At(k, i + 1) \in Follow(body, rpo, TRUE, p))
      /\ \A j \in successors(body, k) : i = Len(body.code[k]) /\ Edge(rpo, TRUE, k, j)
            => At(j, 1) \in Follow(body, rpo, TRUE, p)
  <2> HIDE DEF p
  <2>1. Follow(body, rpo, TRUE, p) =
          IF i < Len(body.code[k]) THEN {At(k, i + 1)}
          ELSE {At(j, 1) : j \in {m \in successors(body, k) : Edge(rpo, TRUE, k, m)}}
    BY <1>b DEF Follow
  <2>2. i = Len(body.code[k]) => ~(i < Len(body.code[k]))
    BY <1>1
  <2>3. i < Len(body.code[k]) => At(k, i + 1) \in Follow(body, rpo, TRUE, p)
    BY <2>1
  <2>4. \A j \in successors(body, k) : i = Len(body.code[k]) /\ Edge(rpo, TRUE, k, j)
            => At(j, 1) \in Follow(body, rpo, TRUE, p)
    BY <2>1, <2>2
  <2> QED  BY <2>3, <2>4
<1> HIDE DEF instr, p, S
<1>4. CASE p \in S \/ (Every(p) /\ ~Ends(tracked, instr, l))
  <2>1. \A m \in Follow(body, rpo, TRUE, p) : Every(m)
    BY <1>1, <1>4 DEF Carried
  <2>2. i < Len(body.code[k]) => Every(At(k, i + 1))
    BY <1>3, <2>1
  <2>3. \A j \in successors(body, k) : i = Len(body.code[k]) /\ Edge(rpo, TRUE, k, j) => Every(At(j, 1))
    BY <1>3, <2>1
  <2> QED  BY <2>2, <2>3 DEF Brought, S
<1>5. CASE /\ Handed(body, tracked, l, c, k, i) /\ ~TakenOf(tracked, instr.reads, l)
  <2>1. i < Len(body.code[k]) => Handed(body, tracked, l, c, k, i + 1)
    <3>1. \A j \in 1..((i + 1) - 1) : j = i \/ j \in 1..(i - 1)
      BY <1>1
    <3> QED  BY <1>5, <3>1 DEF Handed, instr
  <2>2. i # Len(body.code[k])
    BY <1>5, HandedIs DEF Handed
  <2> QED  BY <2>1, <2>2 DEF Brought
<1>6. \/ p \in S \/ (Every(p) /\ ~Ends(tracked, instr, l))
      \/ Handed(body, tracked, l, c, k, i) /\ ~TakenOf(tracked, instr.reads, l)
  <2>1. CASE IF c = "moved" THEN Takes(tracked, instr, l) ELSE IsDef(instr, l)
    BY <1>1, <2>1 DEF S, Sources
  <2>2. CASE /\ c \in state[l] /\ ~Ends(tracked, instr, l)
             /\ c = "value" => ~TakenOf(tracked, instr.reads, l)
    <3>1. Brought(body, tracked, rpo, l, c, k, i)
      BY <2>2
    <3>2. Every(p) \/ Handed(body, tracked, l, c, k, i)
      BY <3>1 DEF Brought, S, p
    <3>3. Handed(body, tracked, l, c, k, i) => c = "value"
      BY DEF Handed
    <3> HIDE DEF Every
    <3> QED  BY <2>2, <3>2, <3>3
  <2> QED  BY <1>2, <2>1, <2>2
<1> HIDE DEF Every
<1> QED  BY <1>4, <1>5, <1>6
-----------------------------------------------------------------------------
(* What the states kept hold was brought there by a path.                   *)

\* Every move a state holds at the i-th point of k is brought there.
Comes(b, tr, order, k, i, state) ==
  \A l \in Local : tr[l] \in Bindings /\ "moved" \in state[l] =>
    Brought(b, tr, order, l, "moved", k, i)

\* The order is the body's, every block reached has its place in it, and
\* every move that a state kept holds is brought there by some path.
BroughtInv ==
  /\ rpo = reverse_postorder(body)
  /\ \A k \in Reached : k \in DOMAIN rpo /\ Comes(body, tracked, rpo, k, 1, entry[k])
  /\ cur # Idle => Comes(body, tracked, rpo, cur.block, cur.index, cur.state)

\* ... with a step taken, at the next point,
LEMMA ComesStep ==
  ASSUME body \in Bodies, tracked = Kinds(body), NEW k \in Block,
         NEW i \in 1..Len(body.code[k]), i < Len(body.code[k]),
         NEW state, Comes(body, tracked, rpo, k, i, state)
  PROVE  Comes(body, tracked, rpo, k, i + 1, StepOf(body, tracked, body.code[k][i], state))
<1> SUFFICES ASSUME NEW l \in Local, tracked[l] \in Bindings,
                    "moved" \in StepOf(body, tracked, body.code[k][i], state)[l]
             PROVE  Brought(body, tracked, rpo, l, "moved", k, i + 1)
  BY DEF Comes
<1>1. "moved" \in state[l] => Brought(body, tracked, rpo, l, "moved", k, i)
  BY DEF Comes
<1>2. Sought(tracked, l, "moved")
  BY DEF Sought
<1> QED  BY <1>1, <1>2, BroughtStep

\* ... and at the block's end, in each successor.
LEMMA ComesOnward ==
  ASSUME body \in Bodies, tracked = Kinds(body), NEW k \in Block,
         NEW state, Comes(body, tracked, rpo, k, Len(body.code[k]), state),
         rpo = reverse_postorder(body), k \in DOMAIN rpo, NEW j \in successors(body, k)
  PROVE  /\ j \in DOMAIN rpo
         /\ Comes(body, tracked, rpo, j, 1, StepOf(body, tracked, Last(body, k), state))
<1> DEFINE n == Len(body.code[k])
<1>1. n \in 1..Len(body.code[k]) /\ Last(body, k) = body.code[k][n]
  BY BodyFacts DEF Last
<1>2. j \in DOMAIN rpo /\ Edge(rpo, TRUE, k, j)
  BY OrderFacts DEF Edge
<1>3. ASSUME NEW l \in Local, tracked[l] \in Bindings,
             "moved" \in StepOf(body, tracked, body.code[k][n], state)[l]
      PROVE  Brought(body, tracked, rpo, l, "moved", j, 1)
  <2>1. "moved" \in state[l] => Brought(body, tracked, rpo, l, "moved", k, n)
    BY <1>3 DEF Comes
  <2>2. Sought(tracked, l, "moved")
    BY <1>3 DEF Sought
  <2> HIDE DEF n
  <2>3. \A m \in successors(body, k) : n = Len(body.code[k]) /\ Edge(rpo, TRUE, k, m)
              => Brought(body, tracked, rpo, l, "moved", m, 1)
    BY <1>1, <1>3, <2>1, <2>2, BroughtStep
  <2> QED  BY <1>2, <2>3 DEF n
<1> QED  BY <1>1, <1>2, <1>3 DEF Comes

\* At the entry nothing is moved.
LEMMA InitBrought == Init => BroughtInv
<1> SUFFICES ASSUME Init PROVE BroughtInv
  OBVIOUS
<1>1. body \in Bodies /\ tracked = Kinds(body) /\ rpo = reverse_postorder(body) /\ cur = Idle
  BY DEF Init
<1>2. ASSUME NEW k \in Reached
      PROVE  k = body.entry /\ entry[k] = entry_state(body, tracked)
  BY <1>2 DEF Init, Reached
<1>3. body.entry \in DOMAIN rpo
  BY <1>1, OrderFacts
<1>4. ASSUME NEW l \in Local PROVE "moved" \notin entry_state(body, tracked)[l]
  BY DEF entry_state, VALUE, Just
<1> QED  BY <1>1, <1>2, <1>3, <1>4 DEF BroughtInv, Comes

\* The steps that touch neither the states entering the blocks nor a walk.
LEMMA BroughtStays ==
  ASSUME BroughtInv, UNCHANGED <<body, tracked, rpo, entry>>, cur' = cur \/ cur' = Idle
  PROVE  BroughtInv'
<1>1. Reached' = Reached
  BY DEF Reached
<1> QED  BY <1>1 DEF BroughtInv

\* A walk begins at a block with the state entering it.
LEMMA BroughtBegins ==
  ASSUME BroughtInv, NEW k \in Reached, UNCHANGED <<body, tracked, rpo, entry>>,
         cur' = [block |-> k, index |-> 1, state |-> entry[k]]
  PROVE  BroughtInv'
<1>1. Reached' = Reached
  BY DEF Reached
<1>2. cur'.block = k /\ cur'.index = 1 /\ cur'.state = entry[k]
  OBVIOUS
<1>3. Comes(body, tracked, rpo, k, 1, entry[k])
  BY DEF BroughtInv
<1>4. Comes(body', tracked', rpo', cur'.block, cur'.index, cur'.state)
  BY <1>2, <1>3
<1> QED  BY <1>1, <1>4 DEF BroughtInv

\* ... and goes on to the next point.
LEMMA BroughtOn ==
  ASSUME TypeInv, BroughtInv, UNCHANGED <<body, tracked, rpo, entry>>,
         cur # Idle, cur.index < Len(body.code[cur.block]),
         cur' = [cur EXCEPT !.index = @ + 1,
                            !.state = step(body.code[cur.block][cur.index], @)]
  PROVE  BroughtInv'
<1> DEFINE k == cur.block
           i == cur.index
           out == StepOf(body, tracked, body.code[k][i], cur.state)
<1>1. /\ cur \in Walk1 /\ i \in 1..Len(body.code[k]) /\ body \in Bodies /\ tracked = Kinds(body)
      /\ k \in Block
  BY DEF TypeInv, Walk1
<1>2. cur'.block = k /\ cur'.index = i + 1 /\ cur'.state = out
  BY <1>1, StepIs DEF Walk1
<1>3. Reached' = Reached
  BY DEF Reached
<1>4. Comes(body, tracked, rpo, k, i, cur.state)
  BY DEF BroughtInv
<1> HIDE DEF k, i
<1>5. Comes(body, tracked, rpo, k, i + 1, out)
  BY <1>1, <1>4, ComesStep DEF k, i
<1>6. Comes(body', tracked', rpo', cur'.block, cur'.index, cur'.state)
  BY <1>2, <1>5
<1> QED  BY <1>3, <1>6 DEF BroughtInv

\* A join has nothing but what the block was entered with, and what its
\* predecessor leaves.
LEMMA PropagateBrought ==
  ASSUME IInv, BroughtInv, Propagate
  PROVE  BroughtInv'
<1> DEFINE k == cur.block
           n == Len(body.code[k])
           out == StepOf(body, tracked, Last(body, k), cur.state)
<1>1. /\ UNCHANGED <<body, tracked, rpo>> /\ phase = "fix" /\ cur # Idle /\ cur' = Idle
      /\ cur \in Walk1 /\ cur.index = n
      /\ body \in Bodies /\ tracked = Kinds(body)
      /\ entry[k] # NoState
  BY DEF Propagate, IInv, TypeInv, FixInv
<1>2. k \in Block
  BY <1>1 DEF Walk1
<1>3. ASSUME NEW j \in Block
      PROVE  entry'[j] = IF j \in successors(body, k) THEN join(entry[j], out) ELSE entry[j]
  <2>1. out = step(body.code[cur.block][cur.index], cur.state)
    BY <1>1, StepIs DEF Last
  <2> HIDE DEF out
  <2> QED  BY <1>3, <2>1 DEF Propagate
<1>4. k \in DOMAIN rpo /\ rpo = reverse_postorder(body)
      /\ Comes(body, tracked, rpo, k, n, cur.state)
  BY <1>1, <1>2 DEF BroughtInv, Reached
<1>5. ASSUME NEW j \in successors(body, k)
      PROVE  j \in DOMAIN rpo /\ Comes(body, tracked, rpo, j, 1, out)
  BY <1>1, <1>2, <1>4, <1>5, ComesOnward
<1> HIDE DEF k, n, out
<1>6. ASSUME NEW j \in Block, entry'[j] # NoState
      PROVE  j \in DOMAIN rpo /\ Comes(body, tracked, rpo, j, 1, entry'[j])
  <2>1. entry[j] # NoState => j \in DOMAIN rpo /\ Comes(body, tracked, rpo, j, 1, entry[j])
    BY DEF BroughtInv, Reached
  <2>2. CASE j \in successors(body, k)
    <3>1. CASE entry[j] = NoState
      BY <1>3, <1>5, <2>2, <3>1 DEF join
    <3>2. CASE entry[j] # NoState
      <4>1. \A l \in Local : entry'[j][l] = entry[j][l] \cup out[l]
        BY <1>3, <2>2, <3>2 DEF join
      <4>2. Comes(body, tracked, rpo, j, 1, entry'[j])
        BY <1>5, <2>1, <2>2, <3>2, <4>1 DEF Comes
      <4> QED  BY <2>1, <3>2, <4>2
    <3> QED  BY <3>1, <3>2
  <2>3. CASE j \notin successors(body, k)
    BY <1>3, <1>6, <2>1, <2>3
  <2> QED  BY <2>2, <2>3
<1> QED  BY <1>1, <1>4, <1>6 DEF BroughtInv, Reached

LEMMA NextBrought == IInv /\ BroughtInv /\ [Next]_vars => BroughtInv'
<1> SUFFICES ASSUME IInv, BroughtInv, [Next]_vars PROVE BroughtInv'
  OBVIOUS
<1> DEFINE Same == UNCHANGED <<body, tracked, rpo, entry>>
<1>1. CASE \E k \in Block : Pop(k)
  <2>1. PICK k \in Block : Pop(k)
    BY <1>1
  <2>2. k \in Reached /\ Same /\ cur' = [block |-> k, index |-> 1, state |-> entry[k]]
    BY <2>1 DEF Pop, IInv, FixInv, Reached
  <2> QED  BY <2>2, BroughtBegins
<1>2. CASE Walk
  <2>1. TypeInv
    BY DEF IInv
  <2> QED  BY <1>2, <2>1, BroughtOn DEF Walk
<1>3. CASE Propagate
  BY <1>3, PropagateBrought
<1>4. CASE \E k \in Block : Open(k)
  <2>1. PICK k \in Block : Open(k)
    BY <1>4
  <2>2. k \in Reached /\ Same /\ cur' = [block |-> k, index |-> 1, state |-> entry[k]]
    BY <2>1 DEF Open, IInv, ReportInv
  <2> QED  BY <2>2, BroughtBegins
<1>5. CASE BeginReport
  BY <1>5, BroughtStays DEF BeginReport
<1>6. CASE Report
  <2>1. CASE cur.index = Len(body.code[cur.block])
    BY <1>6, <2>1, BroughtStays DEF Report
  <2>2. CASE cur.index # Len(body.code[cur.block])
    <3>1. TypeInv /\ cur # Idle
      BY <1>6 DEF IInv, Report
    <3>2. cur.index < Len(body.code[cur.block])
      BY <2>2, <3>1, BodyFacts DEF TypeInv, Walk1
    <3> QED  BY <1>6, <2>2, <3>1, <3>2, BroughtOn DEF Report
  <2> QED  BY <2>1, <2>2
<1>7. CASE BeginRun
  BY <1>7, BroughtStays DEF BeginRun
<1>8. CASE Stop
  BY <1>8, BroughtStays DEF Stop
<1>9. CASE Execute
  BY <1>9, BroughtStays DEF Execute
<1>10. CASE UNCHANGED vars
  BY <1>10, BroughtStays DEF vars
<1> QED  BY <1>1, <1>2, <1>3, <1>4, <1>5, <1>6, <1>7, <1>8, <1>9, <1>10 DEF Next
-----------------------------------------------------------------------------
(* The moves blamed.                                                        *)

\* What is reported of a use that finds nothing names a real move.
LEMMA UsedIsReal ==
  ASSUME body \in Bodies, tracked = Kinds(body), NEW l \in Local,
         NEW k \in Block, NEW i \in 1..Len(body.code[k]), NEW holds, NEW taken,
         taken => GivenIn(body, InstrAt(body, At(k, i)), l),
         ~taken /\ "moved" \in holds /\ tracked[l] \in Bindings
           => Brought(body, tracked, rpo, l, "moved", k, i),
         NEW d \in Used(At(k, i), l, holds, taken)
  PROVE  RealMove(body, tracked, rpo, d)
<1>1. At(k, i) \in Points(body)
  BY PointIs
<1>2. IsBinding(l) /\ ("unassigned" \in holds \/ "moved" \in holds)
  BY Zenon DEF Used
<1>3. CASE "unassigned" \in holds
  <2>1. d = Diag("ReadUninit", At(k, i), l, At(k, i), FALSE)
    BY <1>2, <1>3, Zenon DEF Used
  <2>2. d.kind = "ReadUninit"
    BY <2>1 DEF Diag
  <2> QED  BY <2>2 DEF RealMove
<1>4. CASE "unassigned" \notin holds /\ taken
  <2>1. d \in {Diag("AlreadyConsumed", At(k, i), l, At(k, i), FALSE)}
    BY <1>2, <1>4, Zenon DEF Used
  <2>2. d.local = l /\ d.at = At(k, i) /\ d.site = At(k, i) /\ d.round = FALSE
    BY <2>1 DEF Diag
  <2>3. GivenIn(body, InstrAt(body, d.site), d.local) /\ tracked[d.local] \in Bindings
    BY <1>2, <1>4, <2>2 DEF IsBinding
  <2> QED  BY <1>1, <2>2, <2>3 DEF RealMove
<1>5. CASE "unassigned" \notin holds /\ ~taken
  <2>1. d \in {Diag("AlreadyConsumed", At(k, i), l, find_move(At(k, i), l).site,
                    find_move(At(k, i), l).round)}
    BY <1>2, <1>5, Zenon DEF Used
  <2>2. Brought(body, tracked, rpo, l, "moved", k, i) /\ tracked[l] \in Bindings
    BY <1>2, <1>5 DEF IsBinding
  <2>3. d = Diag("AlreadyConsumed", At(k, i), l, find_move(At(k, i), l).site,
                 find_move(At(k, i), l).round)
    BY <2>1
  <2> QED  BY <2>2, <2>3, FoundMoveIsReal
<1> QED  BY <1>3, <1>4, <1>5

\* ... and of everything a point reports.
LEMMA ReportedIsReal ==
  ASSUME body \in Bodies, tracked = Kinds(body),
         NEW k \in Block, NEW i \in 1..Len(body.code[k]),
         NEW state, Comes(body, tracked, rpo, k, i, state),
         NEW d \in Reported(At(k, i), state)
  PROVE  RealMove(body, tracked, rpo, d)
<1>0. PICK instr : instr = InstrAt(body, At(k, i))
  OBVIOUS
<1>1. instr \in Instr
  BY <1>0, BodyFacts, AtIs DEF InstrAt
<1>2. ASSUME NEW l \in Local, tracked[l] \in Bindings,
             NEW n, n \in DOMAIN instr.reads \/ n = Len(instr.reads) + 1, TakenAt(instr, n, l)
      PROVE  GivenIn(body, instr, l)
  <2>1. instr.reads \in Seq(Read)
    BY <1>1, ReadsAreReads
  <2>2. PICK j \in 1..(n - 1) : takes(instr.reads[j], l)
    BY <1>2 DEF TakenAt
  <2>3. j \in DOMAIN instr.reads
    BY <1>2, <2>1
  <2>4. Given(instr.reads[j], l)
    BY <1>2, <2>2, KindsFacts DEF IsBinding
  <2> QED  BY <2>3, <2>4 DEF GivenIn, Given
<1>3. ASSUME NEW l \in Local, NEW n, n \in DOMAIN instr.reads \/ n = Len(instr.reads) + 1,
             d \in Used(At(k, i), l, FoundBy(instr, n, state, l), TakenAt(instr, n, l))
      PROVE  RealMove(body, tracked, rpo, d)
  <2> DEFINE holds == FoundBy(instr, n, state, l)
             taken == TakenAt(instr, n, l)
  <2>1. IsBinding(l)
    BY <1>3, Zenon DEF Used
  <2>2. taken => GivenIn(body, InstrAt(body, At(k, i)), l)
    BY <1>0, <1>2, <1>3, <2>1 DEF IsBinding
  <2>3. ~taken /\ "moved" \in holds /\ tracked[l] \in Bindings
          => Brought(body, tracked, rpo, l, "moved", k, i)
    BY DEF TakenAt, FoundBy, Comes
  <2>4. d \in Used(At(k, i), l, holds, taken)
    BY <1>3
  <2> HIDE DEF holds, taken
  <2> QED  BY <2>2, <2>3, <2>4, UsedIsReal
<1>4. CASE d \in ReadDiags(At(k, i), instr, state)
  <2>1. PICK n \in DOMAIN instr.reads :
               LET l == instr.reads[n].place.local
               IN  d \in Used(At(k, i), l, FoundBy(instr, n, state, l), TakenAt(instr, n, l))
    BY <1>4, Zenon DEF ReadDiags
  <2>2. instr.reads[n] \in Read
    BY <1>1, ReadsAreReads DEF ReadsOf
  <2>3. instr.reads[n].place.local \in Local
    BY <2>2 DEF Read, Place
  <2> QED  BY <1>3, <2>1, <2>3
<1>5. CASE d \in WriteDiags(At(k, i), instr, state)
  <2>1. /\ instr.kind = "assign" /\ instr.dest.proj # <<>>
        /\ d \in Used(At(k, i), instr.dest.local,
                      FoundBy(instr, Len(instr.reads) + 1, state, instr.dest.local),
                      TakenAt(instr, Len(instr.reads) + 1, instr.dest.local))
    BY <1>5, Zenon DEF WriteDiags
  <2>2. instr.dest.local \in Local
    BY <1>1, <2>1 DEF Instr, Place, Nowhere
  <2> QED  BY <1>3, <2>1, <2>2
<1>6. ASSUME d.kind # "AlreadyConsumed" PROVE RealMove(body, tracked, rpo, d)
  BY <1>6 DEF RealMove
<1>7. ASSUME NEW l, d \in abandoned(At(k, i), l) PROVE d.kind = "ValueNotConsumed"
  <2>1. d = Diag("ValueNotConsumed", At(k, i), l, Filler(At(k, i), l), FALSE)
    BY <1>7, Zenon DEF abandoned
  <2> QED  BY <2>1 DEF Diag
<1>8. CASE d \in AssignDiags(At(k, i), instr, state)
  <2>1. \E l : \/ d = Diag("AssignOverLive", At(k, i), l, At(k, i), FALSE)
               \/ d \in abandoned(At(k, i), l)
    BY <1>8, Zenon DEF AssignDiags
  <2>2. d.kind # "AlreadyConsumed"
    BY <1>7, <2>1 DEF Diag
  <2> QED  BY <1>6, <2>2
<1>9. CASE d \in EndDiags(At(k, i), instr, state)
  <2>1. \E l : \/ d = Diag("NotConsumed", At(k, i), l, find_move(At(k, i), l).site, FALSE)
               \/ d \in abandoned(At(k, i), l)
    BY <1>9, Zenon DEF EndDiags
  <2>2. d.kind # "AlreadyConsumed"
    BY <1>7, <2>1 DEF Diag
  <2> QED  BY <1>6, <2>2
<1>10. \/ d \in ReadDiags(At(k, i), instr, state)
       \/ d \in WriteDiags(At(k, i), instr, state)
       \/ d \in AssignDiags(At(k, i), instr, state)
       \/ d \in EndDiags(At(k, i), instr, state)
  BY <1>0, Zenon DEF Reported
<1> QED  BY <1>4, <1>5, <1>8, <1>9, <1>10

\* Every diagnostic of a second use names a real move.
BlameInv ==
  /\ phase = "fix" => diagnostics = {}
  /\ \A d \in diagnostics : RealMove(body, tracked, rpo, d)

LEMMA NextBlame == IInv /\ BroughtInv /\ BlameInv /\ [Next]_vars => BlameInv'
<1> SUFFICES ASSUME IInv, BroughtInv, BlameInv, [Next]_vars PROVE BlameInv'
  OBVIOUS
<1>1. CASE Report
  <2> DEFINE k == cur.block
             i == cur.index
  <2>1. /\ cur # Idle /\ cur \in Walk1 /\ i \in 1..Len(body.code[k])
        /\ body \in Bodies /\ tracked = Kinds(body)
        /\ UNCHANGED <<body, tracked, rpo, phase>>
        /\ phase = "report"
        /\ diagnostics' = diagnostics \cup Reported(At(k, i), cur.state)
    BY <1>1 DEF Report, IInv, TypeInv
  <2>2. k \in Block /\ Comes(body, tracked, rpo, k, i, cur.state)
    BY <2>1 DEF Walk1, BroughtInv
  <2> HIDE DEF k, i
  <2>3. \A d \in Reported(At(k, i), cur.state) : RealMove(body, tracked, rpo, d)
    BY <2>1, <2>2, ReportedIsReal
  <2>4. \A d \in diagnostics' : RealMove(body', tracked', rpo', d)
    BY <2>1, <2>3 DEF BlameInv
  <2> QED  BY <2>1, <2>4 DEF BlameInv
<1>2. CASE ~Report
  <2>1. UNCHANGED <<body, tracked, rpo, diagnostics>> /\ (phase' = "fix" => phase = "fix")
    BY <1>2 DEF Next, vars, Pop, Open, Walk, Propagate, BeginReport, BeginRun, Stop, Execute
  <2> QED  BY <2>1 DEF BlameInv
<1> QED  BY <1>1, <1>2

\* RealMove is what the run checks of a diagnostic.
LEMMA InvBlame == IInv /\ BroughtInv /\ BlameInv => BlameIsARealMove
<1> SUFFICES ASSUME IInv, BroughtInv, BlameInv, NEW d \in diagnostics, d.kind = "AlreadyConsumed"
             PROVE  /\ d.site # NoPoint
                    /\ GivenBy(InstrAt(body, d.site), d.local)
                    /\ d.site # d.at => LeadsTo(d.site, d.at, d.local, d.round)
                    /\ d.round => ~\E p \in Points(body) :
                                     /\ p # d.at
                                     /\ GivenBy(InstrAt(body, p), d.local)
                                     /\ Untouched(InstrAt(body, p), d.local)
                                     /\ LeadsTo(p, d.at, d.local, FALSE)
  BY DEF BlameIsARealMove
<1>1. body \in Bodies /\ rpo = reverse_postorder(body)
  BY DEF IInv, TypeInv, BroughtInv
<1>2. /\ d.local \in Local /\ tracked[d.local] \in Bindings
      /\ d.at \in Points(body) /\ d.site \in Points(body)
      /\ GivenIn(body, InstrAt(body, d.site), d.local)
      /\ d.site # d.at => Leads(body, rpo, d.round, d.local, d.site, d.at)
      /\ d.round => \A p \in Points(body) :
                      GivenIn(body, InstrAt(body, p), d.local) /\ Untouched(InstrAt(body, p), d.local)
                        => ~Leads(body, rpo, FALSE, d.local, p, d.at)
  BY DEF BlameInv, RealMove
<1>3. \A instr, l : GivenBy(instr, l) <=> GivenIn(body, instr, l)
  BY DEF GivenBy, GivenIn, Given
<1>4. \A p \in Points(body) : \A round :
        LeadsTo(p, d.at, d.local, round) <=> Leads(body, rpo, round, d.local, p, d.at)
  BY <1>1, <1>2, LeadsToIs
<1>5. d.site # NoPoint
  <2>1. d.site.index \in 1..Len(body.code[d.site.block]) /\ d.site.block \in Block
    BY <1>1, <1>2, PointIs
  <2>2. d.site.index # 0
    BY <1>1, <2>1, BodyFacts
  <2> QED  BY <2>2, AtIs DEF NoPoint
<1>6. GivenBy(InstrAt(body, d.site), d.local)
  BY <1>2, <1>3
<1>7. d.site # d.at => LeadsTo(d.site, d.at, d.local, d.round)
  BY <1>2, <1>4
<1>8. d.round => ~\E p \in Points(body) :
                   /\ p # d.at
                   /\ GivenBy(InstrAt(body, p), d.local)
                   /\ Untouched(InstrAt(body, p), d.local)
                   /\ LeadsTo(p, d.at, d.local, FALSE)
  BY <1>2, <1>3, <1>4
<1> QED  BY <1>5, <1>6, <1>7, <1>8
-----------------------------------------------------------------------------
(* The temporaries.                                                         *)

\* Every way back from the i-th point of k comes to a write of l.
Filled(b, tr, order, l, k, i) ==
  \A T \in SUBSET Points(b) :
    Carried(b, tr, order, TRUE, l, Sources(b, tr, l, "value"), T) => At(k, i) \in T

\* A point that would lose a value some write left in a temporary: the
\* body's end, or that of the storage.
LosesTemporary(b, tr, order, k, i, state) ==
  \E l \in Local :
    /\ tr[l] = "temporary" /\ "value" \in state[l] /\ Filled(b, tr, order, l, k, i)
    /\ \/ b.code[k][i].kind = "return"
       \/ b.code[k][i].kind = "dead" /\ b.code[k][i].dest.local = l

\* Such a point is reported: the walk back finds what filled it.
LEMMA LostIsReported ==
  ASSUME body \in Bodies, tracked = Kinds(body),
         NEW k \in Block, NEW i \in 1..Len(body.code[k]),
         NEW state, LosesTemporary(body, tracked, rpo, k, i, state)
  PROVE  Reported(At(k, i), state) # {}
<1>0. PICK instr : instr = body.code[k][i]
  OBVIOUS
<1>1. InstrAt(body, At(k, i)) = instr /\ At(k, i) \in Points(body)
  BY <1>0, AtIs, PointIs DEF InstrAt
<1>2. PICK l \in Local :
        /\ tracked[l] = "temporary" /\ "value" \in state[l]
        /\ Filled(body, tracked, rpo, l, k, i)
        /\ instr.kind = "return" \/ (instr.kind = "dead" /\ instr.dest.local = l)
  BY <1>0 DEF LosesTemporary
<1>3. Sources(body, tracked, l, "value") = defs_of(body, l)
      /\ defs_of(body, l) \in SUBSET Points(body) /\ Watched(tracked, l)
  BY <1>2 DEF Sources, defs_of, Watched
<1>4. \A T \in SUBSET Points(body) :
        Carried(body, tracked, rpo, TRUE, l, defs_of(body, l), T) => At(k, i) \in T
  BY <1>2, <1>3 DEF Filled
<1> DEFINE around == walk_back(At(k, i), l, TRUE, defs_of(body, l))
           forward == walk_back(At(k, i), l, FALSE, defs_of(body, l))
<1>5. around # NoPoint
  <2>1. SUFFICES ASSUME around = NoPoint PROVE FALSE
    OBVIOUS
  <2>2. PICK T \in SUBSET Points(body) :
           At(k, i) \notin T /\ Carried(body, tracked, rpo, TRUE, l, defs_of(body, l), T)
    BY <1>1, <1>3, <2>1, NothingBack
  <2> QED  BY <1>4, <2>2
<1>6. Filler(At(k, i), l) # NoPoint
  <2>1. FindBack(At(k, i), l, defs_of(body, l)) =
          IF forward # NoPoint THEN [site |-> forward, round |-> FALSE]
          ELSE [site |-> around, round |-> TRUE]
    BY DEF FindBack
  <2> HIDE DEF forward, around
  <2>2. CASE forward # NoPoint
    <3>1. FindBack(At(k, i), l, defs_of(body, l)) = [site |-> forward, round |-> FALSE]
      BY <2>1, <2>2
    <3> QED  BY <2>2, <3>1 DEF Filler
  <2>3. CASE forward = NoPoint
    <3>1. FindBack(At(k, i), l, defs_of(body, l)) = [site |-> around, round |-> TRUE]
      BY <2>1, <2>3
    <3> QED  BY <1>5, <3>1 DEF Filler
  <2> QED  BY <2>2, <2>3
<1>7. Diag("ValueNotConsumed", At(k, i), l, Filler(At(k, i), l), FALSE) \in abandoned(At(k, i), l)
  BY <1>6 DEF abandoned
<1>8. abandoned(At(k, i), l) \subseteq EndDiags(At(k, i), instr, state)
  <2>1. tracked[l] # "once"
    BY <1>2
  <2> QED  BY <1>2, <2>1 DEF EndDiags
<1> QED  BY <1>1, <1>7, <1>8 DEF Reported

\* The first n points of k are trapped where they would lose one.
Kept(k, n) ==
  \A i \in 1..n :
    LosesTemporary(body, tracked, rpo, k, i, before[k][i]) => At(k, i) \in traps

\* Up to where the report has come, a point that would lose a temporary is
\* trapped.
TempInv ==
  /\ phase = "report" =>
       /\ cur # Idle => Kept(cur.block, cur.index - 1)
       /\ \A k \in Reached : k \notin work /\ ~Walking(k) => Kept(k, Len(body.code[k]))
  /\ phase = "run" => \A k \in Reached : Kept(k, Len(body.code[k]))

\* Traps are only added.
LEMMA KeptStays ==
  ASSUME UNCHANGED <<body, tracked, rpo, before>>, traps \subseteq traps', NEW k, NEW n, Kept(k, n)
  PROVE  Kept(k, n)'
BY DEF Kept

\* The reporting pass traps each such point as it comes to it.
LEMMA ReportKeeps ==
  ASSUME IInv, TempInv, Report, NEW k, NEW i, k = cur.block, i = cur.index
  PROVE  TempInv'
<1>1. /\ cur # Idle /\ cur \in Walk1 /\ i \in 1..Len(body.code[k])
      /\ body \in Bodies /\ tracked = Kinds(body)
      /\ UNCHANGED <<body, tracked, rpo, entry, before, work, phase>>
      /\ phase = "report"
      /\ cur.state = before[k][i]
      /\ traps' = IF Reported(At(k, i), cur.state) = {} THEN traps ELSE traps \cup {At(k, i)}
      /\ cur' = IF i = Len(body.code[k]) THEN Idle
                ELSE [cur EXCEPT !.index = @ + 1, !.state = step(body.code[k][i], @)]
  BY DEF Report, IInv, TypeInv, ReportInv
<1>2. k \in Block /\ i \in Nat
  BY <1>1 DEF Walk1
<1>3. Kept(k, i - 1)
  BY <1>1 DEF TempInv
<1>4. traps \subseteq traps' /\ Reached' = Reached
  BY <1>1 DEF Reached
<1>5. cur' # Idle => cur'.block = k /\ cur'.index = i + 1
  BY <1>1 DEF Walk1
<1>6. LosesTemporary(body, tracked, rpo, k, i, before[k][i]) => At(k, i) \in traps'
  BY <1>1, <1>2, LostIsReported
<1>7. Kept(k, i)'
  <2> SUFFICES ASSUME NEW m \in 1..i,
                      LosesTemporary(body, tracked, rpo, k, m, before[k][m])
               PROVE  At(k, m) \in traps'
    BY <1>1 DEF Kept
  <2>1. m = i \/ m \in 1..(i - 1)
    BY <1>2
  <2> QED  BY <1>3, <1>4, <1>6, <2>1 DEF Kept
<1>8. ASSUME NEW j \in Reached, j \notin work, ~Walking(j)'
      PROVE  Kept(j, Len(body.code[j]))'
  <2>1. CASE j = k
    <3>1. cur' = Idle
      BY <1>5, <1>8, <2>1 DEF Walking
    <3>2. i = Len(body.code[k])
      <4>1. [cur EXCEPT !.index = @ + 1, !.state = step(body.code[k][i], @)] # Idle
        <5>1. DOMAIN cur = {"block", "index", "state"}
          BY <1>1 DEF Walk1
        <5>2. DOMAIN [cur EXCEPT !.index = @ + 1, !.state = step(body.code[k][i], @)] = DOMAIN cur
          BY Zenon
        <5>3. DOMAIN <<>> = {}
          OBVIOUS
        <5> QED  BY <5>1, <5>2, <5>3 DEF Idle
      <4> QED  BY <1>1, <3>1, <4>1
    <3> QED  BY <1>7, <2>1, <3>2, <1>1
  <2>2. CASE j # k
    <3>1. Kept(j, Len(body.code[j]))
      BY <1>1, <1>8, <2>2 DEF TempInv, Walking
    <3> QED  BY <1>1, <1>4, <3>1, KeptStays
  <2> QED  BY <2>1, <2>2
<1>9. cur' # Idle => Kept(cur.block, cur.index - 1)'
  <2>1. (i + 1) - 1 = i
    BY <1>2
  <2> QED  BY <1>5, <1>7, <2>1
<1> QED  BY <1>1, <1>4, <1>8, <1>9 DEF TempInv

LEMMA TempStays ==
  ASSUME TempInv, UNCHANGED <<body, tracked, rpo, entry, before, work, cur, traps>>,
         phase' = phase \/ phase' \notin {"report", "run"}
  PROVE  TempInv'
<1>1. Reached' = Reached /\ \A k : Walking(k)' <=> Walking(k)
  BY DEF Reached, Walking
<1>2. \A k, n : Kept(k, n) => Kept(k, n)'
  BY KeptStays
<1> QED  BY <1>1, <1>2 DEF TempInv

LEMMA NextKeeps == IInv /\ TempInv /\ [Next]_vars => TempInv'
<1> SUFFICES ASSUME IInv, TempInv, [Next]_vars PROVE TempInv'
  OBVIOUS
<1>1. CASE (\E k \in Block : Pop(k)) \/ Walk \/ Propagate
  <2>1. phase' = "fix"
    BY <1>1 DEF Pop, Walk, Propagate
  <2> QED  BY <2>1 DEF TempInv
<1>2. CASE BeginReport
  <2>1. phase' = "report" /\ cur' = Idle /\ work' = Reached /\ entry' = entry
    BY <1>2 DEF BeginReport
  <2>2. Reached' = Reached
    BY <2>1 DEF Reached
  <2> QED  BY <2>1, <2>2 DEF TempInv
<1>3. CASE \E k \in Block : Open(k)
  <2>1. PICK k \in Block : Open(k)
    BY <1>3
  <2>2. /\ UNCHANGED <<body, tracked, rpo, entry, before, traps, phase>> /\ phase = "report"
        /\ cur = Idle /\ cur' = [block |-> k, index |-> 1, state |-> entry[k]]
        /\ work' = work \ {k}
    BY <2>1 DEF Open
  <2>3. cur'.block = k /\ cur'.index - 1 = 0
    BY <2>2
  <2>4. cur' # Idle
    <3>1. DOMAIN cur' = {"block", "index", "state"}
      BY <2>2
    <3> QED  BY <3>1 DEF Idle
  <2>5. Reached' = Reached
    BY <2>2 DEF Reached
  <2>6. Kept(k, 0)'
    BY DEF Kept
  <2>7. ASSUME NEW j \in Reached, j \notin work', ~Walking(j)'
        PROVE  Kept(j, Len(body.code[j]))'
    <3>1. j \notin work /\ ~Walking(j)
      BY <2>2, <2>3, <2>4, <2>7 DEF Walking
    <3>2. Kept(j, Len(body.code[j]))
      BY <2>2, <3>1 DEF TempInv
    <3> QED  BY <2>2, <3>2, KeptStays
  <2>8. Kept(cur.block, cur.index - 1)'
    BY <2>3, <2>6
  <2> QED  BY <2>2, <2>5, <2>7, <2>8 DEF TempInv
<1>4. CASE Report
  <2>1. PICK k : k = cur.block
    OBVIOUS
  <2>2. PICK i : i = cur.index
    OBVIOUS
  <2> QED  BY <1>4, <2>1, <2>2, ReportKeeps
<1>5. CASE BeginRun
  <2>1. /\ UNCHANGED <<body, tracked, rpo, entry, before, traps>> /\ phase' = "run"
        /\ phase = "report" /\ cur = Idle /\ work = {}
    BY <1>5 DEF BeginRun
  <2>2. Reached' = Reached
    BY <2>1 DEF Reached
  <2>3. ASSUME NEW j \in Reached PROVE Kept(j, Len(body.code[j]))'
    <3>1. Kept(j, Len(body.code[j]))
      BY <2>1 DEF TempInv, Walking
    <3> QED  BY <2>1, <3>1, KeptStays
  <2> QED  BY <2>1, <2>2, <2>3 DEF TempInv
<1>6. CASE Stop \/ Execute \/ UNCHANGED vars
  <2>1. /\ UNCHANGED <<body, tracked, rpo, entry, before, work, cur, traps>>
        /\ phase' = phase \/ phase' = "stopped"
    BY <1>6 DEF Stop, Execute, vars
  <2> QED  BY <2>1, TempStays
<1> QED  BY <1>1, <1>2, <1>3, <1>4, <1>5, <1>6 DEF Next

\* What a temporary of the running body holds was brought to its point.
HeldInv ==
  phase = "run" =>
    \A l \in Local : tracked[l] = "temporary" /\ conc[l] = "value" =>
      Brought(body, tracked, rpo, l, "value", at.block, at.index)

\* A parameter's value is handed to the first point.
LEMMA BeginRunHolds ==
  ASSUME IInv, BeginRun
  PROVE  HeldInv'
<1>1. /\ UNCHANGED <<body, tracked, rpo, conc>> /\ at' = At(body.entry, 1)
      /\ conc = [l \in Local |-> IF l \in body.params THEN "value" ELSE "unassigned"]
  BY DEF BeginRun, IInv, TypeInv
<1>2. at'.block = body.entry /\ at'.index = 1 /\ 1..(1 - 1) = {}
  BY <1>1 DEF At
<1>3. ASSUME NEW l \in Local, conc[l] = "value" PROVE l \in body.params
  BY <1>1, <1>3
<1>4. ASSUME NEW l \in Local, conc[l] = "value"
      PROVE  Brought(body, tracked, rpo, l, "value", body.entry, 1)
  BY <1>2, <1>3, <1>4 DEF Brought, Handed
<1> QED  BY <1>1, <1>2, <1>4 DEF HeldInv

\* A step that runs on takes what is held to the next point.
LEMMA ExecuteHolds ==
  ASSUME IInv, BroughtInv, HeldInv, Execute, NEW k \in Block, NEW i, k = at.block, i = at.index,
         NEW l \in Local, tracked[l] = "temporary", conc'[l] = "value"
  PROVE  Brought(body, tracked, rpo, l, "value", at'.block, at'.index)
<1> DEFINE instr == body.code[k][i]
           state == [m \in Local |-> Just(conc[m])]
<1>1. /\ body \in Bodies /\ tracked = Kinds(body) /\ phase = "run" /\ conc \in [Local -> Content]
      /\ k \in Reached /\ i \in 1..Len(body.code[k])
      /\ k \in DOMAIN rpo /\ rpo = reverse_postorder(body)
  BY DEF IInv, TypeInv, RunInv, Execute, BroughtInv
<1>2. InstrAt(body, at) = instr /\ instr \in Instr
  BY <1>1, BodyFacts DEF InstrAt
<1>3. /\ conc' = Executed(instr)
      /\ \/ instr.kind \in Statements /\ at' = At(k, i + 1)
         \/ instr.kind \notin Statements /\ instr.kind # "trap"
            /\ \E j \in SuccsOf(instr) : at' = At(j, 1)
  BY <1>2 DEF Execute
<1>4. instr.kind # "trap"
  BY <1>3 DEF Statements
<1>5. state \in State
  BY <1>1 DEF State, Holds, Flag, Just
<1>6. Allowed(state)
  BY DEF Allowed, Within, Just
<1>7. "value" \in StepOf(body, tracked, instr, state)[l]
  <2> HIDE DEF state, instr
  <2>1. Within(tracked, l, Executed(instr)[l], StepOf(body, tracked, instr, state)[l])
    BY <1>1, <1>2, <1>4, <1>5, <1>6, StepAllowed
  <2> QED  BY <1>3, <2>1 DEF Within
<1>8. "value" \in state[l] => Brought(body, tracked, rpo, l, "value", k, i)
  BY <1>1 DEF HeldInv, Just
<1>9. Sought(tracked, l, "value")
  BY DEF Sought
<1>10. /\ i < Len(body.code[k]) => Brought(body, tracked, rpo, l, "value", k, i + 1)
       /\ \A j \in successors(body, k) : i = Len(body.code[k]) /\ Edge(rpo, TRUE, k, j)
             => Brought(body, tracked, rpo, l, "value", j, 1)
  <2> HIDE DEF state
  <2> QED  BY <1>1, <1>4, <1>7, <1>8, <1>9, BroughtStep
<1>11. i \in Nat /\ Len(body.code[k]) \in Nat /\ i <= Len(body.code[k])
       /\ (instr.kind \in Terminators <=> i = Len(body.code[k]))
  BY <1>1, BodyFacts
<1> HIDE DEF state
<1>12. CASE instr.kind \in Statements /\ at' = At(k, i + 1)
  <2>1. i < Len(body.code[k])
    BY <1>11, <1>12 DEF Statements, Terminators
  <2>2. at'.block = k /\ at'.index = i + 1
    BY <1>12 DEF At
  <2> QED  BY <1>10, <2>1, <2>2
<1>13. CASE instr.kind \notin Statements /\ \E j \in SuccsOf(instr) : at' = At(j, 1)
  <2>1. PICK j \in SuccsOf(instr) : at' = At(j, 1)
    BY <1>13
  <2>2. i = Len(body.code[k])
    BY <1>2, <1>11, <1>13 DEF Instr
  <2>3. j \in successors(body, k)
    BY <2>1, <2>2 DEF Last, successors
  <2>4. Edge(rpo, TRUE, k, j)
    BY <1>1, <2>3, OrderFacts DEF Edge
  <2>5. at'.block = j /\ at'.index = 1
    BY <2>1 DEF At
  <2> QED  BY <1>10, <2>2, <2>3, <2>4, <2>5
<1> QED  BY <1>3, <1>12, <1>13

LEMMA NextHolds == IInv /\ BroughtInv /\ HeldInv /\ [Next]_vars => HeldInv'
<1> SUFFICES ASSUME IInv, BroughtInv, HeldInv, [Next]_vars PROVE HeldInv'
  OBVIOUS
<1>1. CASE BeginRun
  BY <1>1, BeginRunHolds
<1>2. CASE Execute
  <2>1. PICK k : k = at.block
    OBVIOUS
  <2>2. PICK i : i = at.index
    OBVIOUS
  <2>3. k \in Block /\ UNCHANGED <<body, tracked, rpo>>
    BY <1>2, <2>1 DEF IInv, RunInv, Execute, Reached
  <2>4. ASSUME NEW l \in Local, tracked[l] = "temporary", conc'[l] = "value"
        PROVE  Brought(body, tracked, rpo, l, "value", at'.block, at'.index)
    BY <1>2, <2>1, <2>2, <2>3, <2>4, ExecuteHolds
  <2> QED  BY <2>3, <2>4 DEF HeldInv
<1>3. CASE UNCHANGED vars
  BY <1>3 DEF vars, HeldInv
<1>4. CASE phase' # "run"
  BY <1>4 DEF HeldInv
<1>5. \/ BeginRun \/ Execute \/ UNCHANGED vars \/ phase' # "run"
  BY DEF Next, Pop, Walk, Propagate, BeginReport, Open, Report, Stop
<1> QED  BY <1>1, <1>2, <1>3, <1>4, <1>5

\* A body that runs comes to no untrapped point that would lose one.
LEMMA InvTemporaries == IInv /\ TempInv /\ HeldInv => NoTemporaryLost
<1> SUFFICES ASSUME IInv, TempInv, HeldInv, phase = "run", at \notin traps,
                    NEW l \in Local, tracked[l] = "temporary",
                    \/ InstrAt(body, at).kind = "return"
                    \/ InstrAt(body, at).kind = "dead" /\ InstrAt(body, at).dest.local = l,
                    conc[l] = "value"
             PROVE  FALSE
  BY DEF NoTemporaryLost
<1>1. PICK k : k = at.block
  OBVIOUS
<1>2. PICK i : i = at.index
  OBVIOUS
<1>3. /\ k \in Reached /\ i \in 1..Len(body.code[k]) /\ at = At(k, i)
      /\ Allowed(before[k][i]) /\ Kept(k, Len(body.code[k]))
      /\ body \in Bodies /\ tracked = Kinds(body)
  BY <1>1, <1>2 DEF IInv, TypeInv, RunInv, TempInv
<1>4. InstrAt(body, at) = body.code[k][i] /\ k \in Block
  BY <1>1, <1>2, <1>3 DEF InstrAt, Reached
<1>5. "value" \in before[k][i][l]
  BY <1>3 DEF Allowed, Within
<1>6. Brought(body, tracked, rpo, l, "value", k, i)
  BY <1>1, <1>2 DEF HeldInv
<1>7. ~Handed(body, tracked, l, "value", k, i)
  BY <1>3, <1>4, HandedIs DEF Sought
<1>8. Filled(body, tracked, rpo, l, k, i)
  BY <1>6, <1>7 DEF Brought, Filled
<1>9. LosesTemporary(body, tracked, rpo, k, i, before[k][i])
  BY <1>4, <1>5, <1>8 DEF LosesTemporary
<1> QED  BY <1>3, <1>9 DEF Kept
-----------------------------------------------------------------------------
(* Theorems.                                                                *)

\* Whatever the control-flow graph, once the work list is empty every block
\* reached was last walked from the state entering it, and what leaves it is
\* inside what enters each of its successors (BodyCheck::run).
FixpointClosed == phase # "fix" => \A k \in Reached : Settled(k)

THEOREM FixpointIsClosed == Spec => []FixpointClosed
<1>1. IInv => FixpointClosed
  BY DEF IInv, ReportInv, FixpointClosed
<1> QED  BY InitEstablishes, NextPreserves, <1>1, PTL DEF Spec

\* The move checker is sound for every body: whatever branches it takes, a
\* body trapped where it was refused reads no binding that holds nothing,
\* writes into none, and loses no value that must be consumed.
THEOREM MovesAreSound == Spec => []NoMisuse
BY InitEstablishes, NextPreserves, InvNoMisuse, PTL DEF Spec

\* Before it reports, the checker holds of each binding at each block exactly
\* the contents some path leaves there, for every body without a trap of
\* lowering's: none missed, none imagined (BodyCheck::run, step, join).
THEOREM FlagsArePathsOfBodies == Spec => []FlagsAreThePaths
BY InitEstablishes, NextPreserves, InitPaths, NextPaths, InvFlags, PTL DEF Spec

\* A report of a second use never blames the wrong move, for every body: the
\* move it names took the value, a path leads from it to the use without a
\* new value between, and it is said to come round a loop only when no move
\* reaches the use without one (find_move, walk_back).
THEOREM BlameIsReal == Spec => []BlameIsARealMove
<1>1. Init => BlameInv
  BY DEF Init, BlameInv
<1> QED  BY InitEstablishes, NextPreserves, InitBrought, NextBrought, <1>1, NextBlame, InvBlame,
            PTL DEF Spec

\* No value that must be consumed is lost in a temporary, for every body:
\* where its storage or the body ends, the walk back always finds the write
\* that filled it, so the loss is reported and trapped (abandoned,
\* walk_back).
THEOREM TemporariesAreNotLost == Spec => []NoTemporaryLost
<1>1. Init => TempInv /\ HeldInv
  BY DEF Init, TempInv, HeldInv
<1> QED  BY InitEstablishes, NextPreserves, InitBrought, NextBrought, <1>1, NextKeeps, NextHolds,
            InvTemporaries, PTL DEF Spec
=============================================================================
