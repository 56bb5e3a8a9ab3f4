------------------------------ MODULE Loans_proofs ------------------------------
(***************************************************************************)
(* Proofs about Loans, for every control-flow graph, the edges out of traps *)
(* included, over the bodies of LoanBodiesAssumption (Typed: one level of   *)
(* pointers, none inside a record, a call that gives one was given one of   *)
(* its kind; Lowered): once a sweep changes nothing, the loans in scope     *)
(* entering a block are those some path brings there from their mint; a     *)
(* body the checker lets run uses no pointer a foreign access has           *)
(* invalidated; and a temp that stands for a place goes where the place     *)
(* does.  The last two are about the invariant Running, which relates the   *)
(* pointers of the run to the loans in scope where it is.                   *)
(***************************************************************************)
EXTENDS Loans, TLAPS, FiniteSetTheorems, WellFoundedInduction

\* A point leaves the loan in scope.
Survives(x, p) ==
  /\ x \in live_loans_at(p)
  /\ ~\E access \in accesses_at(InstrAt(body, p)) : access.shallow /\ kills(access.place, x)

\* What comes after the points of T the loan survives is in T.
Kept(x, T) == \A p \in T : Survives(x, p) => NextPoints(body, p) \subseteq T

\* The points some path brings the loan to.
Walked(x) ==
  {q \in Points(body) :
     \A T \in SUBSET Points(body) :
       NextPoints(body, x.mint) \subseteq T /\ Kept(x, T) => q \in T}

\* What leaves a block is in scope entering its successors.
Out(k) == ThroughBlock(k, scope_in[k])[Len(body.code[k]) + 1]
Closed(k) == \A j \in successors(body, k) : Out(k) \subseteq scope_in[j]

Phases == {"new", "scope", "report", "ready", "run", "stopped"}

TypeInv ==
  /\ body \in Bodies
  /\ phase \in Phases
  /\ changed \in BOOLEAN
  /\ sweep \in Block
  /\ scope_in \in [Block -> SUBSET loans]
  /\ \A x \in loans : x.mint \in Points(body)
  /\ phase = "new" => loans = {} /\ sweep = FirstBlock /\ ~changed

\* A sweep that has changed nothing has found every block it passed closed.
SweepInv ==
  /\ phase = "scope" /\ ~changed => \A k \in Block : k < sweep => Closed(k)
  /\ phase \notin {"new", "scope"} => \A k \in Block : Closed(k)

PathInv == \A k \in Block : \A x \in scope_in[k] : At(k, 1) \in Walked(x)

IInv == TypeInv /\ SweepInv /\ PathInv
-----------------------------------------------------------------------------
(* Bodies, points and blocks.                                               *)

LEMMA BodyFacts ==
  ASSUME body \in Bodies
  PROVE  /\ body.entry \in Block
         /\ \A k \in Block :
              /\ Len(body.code[k]) \in Nat \ {0}
              /\ DOMAIN body.code[k] = 1..Len(body.code[k])
              /\ \A i \in 1..Len(body.code[k]) : body.code[k][i] \in Instr
              /\ successors(body, k) \subseteq Block
<1>1. IsBody(body)
  BY BodiesAssumption
<1>2. body.entry \in Block /\ body.code \in [Block -> Seq(Instr)]
  BY <1>1 DEF IsBody, Body
<1>3. ASSUME NEW k \in Block
      PROVE  /\ Len(body.code[k]) \in Nat \ {0}
             /\ DOMAIN body.code[k] = 1..Len(body.code[k])
             /\ \A i \in 1..Len(body.code[k]) : body.code[k][i] \in Instr
             /\ successors(body, k) \subseteq Block
  <2> DEFINE code == body.code[k]
  <2>1. code \in Seq(Instr)
    BY <1>2
  <2>2. code # <<>>
    BY <1>1 DEF IsBody
  <2> HIDE DEF code
  <2>3. Len(code) \in Nat \ {0} /\ DOMAIN code = 1..Len(code) /\ \A i \in 1..Len(code) : code[i] \in Instr
    BY <2>1, <2>2
  <2>4. code[Len(code)] \in Instr
    BY <2>3
  <2>5. code[Len(code)].succs \in Seq(Block)
    BY <2>4 DEF Instr
  <2>6. successors(body, k) \subseteq Block
    BY <2>5 DEF code, successors, SuccsOf, Last
  <2> QED  BY <2>3, <2>6 DEF code
<1> QED  BY <1>2, <1>3

LEMMA AtIs ==
  \A k, i, j, n : /\ At(k, i).block = k /\ At(k, i).index = i
                  /\ At(k, i) = At(j, n) <=> k = j /\ i = n
BY DEF At

LEMMA PointIs ==
  ASSUME body \in Bodies
  PROVE  /\ \A k \in Block : \A i \in 1..Len(body.code[k]) : At(k, i) \in Points(body)
         /\ \A p \in Points(body) :
              /\ p.block \in Block /\ p.index \in 1..Len(body.code[p.block])
              /\ p = At(p.block, p.index)
<1>1. \A k \in Block : DOMAIN body.code[k] = 1..Len(body.code[k])
  BY BodyFacts
<1> QED  BY <1>1, AtIs DEF Points

LEMMA PointsFinite ==
  ASSUME body \in Bodies
  PROVE  IsFiniteSet(Points(body))
<1> DEFINE OfBlock(k) == {At(k, i) : i \in DOMAIN body.code[k]}
           All == {OfBlock(k) : k \in Block}
           f == [k \in Block |-> OfBlock(k)]
<1>1. ASSUME NEW k \in Block PROVE IsFiniteSet(OfBlock(k))
  <2> DEFINE n == Len(body.code[k])
             g == [i \in 1..n |-> At(k, i)]
  <2>1. n \in Nat /\ DOMAIN body.code[k] = 1..n
    BY BodyFacts
  <2>2. IsFiniteSet(1..n)
    BY <2>1, FS_Interval
  <2> HIDE DEF n
  <2>3. g \in Surjection(1..n, OfBlock(k))
    BY <2>1 DEF Surjection
  <2> HIDE DEF g, OfBlock
  <2> QED  BY <2>2, <2>3, FS_Surjection
<1>2. f \in Surjection(Block, All)
  BY DEF Surjection
<1>3. IsFiniteSet(All)
  <2> HIDE DEF f, All
  <2> QED  BY <1>2, BlockAssumption, FS_Surjection
<1>4. \A T \in All : IsFiniteSet(T)
  BY <1>1
<1>5. Points(body) = UNION All
  BY DEF Points
<1> HIDE DEF All
<1> QED  BY <1>3, <1>4, <1>5, FS_UNION

LEMMA NextIs ==
  ASSUME body \in Bodies, NEW p \in Points(body)
  PROVE  NextPoints(body, p) \in SUBSET Points(body)
<1> DEFINE k == p.block
           i == p.index
<1>1. k \in Block /\ i \in 1..Len(body.code[k]) /\ Len(body.code[k]) \in Nat
  BY PointIs, BodyFacts
<1>2. CASE i < Len(body.code[k])
  <2>1. i + 1 \in 1..Len(body.code[k])
    BY <1>1, <1>2
  <2>2. At(k, i + 1) \in Points(body)
    BY <1>1, <2>1, PointIs
  <2> QED  BY <1>2, <2>2 DEF NextPoints
<1>3. CASE ~(i < Len(body.code[k]))
  <2>1. \A j \in successors(body, k) : At(j, 1) \in Points(body)
    <3>1. \A j \in successors(body, k) : j \in Block /\ 1 \in 1..Len(body.code[j])
      BY <1>1, BodyFacts
    <3> QED  BY <3>1, PointIs
  <2> QED  BY <1>3, <2>1 DEF NextPoints
<1> QED  BY <1>2, <1>3

NatLess == {ss \in Nat \X Nat : ss[1] < ss[2]}

\* A set of numbers has a least one.
LEMMA Least ==
  ASSUME NEW T \in SUBSET Nat, T # {}
  PROVE  \E x \in T : \A y \in T : x <= y
<1>1. IsWellFoundedOn(NatLess, Nat)
  BY NatLessThanWellFounded DEF OpToRel, NatLess
<1>2. PICK x \in T : \A y \in T : ~ (<<y, x>> \in NatLess)
  BY <1>1, WFMin
<1>3. \A y \in T : ~(y < x)
  BY <1>2 DEF NatLess
<1>4. \A y \in T : x <= y
  BY <1>3
<1> QED  BY <1>4

\* Induction up to k, of membership of a set.
LEMMA UpTo ==
  ASSUME NEW k \in Nat, NEW S, 0 \in S,
         \A n \in 0..k : n \in S /\ n < k => n + 1 \in S
  PROVE  \A n \in 0..k : n \in S
<1> DEFINE T == {n \in 0..k : n \notin S}
<1>1. SUFFICES ASSUME T # {} PROVE FALSE
  OBVIOUS
<1>2. T \in SUBSET Nat
  OBVIOUS
<1>3. PICK x \in T : \A y \in T : x <= y
  BY <1>1, <1>2, Least
<1>4. x \in 0..k /\ x \notin S /\ x # 0
  BY <1>3
<1>5. x - 1 \in 0..k /\ ~(x <= x - 1) /\ x - 1 < k /\ (x - 1) + 1 = x
  BY <1>4
<1>6. x - 1 \notin T
  BY <1>3, <1>5
<1> QED  BY <1>4, <1>5, <1>6

\* The blocks in order: the first, and the one after a block that is not the
\* last.
LEMMA BlockOrder ==
  ASSUME body \in Bodies, NEW k \in Block
  PROVE  /\ FirstBlock \in Block
         /\ \A j \in Block : ~(j < FirstBlock)
         /\ ~IsLast(k) => /\ NextBlock(k) \in Block
                          /\ \A j \in Block : j < NextBlock(k) => j < k \/ j = k
         /\ IsLast(k) => \A j \in Block : j < k \/ j = k
<1>1. Block \subseteq Nat /\ k \in Nat /\ \A j \in Block : j \in Nat
  BY BlockAssumption
<1>2. \E x \in Block : \A j \in Block : x <= j
  BY <1>1, Least
<1>3. FirstBlock \in Block /\ \A j \in Block : FirstBlock <= j
  BY <1>2 DEF FirstBlock
<1>4. \A j \in Block : ~(j < FirstBlock)
  BY <1>1, <1>3
<1>5. ASSUME ~IsLast(k)
      PROVE  NextBlock(k) \in Block /\ \A j \in Block : j < NextBlock(k) => j < k \/ j = k
  <2> DEFINE Later == {j \in Block : j > k}
  <2>1. Later \in SUBSET Nat
    BY <1>1
  <2>n. PICK n \in Block : ~(n <= k)
    BY <1>5, Zenon DEF IsLast
  <2>l. n \in Later
    BY <1>1, <2>n
  <2>2. PICK x \in Later : \A y \in Later : x <= y
    <3> HIDE DEF Later
    <3> QED  BY <2>1, <2>l, Least
  <2>3. \E j \in Block : j > k /\ \A i \in Block : i > k => j <= i
    BY <2>2
  <2>4. NextBlock(k) \in Block /\ \A i \in Block : i > k => NextBlock(k) <= i
    BY <2>3 DEF NextBlock
  <2>5. ASSUME NEW j \in Block, j < NextBlock(k) PROVE j < k \/ j = k
    <3>1. j \in Nat /\ NextBlock(k) \in Nat /\ k \in Nat
      BY <1>1, <2>4
    <3>2. j > k => NextBlock(k) <= j
      BY <2>4
    <3> QED  BY <2>5, <3>1, <3>2
  <2> QED  BY <2>4, <2>5
<1>6. ASSUME IsLast(k), NEW j \in Block PROVE j < k \/ j = k
  <2>1. j <= k
    BY <1>6, Zenon DEF IsLast
  <2> QED  BY <1>1, <2>1
<1> QED  BY <1>3, <1>4, <1>5, <1>6
-----------------------------------------------------------------------------
(* A block, point by point.                                                 *)

LEMMA StepIs ==
  ASSUME NEW p, NEW scope \in SUBSET loans
  PROVE  /\ step(p, scope) \in SUBSET loans
         /\ \A x : x \in step(p, scope) <=>
                     x \in loans /\ ((x \in scope /\ Survives(x, p)) \/ x.mint = p)
BY DEF step, LiveScope, Survives

\* The loan has come to point i of the block: it was in scope entering it,
\* or is minted before, and has survived from there.
Came(x, k, i, scope) ==
  \/ x \in scope /\ \A m \in 1..(i - 1) : Survives(x, At(k, m))
  \/ \E j \in 1..(i - 1) : /\ x.mint = At(k, j)
                           /\ \A m \in (j + 1)..(i - 1) : Survives(x, At(k, m))

BlockRule(k, scope, f) ==
  [i \in Nat |-> IF i <= 1 THEN scope ELSE step(At(k, i - 1), f[i - 1])]

LEMMA CameOn ==
  ASSUME NEW k, NEW i \in Nat \ {0}, NEW scope, NEW x
  PROVE  Came(x, k, i + 1, scope)
           <=> (Came(x, k, i, scope) /\ Survives(x, At(k, i))) \/ x.mint = At(k, i)
<1>1. (i + 1) - 1 = i /\ 1..i = 1..(i - 1) \cup {i}
  OBVIOUS
<1>2. \A j \in 1..(i - 1) : (j + 1)..i = (j + 1)..(i - 1) \cup {i}
  OBVIOUS
<1>3. \A m \in (i + 1)..i : FALSE
  OBVIOUS
<1>4. Came(x, k, i + 1, scope) <=>
        \/ x \in scope /\ \A m \in 1..(i - 1) \cup {i} : Survives(x, At(k, m))
        \/ \E j \in 1..(i - 1) \cup {i} : /\ x.mint = At(k, j)
                                          /\ \A m \in (j + 1)..i : Survives(x, At(k, m))
  BY <1>1, Zenon DEF Came
<1>5. (\E j \in 1..(i - 1) \cup {i} : /\ x.mint = At(k, j)
                                      /\ \A m \in (j + 1)..i : Survives(x, At(k, m)))
      <=> \/ \E j \in 1..(i - 1) : /\ x.mint = At(k, j)
                                   /\ \A m \in (j + 1)..(i - 1) \cup {i} : Survives(x, At(k, m))
          \/ x.mint = At(k, i)
  <2>1. (\A m \in (i + 1)..i : Survives(x, At(k, m)))
    BY <1>3
  <2>2. \A j \in 1..(i - 1) : (\A m \in (j + 1)..i : Survives(x, At(k, m)))
          <=> (\A m \in (j + 1)..(i - 1) \cup {i} : Survives(x, At(k, m)))
    BY <1>2, Zenon
  <2> QED  BY <2>1, <2>2, Zenon
<1> QED  BY <1>4, <1>5, Zenon DEF Came

LEMMA ThroughIs ==
  ASSUME NEW k \in Block, NEW scope \in SUBSET loans, Len(body.code[k]) \in Nat
  PROVE  /\ ThroughBlock(k, scope)[1] = scope
         /\ \A i \in 1..Len(body.code[k]) :
              ThroughBlock(k, scope)[i + 1] = step(At(k, i), ThroughBlock(k, scope)[i])
         /\ \A i \in 1..(Len(body.code[k]) + 1) : ThroughBlock(k, scope)[i] \in SUBSET loans
<1> DEFINE n == Len(body.code[k])
           g == [i \in Nat |-> IF i <= 1 THEN scope ELSE {x \in loans : Came(x, k, i, scope)}]
           before == CHOOSE f : f = BlockRule(k, scope, f)
<1>1. ASSUME NEW i \in Nat
      PROVE  g[i] = IF i <= 1 THEN scope ELSE step(At(k, i - 1), g[i - 1])
  <2>1. CASE i <= 1
    BY <2>1
  <2>2. CASE ~(i <= 1)
    <3>1. i - 1 \in Nat \ {0} /\ (i - 1) + 1 = i
      BY <2>2
    <3>2. g[i - 1] = {x \in loans : Came(x, k, i - 1, scope)}
      <4>1. CASE i - 1 <= 1
        <5>1. i - 1 = 1 /\ 1..(1 - 1) = {}
          BY <3>1, <4>1
        <5>2. \A x : Came(x, k, 1, scope) <=> x \in scope
          BY <5>1, Zenon DEF Came
        <5>3. g[i - 1] = scope
          BY <3>1, <4>1
        <5> HIDE DEF g
        <5> QED  BY <5>1, <5>2, <5>3
      <4>2. CASE ~(i - 1 <= 1)
        BY <3>1, <4>2
      <4> QED  BY <4>1, <4>2
    <3>3. g[i] = {x \in loans : Came(x, k, i, scope)}
      BY <2>2
    <3> HIDE DEF g
    <3>4. g[i - 1] \in SUBSET loans
      BY <3>2
    <3>5. \A x : Came(x, k, i, scope)
            <=> (Came(x, k, i - 1, scope) /\ Survives(x, At(k, i - 1))) \/ x.mint = At(k, i - 1)
      BY <3>1, CameOn
    <3>6. \A x : x \in step(At(k, i - 1), g[i - 1]) <=>
            x \in loans /\ ((x \in g[i - 1] /\ Survives(x, At(k, i - 1))) \/ x.mint = At(k, i - 1))
      BY <3>4, StepIs
    <3>7. g[i] = step(At(k, i - 1), g[i - 1])
      BY <3>2, <3>3, <3>5, <3>6
    <3> QED  BY <2>2, <3>7
  <2> QED  BY <2>1, <2>2
<1>2. g = [i \in Nat |-> g[i]]
  OBVIOUS
<1> HIDE DEF g
<1>3. g = BlockRule(k, scope, g)
  BY <1>1, <1>2 DEF BlockRule
<1>4. before = BlockRule(k, scope, before)
  BY <1>3
<1>5. ThroughBlock(k, scope) = [i \in 1..(n + 1) |-> before[i]]
  BY DEF ThroughBlock, BlockRule
<1> HIDE DEF before
<1>6. before[1] = scope /\ \A i \in Nat \ {0} : before[i + 1] = step(At(k, i), before[i])
  <2>1. before[1] = scope
    BY <1>4 DEF BlockRule
  <2>2. ASSUME NEW i \in Nat \ {0} PROVE before[i + 1] = step(At(k, i), before[i])
    <3>1. i + 1 \in Nat /\ ~(i + 1 <= 1) /\ (i + 1) - 1 = i
      OBVIOUS
    <3>2. before[i + 1] = IF i + 1 <= 1 THEN scope ELSE step(At(k, (i + 1) - 1), before[(i + 1) - 1])
      BY <1>4, <3>1 DEF BlockRule
    <3> QED  BY <3>1, <3>2
  <2> QED  BY <2>1, <2>2
<1>7. \A i \in 0..n : i \in {m \in Nat : before[m + 1] \in SUBSET loans}
  <2> DEFINE S == {m \in Nat : before[m + 1] \in SUBSET loans}
  <2>1. 0 \in S
    BY <1>6
  <2>2. ASSUME NEW m \in 0..n, m \in S, m < n PROVE m + 1 \in S
    <3>1. m + 1 \in Nat \ {0} /\ before[m + 1] \in SUBSET loans
      BY <2>2
    <3>2. before[(m + 1) + 1] = step(At(k, m + 1), before[m + 1])
      BY <1>6, <3>1
    <3>3. step(At(k, m + 1), before[m + 1]) \in SUBSET loans
      BY <3>1, StepIs
    <3> QED  BY <3>1, <3>2, <3>3
  <2> HIDE DEF S
  <2>3. \A m \in 0..n : m \in S
    BY <2>1, <2>2, UpTo
  <2> QED  BY <2>3 DEF S
<1>8. ASSUME NEW i \in 1..(n + 1) PROVE ThroughBlock(k, scope)[i] \in SUBSET loans
  <2>1. i - 1 \in 0..n /\ (i - 1) + 1 = i
    OBVIOUS
  <2> QED  BY <1>5, <1>7, <2>1
<1>9. ThroughBlock(k, scope)[1] = scope
  <2>1. 1 \in 1..(n + 1)
    OBVIOUS
  <2> QED  BY <1>5, <1>6, <2>1
<1>10. ASSUME NEW i \in 1..n
       PROVE  ThroughBlock(k, scope)[i + 1] = step(At(k, i), ThroughBlock(k, scope)[i])
  <2>1. i \in 1..(n + 1) /\ i + 1 \in 1..(n + 1) /\ i \in Nat \ {0}
    OBVIOUS
  <2> HIDE DEF n
  <2> QED  BY <1>5, <1>6, <2>1
<1> QED  BY <1>8, <1>9, <1>10
-----------------------------------------------------------------------------
(* Sets that grow until they no longer do, which is how the checker writes  *)
(* its closures: they end at the least set the step adds nothing to.        *)

\* The step only adds, and adds more to more.
Expands(U, nxt) ==
  /\ nxt \in [SUBSET U -> SUBSET U]
  /\ \A s \in SUBSET U : s \subseteq nxt[s]
  /\ \A s, t \in SUBSET U : s \subseteq t => nxt[s] \subseteq nxt[t]

Fixed(U, nxt, s) ==
  {n \in U : \A t \in SUBSET U : s \subseteq t /\ nxt[t] = t => n \in t}

GrowthOf(U, nxt, f) == f = [s \in SUBSET U |-> IF nxt[s] = s THEN s ELSE f[nxt[s]]]

LEMMA FixedIs ==
  ASSUME NEW U, NEW nxt, Expands(U, nxt), NEW s \in SUBSET U
  PROVE  /\ s \subseteq Fixed(U, nxt, s)
         /\ nxt[Fixed(U, nxt, s)] = Fixed(U, nxt, s)
         /\ Fixed(U, nxt, nxt[s]) = Fixed(U, nxt, s)
         /\ nxt[s] = s => Fixed(U, nxt, s) = s
<1> DEFINE G == Fixed(U, nxt, s)
<1>1. s \subseteq G /\ G \in SUBSET U
  BY DEF Fixed
<1>2. nxt[G] = G
  <2>1. nxt[G] \in SUBSET U /\ G \subseteq nxt[G]
    BY <1>1 DEF Expands
  <2>2. ASSUME NEW t \in SUBSET U, s \subseteq t, nxt[t] = t PROVE nxt[G] \subseteq t
    <3>1. G \subseteq t
      BY <2>2 DEF Fixed
    <3>2. nxt[G] \subseteq nxt[t]
      BY <1>1, <3>1 DEF Expands
    <3> QED  BY <2>2, <3>2
  <2>3. nxt[G] \subseteq G
    BY <2>1, <2>2 DEF Fixed
  <2> QED  BY <2>1, <2>3
<1>3. \A t \in SUBSET U : nxt[t] = t => (s \subseteq t <=> nxt[s] \subseteq t)
  <2> SUFFICES ASSUME NEW t \in SUBSET U, nxt[t] = t PROVE s \subseteq t <=> nxt[s] \subseteq t
    OBVIOUS
  <2>1. s \subseteq t => nxt[s] \subseteq nxt[t]
    BY DEF Expands
  <2>2. s \subseteq nxt[s]
    BY DEF Expands
  <2> QED  BY <2>1, <2>2
<1>4. Fixed(U, nxt, nxt[s]) = G
  BY <1>3 DEF Fixed
<1>5. nxt[s] = s => G = s
  <2> SUFFICES ASSUME nxt[s] = s PROVE G \subseteq s
    BY <1>1
  <2> QED  BY DEF Fixed
<1> QED  BY <1>1, <1>2, <1>4, <1>5

LEMMA GrowthExists ==
  ASSUME NEW U, NEW nxt, Expands(U, nxt)
  PROVE  \E f : GrowthOf(U, nxt, f)
<1> DEFINE least == [s \in SUBSET U |-> Fixed(U, nxt, s)]
<1>1. ASSUME NEW s \in SUBSET U
      PROVE  least[s] = IF nxt[s] = s THEN s ELSE least[nxt[s]]
  <2>1. nxt[s] \in SUBSET U
    BY DEF Expands
  <2> QED  BY <2>1, FixedIs
<1>2. least = [s \in SUBSET U |-> least[s]]
  OBVIOUS
<1> HIDE DEF least
<1>3. least = [s \in SUBSET U |-> IF nxt[s] = s THEN s ELSE least[nxt[s]]]
  BY <1>1, <1>2
<1> QED  BY <1>3, Zenon DEF GrowthOf

LEMMA GrowthEnds ==
  ASSUME NEW U, IsFiniteSet(U), NEW nxt, Expands(U, nxt), NEW f, GrowthOf(U, nxt, f),
         NEW s0 \in SUBSET U
  PROVE  f[s0] = Fixed(U, nxt, s0)
<1> DEFINE Bad == {t \in SUBSET U : f[t] # Fixed(U, nxt, t)}
           size(t) == Cardinality(U \ t)
           Sizes == {size(t) : t \in Bad}
<1>1. SUFFICES ASSUME Bad # {} PROVE FALSE
  OBVIOUS
<1>2. \A t \in SUBSET U : IsFiniteSet(U \ t) /\ size(t) \in Nat
  BY FS_Subset, FS_CardinalityType
<1>3. Sizes \in SUBSET Nat /\ Sizes # {}
  BY <1>1, <1>2
<1>4. PICK m \in Sizes : \A n \in Sizes : m <= n
  <2> HIDE DEF Sizes
  <2> QED  BY <1>3, Least
<1>5. PICK t \in Bad : m = size(t)
  BY <1>4
<1> DEFINE u == nxt[t]
<1>6. t \in SUBSET U /\ u \in SUBSET U /\ t \subseteq u /\ f[t] # Fixed(U, nxt, t)
  BY <1>5 DEF Expands
<1>7. f[t] = IF u = t THEN t ELSE f[u]
  BY <1>6 DEF GrowthOf
<1>8. u # t
  BY <1>6, <1>7, FixedIs
<1>9. Fixed(U, nxt, u) = Fixed(U, nxt, t)
  BY <1>6, FixedIs
<1> HIDE DEF u
<1>10. u \in Bad
  BY <1>6, <1>7, <1>8, <1>9
<1>11. size(u) < size(t)
  <2>1. U \ u \in SUBSET (U \ t) /\ U \ u # U \ t
    BY <1>6, <1>8
  <2>2. Cardinality(U \ u) <= Cardinality(U \ t) /\ Cardinality(U \ u) # Cardinality(U \ t)
    BY <1>2, <1>6, <2>1, FS_Subset
  <2>3. Cardinality(U \ u) \in Nat /\ Cardinality(U \ t) \in Nat
    BY <1>2, <1>6
  <2> QED  BY <2>2, <2>3
<1>12. m <= size(u)
  BY <1>4, <1>10
<1>13. size(u) \in Nat /\ size(t) \in Nat
  BY <1>2, <1>6
<1> HIDE DEF size
<1> QED  BY <1>5, <1>11, <1>12, <1>13
-----------------------------------------------------------------------------
(* The paths of a loan.                                                     *)

\* The points a path of the loan comes to in one more step.
Onward(x, s) == s \cup UNION {NextPoints(body, p) : p \in {q \in s : Survives(x, q)}}

\* The step as ScopeIsSomePath takes it.
WalkRule(x, f) ==
  [s \in SUBSET Points(body) |->
     LET more == s \cup UNION {NextPoints(body, p) :
                   p \in {q \in s :
                     /\ x \in live_loans_at(q)
                     /\ ~\E access \in accesses_at(InstrAt(body, q)) :
                           access.shallow /\ kills(access.place, x)}}
     IN  IF more = s THEN s ELSE f[more]]

LEMMA OnwardExpands ==
  ASSUME body \in Bodies, NEW x
  PROVE  Expands(Points(body), [s \in SUBSET Points(body) |-> Onward(x, s)])
<1>1. ASSUME NEW s \in SUBSET Points(body)
      PROVE  Onward(x, s) \in SUBSET Points(body) /\ s \subseteq Onward(x, s)
  BY NextIs DEF Onward
<1>2. ASSUME NEW s \in SUBSET Points(body), NEW t \in SUBSET Points(body), s \subseteq t
      PROVE  Onward(x, s) \subseteq Onward(x, t)
  BY <1>2 DEF Onward
<1> QED  BY <1>1, <1>2 DEF Expands

LEMMA WalkIs ==
  ASSUME body \in Bodies, NEW x, x.mint \in Points(body)
  PROVE  (CHOOSE f : f = WalkRule(x, f))[NextPoints(body, x.mint)] = Walked(x)
<1> DEFINE U == Points(body)
           nxt == [s \in SUBSET U |-> Onward(x, s)]
           walk == CHOOSE f : f = WalkRule(x, f)
           start == NextPoints(body, x.mint)
<1>1. ASSUME NEW f PROVE f = WalkRule(x, f) <=> GrowthOf(U, nxt, f)
  <2>1. WalkRule(x, f) = [s \in SUBSET U |-> IF Onward(x, s) = s THEN s ELSE f[Onward(x, s)]]
    BY Zenon DEF WalkRule, Onward, Survives
  <2>2. [s \in SUBSET U |-> IF Onward(x, s) = s THEN s ELSE f[Onward(x, s)]]
          = [s \in SUBSET U |-> IF nxt[s] = s THEN s ELSE f[nxt[s]]]
    OBVIOUS
  <2> HIDE DEF nxt, U
  <2> QED  BY <2>1, <2>2 DEF GrowthOf
<1>2. Expands(U, nxt)
  BY OnwardExpands
<1>3. start \in SUBSET U
  BY NextIs
<1>4. IsFiniteSet(U)
  BY PointsFinite
<1>5. ASSUME NEW T \in SUBSET U PROVE nxt[T] = T <=> Kept(x, T)
  BY DEF Kept, Onward
<1>6. Fixed(U, nxt, start) = Walked(x)
  <2> HIDE DEF nxt, start
  <2>1. Walked(x) = {q \in U : \A T \in SUBSET U : start \subseteq T /\ Kept(x, T) => q \in T}
    BY Zenon DEF Walked, start
  <2> HIDE DEF U
  <2> QED  BY <1>5, <2>1, Zenon DEF Fixed
<1> HIDE DEF U, nxt, start
<1>7. \E f : f = WalkRule(x, f)
  BY <1>1, <1>2, GrowthExists
<1>8. walk = WalkRule(x, walk)
  BY <1>7
<1> HIDE DEF walk
<1>9. GrowthOf(U, nxt, walk)
  BY <1>1, <1>8
<1>10. walk[start] = Fixed(U, nxt, start)
  BY <1>2, <1>3, <1>4, <1>9, GrowthEnds
<1> QED  BY <1>6, <1>10 DEF walk, start

\* Where the loan comes along, it comes to what follows.
LEMMA WalkedIs ==
  ASSUME body \in Bodies, NEW x, x.mint \in Points(body)
  PROVE  /\ NextPoints(body, x.mint) \subseteq Walked(x)
         /\ Kept(x, Walked(x))
         /\ \A T \in SUBSET Points(body) :
              NextPoints(body, x.mint) \subseteq T /\ Kept(x, T) => Walked(x) \subseteq T
<1>1. NextPoints(body, x.mint) \in SUBSET Points(body)
  BY NextIs
<1>2. NextPoints(body, x.mint) \subseteq Walked(x)
  BY <1>1 DEF Walked
<1>3. ASSUME NEW p \in Walked(x), Survives(x, p), NEW q \in NextPoints(body, p)
      PROVE  q \in Walked(x)
  <2>1. p \in Points(body)
    BY DEF Walked
  <2>2. q \in Points(body)
    BY <2>1, NextIs
  <2>3. ASSUME NEW T \in SUBSET Points(body), NextPoints(body, x.mint) \subseteq T, Kept(x, T)
        PROVE  q \in T
    <3>1. p \in T
      BY <2>3, Zenon DEF Walked
    <3> QED  BY <1>3, <2>3, <3>1 DEF Kept
  <2> QED  BY <2>2, <2>3 DEF Walked
<1>4. Kept(x, Walked(x))
  BY <1>3 DEF Kept
<1> QED  BY <1>2, <1>4, Zenon DEF Walked

\* A loan in scope somewhere in a block came there by a path, if those
\* entering the block did.
LEMMA ScopeWalked ==
  ASSUME TypeInv, NEW k \in Block, NEW x \in loans,
         x \in scope_in[k] => At(k, 1) \in Walked(x)
  PROVE  /\ \A i \in 1..Len(body.code[k]) :
              x \in ThroughBlock(k, scope_in[k])[i] => At(k, i) \in Walked(x)
         /\ x \in Out(k) => \A j \in successors(body, k) : At(j, 1) \in Walked(x)
<1> DEFINE T == ThroughBlock(k, scope_in[k])
           n == Len(body.code[k])
<1>1. body \in Bodies /\ x.mint \in Points(body) /\ scope_in[k] \in SUBSET loans
  BY DEF TypeInv
<1>2. n \in Nat \ {0}
  BY <1>1, BodyFacts
<1>3. /\ T[1] = scope_in[k]
      /\ \A i \in 1..n : T[i + 1] = step(At(k, i), T[i])
      /\ \A i \in 1..(n + 1) : T[i] \in SUBSET loans
  BY <1>1, <1>2, ThroughIs
<1> HIDE DEF T
<1>4. ASSUME NEW i \in 1..n, x \in T[i] => At(k, i) \in Walked(x), x \in T[i + 1]
      PROVE  NextPoints(body, At(k, i)) \subseteq Walked(x)
  <2>1. T[i] \in SUBSET loans /\ T[i + 1] = step(At(k, i), T[i])
    BY <1>3, <1>2
  <2>2. (x \in T[i] /\ Survives(x, At(k, i))) \/ x.mint = At(k, i)
    BY <1>4, <2>1, StepIs
  <2>3. CASE x.mint = At(k, i)
    BY <1>1, <2>3, WalkedIs
  <2>4. CASE x \in T[i] /\ Survives(x, At(k, i))
    BY <1>1, <1>4, <2>4, WalkedIs DEF Kept
  <2> QED  BY <2>2, <2>3, <2>4
<1> DEFINE S == {m \in 0..(n - 1) : x \in T[m + 1] => At(k, m + 1) \in Walked(x)}
<1>5. 0 \in S
  BY <1>2, <1>3
<1>6. ASSUME NEW m \in 0..(n - 1), m \in S, m < n - 1 PROVE m + 1 \in S
  <2>1. m + 1 \in 1..n /\ m + 1 < n /\ m + 1 \in 0..(n - 1)
    BY <1>2, <1>6
  <2>2. x \in T[m + 1] => At(k, m + 1) \in Walked(x)
    BY <1>6
  <2> HIDE DEF n, S
  <2>3. x \in T[(m + 1) + 1] => NextPoints(body, At(k, m + 1)) \subseteq Walked(x)
    BY <1>4, <2>1, <2>2
  <2>4. NextPoints(body, At(k, m + 1)) = {At(k, (m + 1) + 1)}
    BY <2>1, AtIs DEF NextPoints, n
  <2> QED  BY <2>1, <2>3, <2>4 DEF S
<1>7. \A m \in 0..(n - 1) : m \in S
  <2>1. n - 1 \in Nat
    BY <1>2
  <2> HIDE DEF S, n
  <2> QED  BY <1>5, <1>6, <2>1, UpTo
<1>8. ASSUME NEW i \in 1..n PROVE x \in T[i] => At(k, i) \in Walked(x)
  <2>1. i - 1 \in 0..(n - 1) /\ (i - 1) + 1 = i
    BY <1>2
  <2> QED  BY <1>7, <2>1
<1>9. ASSUME x \in T[n + 1], NEW j \in successors(body, k) PROVE At(j, 1) \in Walked(x)
  <2>1. n \in 1..n
    BY <1>2
  <2>2. NextPoints(body, At(k, n)) \subseteq Walked(x)
    BY <1>4, <1>8, <1>9, <2>1
  <2>3. NextPoints(body, At(k, n)) = {At(m, 1) : m \in successors(body, k)}
    BY <1>2, AtIs DEF NextPoints
  <2> QED  BY <2>2, <2>3
<1> QED  BY <1>8, <1>9 DEF T, Out
-----------------------------------------------------------------------------
(* The invariant.                                                           *)

\* The property, from what a finished sweep knows.
LEMMA InvScope == IInv => ScopeIsSomePath
<1> SUFFICES ASSUME IInv, phase = "report", NEW x \in loans, NEW k \in Block
             PROVE  x \in scope_in[k] <=> At(k, 1) \in Walked(x)
  <2>1. IInv => \A x \in loans :
          (CHOOSE f : f = WalkRule(x, f))[NextPoints(body, x.mint)] = Walked(x)
    <3>1. IInv => body \in Bodies /\ \A x \in loans : x.mint \in Points(body)
      BY Zenon DEF IInv, TypeInv
    <3> QED  BY <3>1, WalkIs, Zenon
  <2> QED  BY <2>1, Zenon DEF ScopeIsSomePath, WalkRule
<1>1. /\ TypeInv /\ body \in Bodies /\ x.mint \in Points(body)
      /\ \A j \in Block : Closed(j) /\ scope_in[j] \in SUBSET loans
      /\ PathInv
  BY DEF IInv, TypeInv, SweepInv
<1>2. x \in scope_in[k] => At(k, 1) \in Walked(x)
  BY <1>1 DEF PathInv
<1> DEFINE T == {p \in Points(body) : x \in ThroughBlock(p.block, scope_in[p.block])[p.index]}
<1>3. ASSUME NEW p \in Points(body),
             x.mint = p \/ (p \in T /\ Survives(x, p))
      PROVE  NextPoints(body, p) \subseteq T
  <2> DEFINE j == p.block
             i == p.index
             n == Len(body.code[j])
             B == ThroughBlock(j, scope_in[j])
  <2>1. j \in Block /\ i \in 1..n /\ n \in Nat \ {0} /\ p = At(j, i)
    BY <1>1, PointIs, BodyFacts
  <2>2. /\ B[i + 1] = step(At(j, i), B[i])
        /\ B[i] \in SUBSET loans
    BY <1>1, <2>1, ThroughIs
  <2>3. x \in B[i + 1]
    <3>1. x.mint = At(j, i) \/ (x \in B[i] /\ Survives(x, At(j, i)))
      BY <1>3, <2>1
    <3> HIDE DEF B, i, j
    <3> QED  BY <2>2, <3>1, StepIs
  <2>4. CASE i < n
    <3>1. NextPoints(body, p) = {At(j, i + 1)}
      BY <2>4 DEF NextPoints
    <3>2. At(j, i + 1) \in Points(body)
      <4>1. i + 1 \in 1..n
        BY <2>1, <2>4
      <4> QED  BY <1>1, <2>1, <4>1, PointIs
    <3> QED  BY <2>3, <3>1, <3>2, AtIs
  <2>5. CASE ~(i < n)
    <3>1. i = n
      BY <2>1, <2>5
    <3>2. NextPoints(body, p) = {At(m, 1) : m \in successors(body, j)}
      BY <2>5 DEF NextPoints
    <3>3. ASSUME NEW m \in successors(body, j) PROVE At(m, 1) \in T
      <4>1. m \in Block /\ 1 \in 1..Len(body.code[m]) /\ Len(body.code[m]) \in Nat
        BY <1>1, <2>1, BodyFacts
      <4>2. At(m, 1) \in Points(body)
        BY <1>1, <4>1, PointIs
      <4>3. x \in scope_in[m]
        BY <1>1, <2>1, <2>3, <3>1 DEF Closed, Out
      <4>4. ThroughBlock(m, scope_in[m])[1] = scope_in[m]
        BY <1>1, <4>1, ThroughIs
      <4> QED  BY <4>2, <4>3, <4>4, AtIs
    <3> QED  BY <3>2, <3>3
  <2> QED  BY <2>4, <2>5
<1>4. Walked(x) \subseteq T
  <2>1. T \in SUBSET Points(body) /\ NextPoints(body, x.mint) \subseteq T
    BY <1>1, <1>3
  <2>2. Kept(x, T)
    BY <1>3 DEF Kept
  <2> HIDE DEF T
  <2> QED  BY <1>1, <2>1, <2>2, WalkedIs
<1>5. At(k, 1) \in T => x \in scope_in[k]
  <2>1. Len(body.code[k]) \in Nat
    BY <1>1, BodyFacts
  <2>2. ThroughBlock(k, scope_in[k])[1] = scope_in[k]
    BY <1>1, <2>1, ThroughIs
  <2> QED  BY <2>2, AtIs
<1> QED  BY <1>2, <1>4, <1>5

LEMMA InitInv == Init => IInv
<1> SUFFICES ASSUME Init PROVE IInv
  OBVIOUS
<1>1. body \in Bodies
  BY DEF Init
<1>2. FirstBlock \in Block
  BY <1>1, BodyFacts, BlockOrder
<1>3. TypeInv
  BY <1>1, <1>2 DEF Init, TypeInv, Phases
<1>4. SweepInv /\ PathInv
  BY DEF Init, SweepInv, PathInv
<1> QED  BY <1>3, <1>4 DEF IInv

\* What the paths and the blocks do is the body's and its loans'.
Given == <<body, aliases, loans, live, live_loans>>

LEMMA WalkedStays ==
  ASSUME UNCHANGED Given
  PROVE  /\ \A x : Walked(x)' = Walked(x)
         /\ \A k, scope : ThroughBlock(k, scope)' = ThroughBlock(k, scope)
<1>1. \A x, p : Survives(x, p)' <=> Survives(x, p)
  BY DEF Given, Survives, live_loans_at, accesses_at, LastAccesses, operand_access,
         DefinesPlaceTemp, is_place_temp, resolve, loaned_locals
<1>2. \A p, scope : step(p, scope)' = step(p, scope)
  BY DEF Given, step, LiveScope, live_loans_at, accesses_at, LastAccesses, operand_access,
         DefinesPlaceTemp, is_place_temp, resolve, loaned_locals
<1>3. body' = body
  BY DEF Given
<1>4. \A p : NextPoints(body, p)' = NextPoints(body, p)
  BY <1>3 DEF NextPoints, successors, SuccsOf, Last
<1>5. Points(body)' = Points(body)
  BY <1>3 DEF Points
<1>6. ASSUME NEW x PROVE Walked(x)' = Walked(x)
  <2>1. \A T : Kept(x, T)' <=> Kept(x, T)
    BY <1>1, <1>4 DEF Kept
  <2> QED  BY <1>4, <1>5, <2>1 DEF Walked
<1>7. ASSUME NEW k, NEW scope PROVE ThroughBlock(k, scope)' = ThroughBlock(k, scope)
  <2>1. \A f : BlockRule(k, scope, f)' = BlockRule(k, scope, f)
    BY <1>2 DEF BlockRule
  <2>2. ThroughBlock(k, scope)
          = [i \in 1..(Len(body.code[k]) + 1) |-> (CHOOSE f : f = BlockRule(k, scope, f))[i]]
    BY Zenon DEF ThroughBlock, BlockRule
  <2>3. ThroughBlock(k, scope)'
          = [i \in 1..(Len(body'.code[k]) + 1) |-> (CHOOSE f : f = BlockRule(k, scope, f)')[i]]
    BY Zenon DEF ThroughBlock, BlockRule
  <2> QED  BY <1>3, <2>1, <2>2, <2>3
<1> QED  BY <1>6, <1>7

\* A loan's mint is a point of the body.
LEMMA MintsAreHere == \A x \in collect_loans(body) : x.mint \in Points(body)
BY DEF collect_loans, Loan

LEMMA NewKeeps == IInv /\ New => IInv'
<1> SUFFICES ASSUME IInv, New PROVE IInv'
  OBVIOUS
<1>1. /\ body' = body /\ scope_in' = scope_in /\ sweep' = sweep /\ changed' = changed
      /\ phase' = "scope" /\ loans' = collect_loans(body)'
  BY DEF New
<1>2. /\ body \in Bodies /\ changed = FALSE /\ sweep = FirstBlock /\ sweep \in Block
      /\ scope_in = [k \in Block |-> {}]
  BY DEF IInv, TypeInv, New
<1>3. \A x \in loans' : x.mint \in Points(body)'
  <2>1. (\A x \in collect_loans(body) : x.mint \in Points(body))'
    BY MintsAreHere, PTL
  <2> QED  BY <1>1, <2>1
<1>4. TypeInv'
  BY <1>1, <1>2, <1>3 DEF TypeInv, Phases
<1>5. SweepInv'
  <2>1. \A k \in Block : ~(k < sweep')
    BY <1>1, <1>2, BlockOrder
  <2> QED  BY <1>1, <2>1 DEF SweepInv
<1>6. PathInv'
  BY <1>1, <1>2 DEF PathInv
<1> QED  BY <1>4, <1>5, <1>6 DEF IInv

LEMMA OutStays ==
  ASSUME UNCHANGED Given, scope_in' = scope_in
  PROVE  \A k : Closed(k)' <=> Closed(k)
<1>1. body' = body
  BY DEF Given
<1>2. \A k : Out(k)' = Out(k)
  BY <1>1, WalkedStays DEF Out
<1> QED  BY <1>1, <1>2 DEF Closed, successors, SuccsOf, Last

LEMMA SweepKeeps == IInv /\ Sweep => IInv'
<1> SUFFICES ASSUME IInv, Sweep PROVE IInv'
  OBVIOUS
<1> DEFINE merged == [k \in Block |-> IF k \in successors(body, sweep)
                                        THEN scope_in[k] \cup Out(sweep) ELSE scope_in[k]]
<1>1. /\ scope_in' = merged
      /\ changed' = (grew(merged) /\ ~IsLast(sweep))
      /\ sweep' = IF IsLast(sweep) THEN FirstBlock ELSE NextBlock(sweep)
      /\ phase' = IF IsLast(sweep) /\ ~grew(merged) THEN "report" ELSE "scope"
      /\ phase = "scope"
      /\ UNCHANGED Given
  BY Zenon DEF Sweep, Given, Out
<1>2. /\ body \in Bodies /\ sweep \in Block /\ scope_in \in [Block -> SUBSET loans]
      /\ changed \in BOOLEAN /\ TypeInv /\ PathInv /\ SweepInv
  BY DEF IInv, TypeInv
<1>3. Out(sweep) \in SUBSET loans
  <2>1. Len(body.code[sweep]) \in Nat \ {0}
    BY <1>2, BodyFacts
  <2>2. Len(body.code[sweep]) + 1 \in 1..(Len(body.code[sweep]) + 1)
    BY <2>1
  <2> QED  BY <1>2, <2>1, <2>2, ThroughIs DEF Out
<1>4. body' = body /\ loans' = loans
  BY <1>1 DEF Given
<1>5. TypeInv'
  <2>1. merged \in [Block -> SUBSET loans]
    BY <1>2, <1>3
  <2>2. sweep' \in Block
    BY <1>1, <1>2, BlockOrder
  <2>3. changed' \in BOOLEAN
    BY <1>1
  <2>4. phase' \in Phases /\ phase' # "new"
    BY <1>1 DEF Phases
  <2>5. \A x \in loans' : x.mint \in Points(body)'
    BY <1>2, <1>4 DEF TypeInv, Points
  <2> HIDE DEF merged
  <2> QED  BY <1>1, <1>2, <1>4, <2>1, <2>2, <2>3, <2>4, <2>5 DEF TypeInv
<1>6. PathInv'
  <2>1. ASSUME NEW k \in Block, NEW x \in merged[k] PROVE At(k, 1) \in Walked(x)
    <3>1. CASE x \in scope_in[k]
      BY <1>2, <3>1 DEF PathInv
    <3>2. CASE x \in Out(sweep) /\ k \in successors(body, sweep)
      <4>1. x \in loans
        BY <1>3, <3>2
      <4>2. x \in scope_in[sweep] => At(sweep, 1) \in Walked(x)
        BY <1>2 DEF PathInv
      <4> QED  BY <1>2, <3>2, <4>1, <4>2, ScopeWalked
    <3> QED  BY <3>1, <3>2, <2>1
  <2>2. \A x : Walked(x)' = Walked(x)
    BY <1>1, WalkedStays
  <2> HIDE DEF merged
  <2> QED  BY <1>1, <2>1, <2>2 DEF PathInv
<1>7. ASSUME ~grew(merged)
      PROVE  /\ \A k \in Block : k < sweep \/ k = sweep => Closed(k)
             /\ scope_in' = scope_in
  <2>1. ~changed /\ merged = scope_in
    BY <1>7, Zenon DEF grew
  <2>2. \A k \in successors(body, sweep) : Out(sweep) \subseteq scope_in[k]
    <3>1. \A k \in successors(body, sweep) : k \in Block /\ scope_in[k] = scope_in[k] \cup Out(sweep)
      BY <1>2, <2>1, BodyFacts
    <3> QED  BY <3>1
  <2>3. Closed(sweep)
    BY <2>2 DEF Closed
  <2> HIDE DEF merged
  <2>4. \A k \in Block : k < sweep => Closed(k)
    BY <1>1, <1>2, <2>1 DEF SweepInv
  <2> QED  BY <1>1, <2>1, <2>3, <2>4
<1>8. SweepInv'
  <2> HIDE DEF merged
  <2>1. CASE IsLast(sweep) /\ ~grew(merged)
    <3>1. \A k \in Block : Closed(k)
      BY <1>2, <1>7, <2>1, BlockOrder
    <3>2. \A k \in Block : Closed(k)'
      BY <1>1, <1>7, <2>1, <3>1, OutStays
    <3> QED  BY <1>1, <2>1, <3>2 DEF SweepInv
  <2>2. CASE IsLast(sweep) /\ grew(merged)
    <3>1. \A k \in Block : ~(k < FirstBlock)
      BY <1>2, BlockOrder
    <3>2. FirstBlock' = FirstBlock /\ sweep' = FirstBlock /\ phase' = "scope"
      BY <1>1, <2>2 DEF FirstBlock
    <3> QED  BY <3>1, <3>2 DEF SweepInv
  <2>3. CASE ~IsLast(sweep) /\ grew(merged)
    <3>1. changed' = TRUE /\ phase' = "scope"
      BY <1>1, <2>3
    <3> QED  BY <3>1 DEF SweepInv
  <2>4. CASE ~IsLast(sweep) /\ ~grew(merged)
    <3>1. \A k \in Block : k < NextBlock(sweep) => k < sweep \/ k = sweep
      BY <1>2, <2>4, BlockOrder
    <3>2. sweep' = NextBlock(sweep) /\ phase' = "scope"
      BY <1>1, <2>4
    <3>3. \A k \in Block : k < sweep' => Closed(k)'
      BY <1>1, <1>7, <2>4, <3>1, <3>2, OutStays
    <3> QED  BY <3>2, <3>3 DEF SweepInv
  <2> QED  BY <2>1, <2>2, <2>3, <2>4
<1> QED  BY <1>5, <1>6, <1>8 DEF IInv

\* The other steps change neither the loans nor where they are in scope.
LEMMA RestKeeps ==
  ASSUME IInv, UNCHANGED <<body, aliases, loans, live, live_loans, scope_in, changed>>,
         phase' \in Phases, sweep' \in Block,
         \/ UNCHANGED <<phase, sweep>>
         \/ phase \notin {"new", "scope"} /\ phase' \notin {"new", "scope"}
  PROVE  IInv'
<1>1. UNCHANGED Given /\ scope_in' = scope_in
  BY DEF Given
<1>2. /\ \A k : Closed(k)' <=> Closed(k)
      /\ \A x : Walked(x)' = Walked(x)
  BY <1>1, OutStays, WalkedStays
<1>3. TypeInv'
  BY DEF IInv, TypeInv, Points, FirstBlock
<1>4. SweepInv'
  BY <1>2 DEF IInv, SweepInv
<1>5. PathInv'
  BY <1>1, <1>2 DEF IInv, PathInv
<1> QED  BY <1>3, <1>4, <1>5 DEF IInv

LEMMA NextInv == IInv /\ [Next]_vars => IInv'
<1> SUFFICES ASSUME IInv, [Next]_vars PROVE IInv'
  OBVIOUS
<1>1. body \in Bodies /\ sweep \in Block /\ phase \in Phases
  BY DEF IInv, TypeInv
<1>2. CASE New
  BY <1>2, NewKeeps
<1>3. CASE Sweep
  BY <1>3, SweepKeeps
<1>4. CASE Report
  <2>1. /\ UNCHANGED <<body, aliases, loans, live, live_loans, scope_in, changed>>
        /\ phase = "report" /\ phase' \in {"ready", "report"}
        /\ sweep' = IF IsLast(sweep) THEN FirstBlock ELSE NextBlock(sweep)
    BY <1>4 DEF Report
  <2>2. sweep' \in Block
    BY <1>1, <2>1, BlockOrder
  <2> QED  BY <2>1, <2>2, RestKeeps DEF Phases
<1>5. CASE BeginRun
  <2>1. /\ UNCHANGED <<body, aliases, loans, live, live_loans, scope_in, changed, sweep>>
        /\ phase = "ready" /\ phase' = "run"
    BY <1>5 DEF BeginRun
  <2> QED  BY <1>1, <2>1, RestKeeps DEF Phases
<1>6. CASE Stop
  <2>1. /\ UNCHANGED <<body, aliases, loans, live, live_loans, scope_in, changed, sweep>>
        /\ phase = "run" /\ phase' = "stopped"
    BY <1>6 DEF Stop
  <2> QED  BY <1>1, <2>1, RestKeeps DEF Phases
<1>7. CASE Execute
  <2>1. UNCHANGED <<body, aliases, loans, live, live_loans, scope_in, changed, phase, sweep>>
    BY <1>7 DEF Execute
  <2> QED  BY <1>1, <2>1, RestKeeps
<1>8. CASE UNCHANGED vars
  <2>1. UNCHANGED <<body, aliases, loans, live, live_loans, scope_in, changed, phase, sweep>>
    BY <1>8 DEF vars
  <2> QED  BY <1>1, <2>1, RestKeeps
<1> QED  BY <1>2, <1>3, <1>4, <1>5, <1>6, <1>7, <1>8 DEF Next
-----------------------------------------------------------------------------
(* Instructions, and what lowering and inference see to.                    *)

LEMMA InstrIs ==
  ASSUME body \in Bodies, NEW p \in Points(body)
  PROVE  /\ InstrAt(body, p) \in Instr
         /\ \A r \in ReadsOf(InstrAt(body, p)) :
              r.how \in How /\ r.place.local \in Local /\ r.place.proj \in Seq(Elem)
         /\ InstrAt(body, p).dest \in Place \cup {Nowhere}
         /\ uses_at(body, InstrAt(body, p)) \subseteq Local
<1> DEFINE instr == InstrAt(body, p)
<1>1. p.block \in Block /\ p.index \in 1..Len(body.code[p.block])
  BY PointIs
<1>2. instr \in Instr
  BY <1>1, BodyFacts DEF InstrAt
<1> HIDE DEF instr
<1>3. instr.reads \in Seq(Read) /\ instr.dest \in Place \cup {Nowhere}
  BY <1>2 DEF Instr
<1>4. \A r \in ReadsOf(instr) : r \in Read
  BY <1>3 DEF ReadsOf
<1>5. \A r \in ReadsOf(instr) : r.how \in How /\ r.place.local \in Local /\ r.place.proj \in Seq(Elem)
  BY <1>4 DEF Read, Place
<1>6. uses_at(body, instr) \subseteq Local
  <2>1. body.ret \in Local
    BY BodiesAssumption DEF IsBody, Body
  <2>2. instr.dest.proj # <<>> => instr.dest.local \in Local
    BY <1>3 DEF Place, Nowhere
  <2> QED  BY <1>5, <2>1, <2>2 DEF uses_at
<1> QED  BY <1>2, <1>3, <1>5, <1>6 DEF instr

\* What is typed of a point's instruction.
Exclusive(l) == body.data[l].borrow /\ ~body.data[l].copyable

LEMMA TypedIs ==
  ASSUME body \in Bodies, NEW p \in Points(body), NEW instr, instr = InstrAt(body, p)
  PROVE  /\ \A r \in ReadsOf(instr) :
              /\ Derefs(r.place) <=> body.data[r.place.local].borrow /\ r.place.proj # <<>>
              /\ \A i \in DOMAIN r.place.proj : i > 1 => r.place.proj[i] # "*"
              /\ r.how \in {"move", "mut"} /\ Derefs(r.place) => Exclusive(r.place.local)
              /\ r.how \in {"shared", "mut"} => Derefs(r.place) \/ ~body.data[r.place.local].borrow
         /\ instr.dest # Nowhere =>
              /\ Derefs(instr.dest) <=> body.data[instr.dest.local].borrow /\ instr.dest.proj # <<>>
              /\ \A i \in DOMAIN instr.dest.proj : i > 1 => instr.dest.proj[i] # "*"
         /\ Derefs(instr.dest) => Exclusive(instr.dest.local)
         /\ Borrows(instr) =>
              /\ instr.kind = "assign" /\ Len(instr.reads) = 1
              /\ instr.dest.proj = <<>> /\ body.data[instr.dest.local].borrow
              /\ instr.reads[1].how = "mut" <=> Exclusive(instr.dest.local)
         /\ instr.kind = "assign" => instr.dest # Nowhere
         /\ (instr.kind = "assign" /\ ~Borrows(instr)
             /\ instr.dest.proj = <<>> /\ body.data[instr.dest.local].borrow) =>
              /\ Len(instr.reads) = 1 /\ instr.reads[1].how \in {"copy", "move"}
              /\ instr.reads[1].place.proj = <<>> /\ body.data[instr.reads[1].place.local].borrow
              /\ Exclusive(instr.reads[1].place.local) <=> Exclusive(instr.dest.local)
         /\ instr.kind # "assign" => instr.dest.proj = <<>>
         /\ (instr.kind = "call" /\ instr.dest # Nowhere /\ body.data[instr.dest.local].borrow) =>
              Handed(body, instr) # {}
         /\ instr.kind \notin {"assign", "call", "trap", "dead"} => instr.dest = Nowhere
<1>1. Typed(body)
  BY LoanBodiesAssumption
<1>2. \A r \in ReadsOf(instr) : r.place \in {q.place : q \in ReadsOf(instr)} \cup ({instr.dest} \ {Nowhere})
  OBVIOUS
<1>3. instr.dest # Nowhere => instr.dest \in {q.place : q \in ReadsOf(instr)} \cup ({instr.dest} \ {Nowhere})
  OBVIOUS
<1> QED  BY <1>1, <1>2, <1>3, Zenon DEF Typed, Exclusive
-----------------------------------------------------------------------------
(* Liveness.                                                                *)

BackRule(b, code, out, f) ==
  [i \in Nat |-> IF i > Len(code) THEN out
                 ELSE {l \in f[i + 1] : ~IsDef(code[i], l)} \cup uses_at(b, code[i])]

\* Used at a point from i to the block's end, or after it, and not defined
\* before.
UsedFrom(b, code, out, i) ==
  {l \in Local :
     \/ \E j \in i..Len(code) : /\ l \in uses_at(b, code[j])
                                /\ \A m \in i..(j - 1) : ~IsDef(code[m], l)
     \/ l \in out /\ \A m \in i..Len(code) : ~IsDef(code[m], l)}

LEMMA BackwardIs ==
  ASSUME body \in Bodies, NEW k \in Block, NEW out \in SUBSET Local
  PROVE  \E f : /\ \A i \in Nat : f[i] = IF i > Len(body.code[k]) THEN out
                     ELSE {l \in f[i + 1] : ~IsDef(body.code[k][i], l)}
                          \cup uses_at(body, body.code[k][i])
                /\ Backward(body, k, out) = [i \in DOMAIN body.code[k] |-> f[i]]
<1> DEFINE code == body.code[k]
           n == Len(code)
           g == [i \in Nat |-> IF i > n THEN out
                               ELSE IF i = 0 THEN {l \in UsedFrom(body, code, out, 1) : ~IsDef(code[0], l)}
                                                  \cup uses_at(body, code[0])
                               ELSE UsedFrom(body, code, out, i)]
<1>1. n \in Nat \ {0} /\ \A i \in 1..n : uses_at(body, code[i]) \subseteq Local
  <2>1. n \in Nat \ {0}
    BY BodyFacts
  <2>2. ASSUME NEW i \in 1..n PROVE uses_at(body, code[i]) \subseteq Local
    <3>1. At(k, i) \in Points(body) /\ InstrAt(body, At(k, i)) = code[i]
      BY PointIs, AtIs DEF InstrAt
    <3> QED  BY <3>1, InstrIs
  <2> QED  BY <2>1, <2>2
<1>2. ASSUME NEW i \in Nat
      PROVE  g[i] = IF i > n THEN out
                    ELSE {l \in g[i + 1] : ~IsDef(code[i], l)} \cup uses_at(body, code[i])
  <2> HIDE DEF code
  <2>1. CASE i > n
    BY <2>1
  <2>2. CASE i = 0
    <3>1. g[0 + 1] = UsedFrom(body, code, out, 1)
      BY <1>1
    <3> QED  BY <1>1, <2>2, <3>1
  <2>3. CASE i \in 1..n
    <3> DEFINE next == g[i + 1]
    <3>1. \A l \in Local : (\E j \in i..n : /\ l \in uses_at(body, code[j])
                                            /\ \A m \in i..(j - 1) : ~IsDef(code[m], l))
            <=> \/ l \in uses_at(body, code[i])
                \/ /\ ~IsDef(code[i], l)
                   /\ \E j \in (i + 1)..n : /\ l \in uses_at(body, code[j])
                                            /\ \A m \in (i + 1)..(j - 1) : ~IsDef(code[m], l)
      <4> SUFFICES ASSUME NEW l \in Local
                   PROVE  (\E j \in i..n : /\ l \in uses_at(body, code[j])
                                           /\ \A m \in i..(j - 1) : ~IsDef(code[m], l))
            <=> \/ l \in uses_at(body, code[i])
                \/ /\ ~IsDef(code[i], l)
                   /\ \E j \in (i + 1)..n : /\ l \in uses_at(body, code[j])
                                            /\ \A m \in (i + 1)..(j - 1) : ~IsDef(code[m], l)
        OBVIOUS
      <4>1. i..n = {i} \cup (i + 1)..n /\ i..(i - 1) = {}
        BY <1>1, <2>3
      <4>2. \A j \in (i + 1)..n : i..(j - 1) = {i} \cup (i + 1)..(j - 1)
        BY <1>1, <2>3
      <4>3. (\A m \in i..(i - 1) : ~IsDef(code[m], l))
        BY <4>1
      <4>4. \A j \in (i + 1)..n : (\A m \in i..(j - 1) : ~IsDef(code[m], l))
              <=> ~IsDef(code[i], l) /\ \A m \in (i + 1)..(j - 1) : ~IsDef(code[m], l)
        BY <4>2, Zenon
      <4> QED  BY <4>1, <4>3, <4>4, Zenon
    <3>2. \A l \in Local : (l \in out /\ \A m \in i..n : ~IsDef(code[m], l))
            <=> ~IsDef(code[i], l) /\ l \in out /\ \A m \in (i + 1)..n : ~IsDef(code[m], l)
      <4>1. i..n = {i} \cup (i + 1)..n
        BY <1>1, <2>3
      <4> QED  BY <4>1, Zenon
    <3>3. g[i] = UsedFrom(body, code, out, i)
      BY <1>1, <2>3
    <3>4. next = {l \in Local :
             \/ \E j \in (i + 1)..n : /\ l \in uses_at(body, code[j])
                                      /\ \A m \in (i + 1)..(j - 1) : ~IsDef(code[m], l)
             \/ l \in out /\ \A m \in (i + 1)..n : ~IsDef(code[m], l)}
      <4>1. CASE i < n
        <5>1. next = UsedFrom(body, code, out, i + 1)
          BY <1>1, <2>3, <4>1
        <5> HIDE DEF next, g
        <5> QED  BY <5>1 DEF UsedFrom
      <4>2. CASE i = n
        <5>1. next = out
          BY <1>1, <2>3, <4>2
        <5>2. (i + 1)..n = {}
          BY <1>1, <4>2
        <5> HIDE DEF next, g
        <5> QED  BY <5>1, <5>2
      <4> QED  BY <1>1, <2>3, <4>1, <4>2
    <3>5. uses_at(body, code[i]) \subseteq Local
      BY <1>1, <2>3
    <3>6. ~(i > n)
      BY <1>1, <2>3
    <3> HIDE DEF next, g
    <3>7. \A l : l \in g[i] <=> l \in {m \in next : ~IsDef(code[i], m)} \cup uses_at(body, code[i])
      <4> SUFFICES ASSUME NEW l
                   PROVE  l \in g[i] <=> (l \in next /\ ~IsDef(code[i], l)) \/ l \in uses_at(body, code[i])
        OBVIOUS
      <4>1. CASE l \in Local
        <5>1. l \in g[i] <=> \/ \E j \in i..n : /\ l \in uses_at(body, code[j])
                                                /\ \A m \in i..(j - 1) : ~IsDef(code[m], l)
                             \/ l \in out /\ \A m \in i..n : ~IsDef(code[m], l)
          BY <3>3, <4>1, Zenon DEF UsedFrom
        <5>2. l \in next <=> \/ \E j \in (i + 1)..n : /\ l \in uses_at(body, code[j])
                                      /\ \A m \in (i + 1)..(j - 1) : ~IsDef(code[m], l)
                             \/ l \in out /\ \A m \in (i + 1)..n : ~IsDef(code[m], l)
          BY <3>4, <4>1, Zenon
        <5> QED  BY <3>1, <3>2, <4>1, <5>1, <5>2, Zenon
      <4>2. CASE l \notin Local
        BY <3>3, <3>4, <3>5, <4>2 DEF UsedFrom
      <4> QED  BY <4>1, <4>2
    <3>8. g[i] = {m \in next : ~IsDef(code[i], m)} \cup uses_at(body, code[i])
      BY <3>7
    <3> QED  BY <3>6, <3>8 DEF next
  <2> QED  BY <1>1, <2>1, <2>2, <2>3
<1>3. g = [i \in Nat |-> g[i]]
  OBVIOUS
<1> HIDE DEF g
<1>4. g = BackRule(body, code, out, g)
  BY <1>2, <1>3 DEF BackRule
<1> DEFINE f == CHOOSE h : h = BackRule(body, code, out, h)
<1>5. f = BackRule(body, code, out, f)
  BY <1>4
<1>6. Backward(body, k, out) = [i \in DOMAIN body.code[k] |-> f[i]]
  BY Zenon DEF Backward, BackRule
<1> HIDE DEF f
<1>7. \A i \in Nat : f[i] = IF i > n THEN out
                ELSE {l \in f[i + 1] : ~IsDef(code[i], l)} \cup uses_at(body, code[i])
  BY <1>5 DEF BackRule
<1> QED  BY <1>6, <1>7

LEMMA BackwardFacts ==
  ASSUME body \in Bodies, NEW k \in Block, NEW out \in SUBSET Local
  PROVE  LET B == Backward(body, k, out)
             n == Len(body.code[k])
         IN  /\ \A i \in 1..n : B[i] = {l \in (IF i = n THEN out ELSE B[i + 1]) : ~IsDef(body.code[k][i], l)}
                                       \cup uses_at(body, body.code[k][i])
             /\ \A i \in 1..n : B[i] \in SUBSET Local
<1> DEFINE B == Backward(body, k, out)
           code == body.code[k]
           n == Len(code)
<1>1. n \in Nat \ {0} /\ DOMAIN code = 1..n
  BY BodyFacts
<1>2. \A i \in 1..n : uses_at(body, code[i]) \subseteq Local
  <2> SUFFICES ASSUME NEW i \in 1..n PROVE uses_at(body, code[i]) \subseteq Local
    OBVIOUS
  <2>1. At(k, i) \in Points(body) /\ InstrAt(body, At(k, i)) = code[i]
    BY PointIs, AtIs DEF InstrAt
  <2> QED  BY <2>1, InstrIs
<1>3. PICK f : /\ \A i \in Nat : f[i] = IF i > n THEN out
                     ELSE {l \in f[i + 1] : ~IsDef(code[i], l)} \cup uses_at(body, code[i])
               /\ B = [i \in DOMAIN code |-> f[i]]
  BY BackwardIs
<1> HIDE DEF B, code, n
<1>4. ASSUME NEW i \in 1..n
      PROVE  B[i] = {l \in (IF i = n THEN out ELSE B[i + 1]) : ~IsDef(code[i], l)}
                    \cup uses_at(body, code[i])
  <2>0. i \in Nat /\ ~(i > n)
    BY <1>1
  <2>1. f[i] = {l \in f[i + 1] : ~IsDef(code[i], l)} \cup uses_at(body, code[i])
    BY <1>3, <2>0, Zenon
  <2>2. CASE i = n
    <3>0. i + 1 \in Nat /\ i + 1 > n
      BY <1>1, <2>2
    <3>1. f[i + 1] = out
      BY <1>3, <3>0, Zenon
    <3> QED  BY <1>1, <1>3, <2>1, <2>2, <3>1
  <2>3. CASE i # n
    <3>1. i + 1 \in 1..n
      BY <1>1, <2>3
    <3>2. B[i + 1] = f[i + 1] /\ B[i] = f[i]
      BY <1>1, <1>3, <3>1
    <3> QED  BY <2>1, <2>3, <3>2
  <2> QED  BY <2>2, <2>3
<1> DEFINE S == {m \in 0..(n - 1) : B[n - m] \in SUBSET Local}
<1>5. ASSUME NEW i \in 1..n, i = n \/ B[i + 1] \in SUBSET Local PROVE B[i] \in SUBSET Local
  BY <1>2, <1>4, <1>5
<1>6. 0 \in S
  <2>1. n \in 1..n /\ n - 0 = n
    BY <1>1
  <2> QED  BY <1>1, <1>5, <2>1
<1>7. ASSUME NEW m \in 0..(n - 1), m \in S, m < n - 1 PROVE m + 1 \in S
  <2>1. n - (m + 1) \in 1..n /\ (n - (m + 1)) + 1 = n - m /\ m + 1 \in 0..(n - 1)
    BY <1>1, <1>7
  <2>2. B[n - m] \in SUBSET Local
    BY <1>7
  <2> QED  BY <1>5, <2>1, <2>2
<1>8. \A m \in 0..(n - 1) : m \in S
  <2> HIDE DEF S
  <2>1. n - 1 \in Nat
    BY <1>1
  <2> QED  BY <1>6, <1>7, <2>1, UpTo
<1>9. ASSUME NEW i \in 1..n PROVE B[i] \in SUBSET Local
  <2>1. n - i \in 0..(n - 1) /\ n - (n - i) = i
    BY <1>1
  <2> QED  BY <1>8, <2>1
<1> QED  BY <1>4, <1>9 DEF B, code, n

LEMMA BackwardGrows ==
  ASSUME body \in Bodies, NEW k \in Block, NEW out \in SUBSET Local, NEW more \in SUBSET Local,
         out \subseteq more
  PROVE  Backward(body, k, out)[1] \subseteq Backward(body, k, more)[1]
<1> DEFINE B == Backward(body, k, out)
           C == Backward(body, k, more)
           code == body.code[k]
           n == Len(code)
           S == {m \in 0..(n - 1) : B[n - m] \subseteq C[n - m]}
<1>1. n \in Nat \ {0}
  BY BodyFacts
<1>2. \A i \in 1..n : B[i] = {l \in (IF i = n THEN out ELSE B[i + 1]) : ~IsDef(code[i], l)}
                            \cup uses_at(body, code[i])
  BY BackwardFacts
<1>3. \A i \in 1..n : C[i] = {l \in (IF i = n THEN more ELSE C[i + 1]) : ~IsDef(code[i], l)}
                            \cup uses_at(body, code[i])
  BY BackwardFacts
<1> HIDE DEF B, C, code, n
<1>4. ASSUME NEW i \in 1..n, i = n \/ B[i + 1] \subseteq C[i + 1] PROVE B[i] \subseteq C[i]
  <2>1. CASE i = n
    BY <1>2, <1>3, <2>1
  <2>2. CASE i # n /\ B[i + 1] \subseteq C[i + 1]
    <3>1. /\ B[i] = {l \in B[i + 1] : ~IsDef(code[i], l)} \cup uses_at(body, code[i])
          /\ C[i] = {l \in C[i + 1] : ~IsDef(code[i], l)} \cup uses_at(body, code[i])
      BY <1>2, <1>3, <2>2
    <3> QED  BY <2>2, <3>1
  <2> QED  BY <1>4, <2>1, <2>2
<1>5. 0 \in S
  <2>1. n \in 1..n /\ n - 0 = n
    BY <1>1
  <2> QED  BY <1>1, <1>4, <2>1
<1>6. ASSUME NEW m \in 0..(n - 1), m \in S, m < n - 1 PROVE m + 1 \in S
  <2>1. n - (m + 1) \in 1..n /\ (n - (m + 1)) + 1 = n - m /\ m + 1 \in 0..(n - 1)
    BY <1>1, <1>6
  <2>2. B[n - m] \subseteq C[n - m]
    BY <1>6
  <2> QED  BY <1>4, <2>1, <2>2
<1>7. n - 1 \in S
  <2> HIDE DEF S
  <2>1. n - 1 \in Nat
    BY <1>1
  <2>2. \A m \in 0..(n - 1) : m \in S
    BY <1>5, <1>6, <2>1, UpTo
  <2> QED  BY <2>1, <2>2
<1>8. n - (n - 1) = 1
  BY <1>1
<1> QED  BY <1>7, <1>8 DEF B, C

\* f goes from state to state of D by nxt until it stops, and is what res
\* says of the state it stops in.
TailOf(D, stop, nxt, res, f) == f = [s \in D |-> IF s \in stop THEN res[s] ELSE f[nxt[s]]]

\* There is such a function, whatever nxt is: where the steps never stop any
\* value will do.
LEMMA TailRecursion ==
  ASSUME NEW D, NEW stop, stop \subseteq D, NEW nxt, nxt \in [D -> D], NEW res
  PROVE  \E f : TailOf(D, stop, nxt, res, f)
<1> DEFINE Onto(C) == \A u \in C : u \notin stop => nxt[u] \in C
           Ends(s) == {t \in stop : \A C \in SUBSET D : s \in C /\ Onto(C) => t \in C}
           g == [s \in D |-> res[CHOOSE t : t \in Ends(s)]]
<1>1. ASSUME NEW s \in D, s \in stop PROVE g[s] = res[s]
  <2>1. Onto({s}) /\ {s} \in SUBSET D
    BY <1>1
  <2>2. Ends(s) = {s}
    <3>1. s \in Ends(s)
      BY <1>1
    <3>2. \A t \in Ends(s) : t \in {s}
      BY <2>1
    <3> HIDE DEF Ends
    <3> QED  BY <3>1, <3>2
  <2>3. (CHOOSE t : t \in Ends(s)) = s
    <3> HIDE DEF Ends
    <3> QED  BY <2>2
  <2> HIDE DEF Ends
  <2> QED  BY <2>3
<1>2. ASSUME NEW s \in D, s \notin stop PROVE g[s] = g[nxt[s]]
  <2>1. nxt[s] \in D
    OBVIOUS
  <2>2. ASSUME NEW t \in Ends(nxt[s]) PROVE t \in Ends(s)
    <3>1. ASSUME NEW C \in SUBSET D, s \in C, Onto(C) PROVE t \in C
      <4>1. nxt[s] \in C
        BY <1>2, <3>1
      <4> QED  BY <2>2, <3>1, <4>1
    <3> QED  BY <2>2, <3>1
  <2>3. ASSUME NEW t \in Ends(s) PROVE t \in Ends(nxt[s])
    <3>1. ASSUME NEW C \in SUBSET D, nxt[s] \in C, Onto(C) PROVE t \in C
      <4>1. Onto(C \cup {s}) /\ C \cup {s} \in SUBSET D /\ s \in C \cup {s}
        BY <3>1
      <4>2. t \in C \cup {s}
        BY <2>3, <4>1
      <4>3. t # s
        BY <1>2, <2>3
      <4> QED  BY <4>2, <4>3
    <3> QED  BY <2>3, <3>1
  <2>4. Ends(s) = Ends(nxt[s])
    <3> HIDE DEF Ends
    <3> QED  BY <2>2, <2>3
  <2> HIDE DEF Ends
  <2> QED  BY <2>1, <2>4
<1>3. g = [s \in D |-> g[s]]
  OBVIOUS
<1> HIDE DEF g
<1>4. g = [s \in D |-> IF s \in stop THEN res[s] ELSE g[nxt[s]]]
  BY <1>1, <1>2, <1>3
<1> QED  BY <1>4 DEF TailOf

\* ... and where each step makes the size less, it is res of a state the
\* invariant holds of and the steps stop in.
LEMMA TailEnds ==
  ASSUME NEW D, NEW stop, NEW nxt, NEW res, NEW f, TailOf(D, stop, nxt, res, f),
         NEW Inv, Inv \subseteq D, NEW size,
         \A s \in Inv : size[s] \in Nat,
         \A s \in Inv : s \notin stop => nxt[s] \in Inv /\ size[nxt[s]] < size[s],
         NEW s0 \in Inv
  PROVE  \E t \in Inv : t \in stop /\ f[s0] = res[t]
<1> DEFINE Bad == {s \in Inv : ~\E t \in Inv : t \in stop /\ f[s] = res[t]}
           Sizes == {size[s] : s \in Bad}
<1>1. SUFFICES ASSUME Bad # {} PROVE FALSE
  OBVIOUS
<1>2. PICK m \in Sizes : \A n \in Sizes : m <= n
  <2>1. Sizes \in SUBSET Nat /\ Sizes # {}
    BY <1>1
  <2> HIDE DEF Sizes
  <2> QED  BY <2>1, Least
<1>3. PICK s \in Bad : size[s] = m
  BY <1>2
<1>4. s \notin stop
  <2>1. s \in stop => f[s] = res[s]
    BY DEF TailOf
  <2> QED  BY <2>1
<1>5. f[s] = f[nxt[s]] /\ nxt[s] \in Inv
  BY <1>4 DEF TailOf
<1>6. nxt[s] \in Bad
  BY <1>5
<1>7. m <= size[nxt[s]]
  BY <1>2, <1>6
<1>8. size[s] \in Nat /\ size[nxt[s]] \in Nat /\ size[nxt[s]] < size[s]
  BY <1>4, <1>5
<1> QED  BY <1>3, <1>7, <1>8

\* What is live entering the blocks, from what is thought to be.
Before(e) == [k \in Block |-> Backward(body, k, LiveOut(body, e, k))[1]]

SettleRule(b, f) ==
  [entering \in [Block -> SUBSET Local] |->
     LET next == [k \in Block |-> Backward(b, k, LiveOut(b, entering, k))[1]]
     IN  IF next = entering THEN entering ELSE f[next]]

LEMMA BeforeIs ==
  ASSUME body \in Bodies
  PROVE  /\ \A e \in [Block -> SUBSET Local] :
              /\ Before(e) \in [Block -> SUBSET Local]
              /\ \A k \in Block : LiveOut(body, e, k) \in SUBSET Local
         /\ \A e, d \in [Block -> SUBSET Local] :
              (\A k \in Block : e[k] \subseteq d[k]) => \A k \in Block : Before(e)[k] \subseteq Before(d)[k]
<1>1. \A k \in Block : successors(body, k) \subseteq Block
  BY BodyFacts
<1>2. ASSUME NEW e \in [Block -> SUBSET Local], NEW k \in Block
      PROVE  LiveOut(body, e, k) \in SUBSET Local
  BY <1>1 DEF LiveOut
<1>3. ASSUME NEW e \in [Block -> SUBSET Local], NEW k \in Block
      PROVE  Backward(body, k, LiveOut(body, e, k))[1] \in SUBSET Local
  <2>1. 1 \in 1..Len(body.code[k])
    BY BodyFacts
  <2> QED  BY <1>2, <2>1, BackwardFacts
<1>4. ASSUME NEW e \in [Block -> SUBSET Local], NEW d \in [Block -> SUBSET Local],
             \A k \in Block : e[k] \subseteq d[k], NEW k \in Block
      PROVE  Before(e)[k] \subseteq Before(d)[k]
  <2>1. LiveOut(body, e, k) \subseteq LiveOut(body, d, k)
    BY <1>1, <1>4 DEF LiveOut
  <2>2. LiveOut(body, e, k) \in SUBSET Local /\ LiveOut(body, d, k) \in SUBSET Local
    BY <1>2
  <2> QED  BY <2>1, <2>2, BackwardGrows DEF Before
<1>5. \A e \in [Block -> SUBSET Local] : Before(e) \in [Block -> SUBSET Local]
  BY <1>3 DEF Before
<1> QED  BY <1>2, <1>4, <1>5

LEMMA LivenessSettles ==
  ASSUME body \in Bodies
  PROVE  \E e \in [Block -> SUBSET Local] :
           /\ Before(e) = e
           /\ liveness(body) = [k \in Block |-> Backward(body, k, LiveOut(body, e, k))]
<1> DEFINE D == [Block -> SUBSET Local]
           stop == {e \in D : Before(e) = e}
           nxt == [e \in D |-> Before(e)]
           res == [e \in D |-> e]
           settle == CHOOSE f : f = SettleRule(body, f)
           start == [k \in Block |-> {}]
           Inv == {e \in D : \A k \in Block : e[k] \subseteq Before(e)[k]}
           out(e) == {kl \in Block \X Local : kl[2] \notin e[kl[1]]}
           size == [e \in D |-> Cardinality(out(e))]
<1>1. ASSUME NEW f PROVE f = SettleRule(body, f) <=> TailOf(D, stop, nxt, res, f)
  <2>1. \A e \in D : (IF Before(e) = e THEN e ELSE f[Before(e)])
                     = (IF e \in stop THEN res[e] ELSE f[nxt[e]])
    OBVIOUS
  <2>2. SettleRule(body, f) = [e \in D |-> IF Before(e) = e THEN e ELSE f[Before(e)]]
    BY Zenon DEF SettleRule, Before
  <2>3. SettleRule(body, f) = [e \in D |-> IF e \in stop THEN res[e] ELSE f[nxt[e]]]
    <3> HIDE DEF stop, res, nxt, D
    <3> QED  BY <2>1, <2>2
  <2> HIDE DEF stop, res, nxt, D
  <2> QED  BY <2>3, Zenon DEF TailOf
<1>2. nxt \in [D -> D] /\ stop \subseteq D
  BY BeforeIs
<1>3. \E f : f = SettleRule(body, f)
  <2> HIDE DEF stop, res, nxt, D
  <2>1. \E f : TailOf(D, stop, nxt, res, f)
    BY <1>2, TailRecursion
  <2> QED  BY <1>1, <2>1
<1>4. TailOf(D, stop, nxt, res, settle)
  <2>1. settle = SettleRule(body, settle)
    BY <1>3
  <2> HIDE DEF stop, res, nxt, D, settle
  <2> QED  BY <1>1, <2>1
<1>5. \A e \in Inv : IsFiniteSet(out(e)) /\ size[e] \in Nat
  <2>1. IsFiniteSet(Block \X Local)
    BY BlockAssumption, LocalAssumption, FS_Product
  <2>2. \A e \in D : out(e) \in SUBSET (Block \X Local)
    OBVIOUS
  <2> HIDE DEF out
  <2>3. \A e \in D : IsFiniteSet(out(e)) /\ Cardinality(out(e)) \in Nat
    BY <2>1, <2>2, FS_Subset, FS_CardinalityType
  <2> QED  BY <2>3
<1>6. ASSUME NEW e \in Inv, e \notin stop PROVE nxt[e] \in Inv /\ size[nxt[e]] < size[e]
  <2> DEFINE d == Before(e)
  <2>1. e \in D /\ d \in D /\ \A k \in Block : e[k] \subseteq d[k]
    BY BeforeIs
  <2>2. \A k \in Block : d[k] \subseteq Before(d)[k]
    <3> HIDE DEF d
    <3>1. \A k \in Block : Before(e)[k] \subseteq Before(d)[k]
      BY <2>1, BeforeIs
    <3> QED  BY <3>1 DEF d
  <2>3. d \in Inv
    <3> HIDE DEF d
    <3> QED  BY <2>1, <2>2
  <2>4. d # e
    BY <1>6, <2>1
  <2> HIDE DEF d
  <2>5. PICK k \in Block : d[k] # e[k]
    BY <2>1, <2>4
  <2>6. PICK l \in Local : l \in d[k] /\ l \notin e[k]
    BY <2>1, <2>5
  <2>7. out(d) \in SUBSET out(e)
    BY <2>1
  <2>8. out(d) # out(e)
    <3>1. <<k, l>> \in out(e) /\ <<k, l>> \notin out(d)
      BY <2>6
    <3> QED  BY <3>1
  <2>9. IsFiniteSet(out(e)) /\ size[d] \in Nat /\ size[e] \in Nat
    BY <1>5, <2>3
  <2>10. size[d] = Cardinality(out(d)) /\ size[e] = Cardinality(out(e))
    BY <2>1
  <2> HIDE DEF out, size
  <2>11. Cardinality(out(d)) <= Cardinality(out(e)) /\ Cardinality(out(d)) # Cardinality(out(e))
    BY <2>7, <2>8, <2>9, FS_Subset
  <2>12. size[d] < size[e]
    BY <2>9, <2>10, <2>11
  <2>13. nxt[e] = d
    BY <2>1 DEF d
  <2> QED  BY <2>3, <2>12, <2>13
<1>7. start \in Inv
  OBVIOUS
<1>8. PICK t \in Inv : t \in stop /\ settle[start] = res[t]
  <2>1. Inv \subseteq D
    OBVIOUS
  <2> HIDE DEF stop, res, nxt, D, settle, Inv, size, start
  <2>2. \A s \in Inv : size[s] \in Nat
    BY <1>5
  <2> QED  BY <1>4, <1>6, <1>7, <2>1, <2>2, TailEnds
<1>9. settle[start] = t /\ Before(t) = t /\ t \in D
  <2>1. res[t] = t
    OBVIOUS
  <2> HIDE DEF settle, start
  <2> QED  BY <1>8, <2>1
<1>10. liveness(body) = [k \in Block |-> Backward(body, k, LiveOut(body, settle[start], k))]
  BY Zenon DEF liveness, SettleRule
<1> HIDE DEF settle, start
<1> QED  BY <1>9, <1>10

\* What is used at a point is live there, and what is live after it and not
\* defined there is.
LEMMA LivenessIs ==
  ASSUME body \in Bodies, live = liveness(body), NEW p \in Points(body)
  PROVE  /\ live_at(p) \subseteq Local
         /\ uses_at(body, InstrAt(body, p)) \subseteq live_at(p)
         /\ \A q \in NextPoints(body, p) : \A l \in live_at(q) :
              l \in live_at(p) \/ IsDef(InstrAt(body, p), l)
<1>1. PICK e \in [Block -> SUBSET Local] :
        /\ Before(e) = e
        /\ live = [k \in Block |-> Backward(body, k, LiveOut(body, e, k))]
  BY LivenessSettles
<1> DEFINE k == p.block
           i == p.index
           n == Len(body.code[k])
           out == LiveOut(body, e, k)
           B == Backward(body, k, out)
<1>2. k \in Block /\ i \in 1..n /\ n \in Nat \ {0} /\ p = At(k, i)
  BY PointIs, BodyFacts
<1>3. out \in SUBSET Local
  BY <1>2, BeforeIs
<1>4. /\ \A m \in 1..n : B[m] = {l \in (IF m = n THEN out ELSE B[m + 1]) : ~IsDef(body.code[k][m], l)}
                              \cup uses_at(body, body.code[k][m])
      /\ \A m \in 1..n : B[m] \in SUBSET Local
  <2> HIDE DEF out
  <2> QED  BY <1>2, <1>3, BackwardFacts
<1>5. live_at(p) = B[i] /\ InstrAt(body, p) = body.code[k][i]
  BY <1>1, <1>2 DEF live_at, InstrAt
<1>6. \A q \in NextPoints(body, p) : live_at(q) \subseteq (IF i = n THEN out ELSE B[i + 1])
  <2>1. CASE i < n
    <3>1. NextPoints(body, p) = {At(k, i + 1)}
      BY <2>1 DEF NextPoints
    <3>2. live_at(At(k, i + 1)) = B[i + 1]
      BY <1>1, <1>2, AtIs DEF live_at
    <3> HIDE DEF B, out, k, i
    <3> QED  BY <1>2, <2>1, <3>1, <3>2
  <2>2. CASE ~(i < n)
    <3>1. NextPoints(body, p) = {At(j, 1) : j \in successors(body, k)}
      BY <2>2 DEF NextPoints
    <3>2. ASSUME NEW j \in successors(body, k) PROVE live_at(At(j, 1)) \subseteq out
      <4>1. j \in Block
        BY <1>2, BodyFacts
      <4>2. live_at(At(j, 1)) = Before(e)[j]
        BY <1>1, <4>1, AtIs DEF live_at, Before
      <4> QED  BY <1>1, <4>1, <4>2 DEF LiveOut
    <3> HIDE DEF B, out, k, i
    <3> QED  BY <1>2, <2>2, <3>1, <3>2
  <2> QED  BY <2>1, <2>2
<1> HIDE DEF B, out
<1> QED  BY <1>2, <1>4, <1>5, <1>6
-----------------------------------------------------------------------------
(* Regions, and what reaches what.                                          *)

\* Where a path goes from a block.
ReachRule(b, f) ==
  [s \in SUBSET Block |->
     LET more == s \cup UNION {successors(b, j) : j \in s}
     IN  IF more = s THEN s ELSE f[more]]

LEMMA ReachIs ==
  ASSUME body \in Bodies, NEW k \in Block
  PROVE  /\ successors(body, k) \subseteq reach(body, k)
         /\ reach(body, k) \subseteq Block
         /\ \A j \in reach(body, k) : successors(body, j) \subseteq reach(body, k)
<1> DEFINE U == Block
           nxt == [s \in SUBSET U |-> s \cup UNION {successors(body, j) : j \in s}]
           grow == CHOOSE f : f = ReachRule(body, f)
           start == successors(body, k)
<1>1. ASSUME NEW f PROVE f = ReachRule(body, f) <=> GrowthOf(U, nxt, f)
  <2>1. ReachRule(body, f) = [s \in SUBSET U |->
          IF s \cup UNION {successors(body, j) : j \in s} = s THEN s
          ELSE f[s \cup UNION {successors(body, j) : j \in s}]]
    BY Zenon DEF ReachRule
  <2>2. ReachRule(body, f) = [s \in SUBSET U |-> IF nxt[s] = s THEN s ELSE f[nxt[s]]]
    BY <2>1
  <2> HIDE DEF nxt, U
  <2> QED  BY <2>2 DEF GrowthOf
<1>2. \A j \in Block : successors(body, j) \subseteq Block
  BY BodyFacts
<1>3. Expands(U, nxt)
  BY <1>2 DEF Expands
<1>4. start \in SUBSET U /\ IsFiniteSet(U)
  BY <1>2, BlockAssumption
<1>5. GrowthOf(U, nxt, grow)
  <2> HIDE DEF nxt, U
  <2>1. \E f : f = ReachRule(body, f)
    BY <1>1, <1>3, GrowthExists
  <2>2. grow = ReachRule(body, grow)
    BY <2>1
  <2> HIDE DEF grow
  <2> QED  BY <1>1, <2>2
<1>6. reach(body, k) = grow[start]
  BY Zenon DEF reach, ReachRule
<1>7. grow[start] = Fixed(U, nxt, start)
  <2> HIDE DEF nxt, U, grow, start
  <2> QED  BY <1>3, <1>4, <1>5, GrowthEnds
<1> DEFINE F == Fixed(U, nxt, start)
<1>8. start \subseteq F /\ nxt[F] = F /\ F \subseteq U
  <2> HIDE DEF nxt, U, start
  <2> QED  BY <1>3, <1>4, FixedIs DEF Fixed
<1> HIDE DEF F
<1>9. F \cup UNION {successors(body, j) : j \in F} = F
  BY <1>8
<1>10. reach(body, k) = F
  BY <1>6, <1>7 DEF F
<1> HIDE DEF nxt, start, grow
<1> QED  BY <1>8, <1>9, <1>10 DEF start

\* What reaches a point reaches the ones after it.
LEMMA ReachesOn ==
  ASSUME body \in Bodies, NEW p \in Points(body), NEW q \in NextPoints(body, p)
  PROVE  /\ reaches(p, q)
         /\ \A f \in Points(body) : reaches(f, p) => reaches(f, q)
<1> DEFINE k == p.block
           n == Len(body.code[k])
<1>1. k \in Block /\ p.index \in 1..n /\ n \in Nat \ {0}
  BY PointIs, BodyFacts
<1>2. \A f \in Points(body) : f.block \in Block /\ f.index \in Nat
  <2> SUFFICES ASSUME NEW f \in Points(body) PROVE f.block \in Block /\ f.index \in Nat
    OBVIOUS
  <2>1. f.block \in Block /\ f.index \in 1..Len(body.code[f.block]) /\ Len(body.code[f.block]) \in Nat
    BY PointIs, BodyFacts
  <2> QED  BY <2>1
<1>3. CASE p.index < n
  <2>1. q.block = k /\ q.index = p.index + 1
    BY <1>3, AtIs DEF NextPoints
  <2>2. p.index \in Nat
    BY <1>1
  <2> QED  BY <1>2, <2>1, <2>2 DEF reaches
<1>4. CASE ~(p.index < n)
  <2>1. q.block \in successors(body, k)
    BY <1>4, AtIs DEF NextPoints
  <2>2. q.block \in reach(body, k)
    BY <1>1, <2>1, ReachIs
  <2>3. ASSUME NEW f \in Points(body), reaches(f, p) PROVE reaches(f, q)
    <3>1. CASE f.block = k
      BY <2>2, <3>1 DEF reaches
    <3>2. CASE k \in reach(body, f.block)
      BY <1>2, <2>1, <3>2, ReachIs DEF reaches
    <3> QED  BY <2>3, <3>1, <3>2 DEF reaches
  <2> QED  BY <2>2, <2>3 DEF reaches
<1> QED  BY <1>3, <1>4

LEMMA ConstraintsAre ==
  ASSUME body \in Bodies, NEW p \in Points(body), NEW c \in ConstraintsAt(body, p)
  PROVE  /\ c.sup \in {Of(body, l) : l \in Local} \cup {LoanAt(q) : q \in Points(body)}
         /\ c.sub \in {Of(body, l) : l \in Local} \cup {LoanAt(q) : q \in Points(body)}
         /\ c.origin = p
<1> DEFINE instr == InstrAt(body, p)
           D == Of(body, instr.dest.local)
<1>1. instr.kind \in {"assign", "call"} /\ instr.dest # Nowhere /\ instr.dest.proj = <<>>
  BY DEF ConstraintsAt
<1>2. instr.dest.local \in Local /\ \A r \in ReadsOf(instr) : r.place.local \in Local
  <2>1. instr.dest # Nowhere /\ instr.dest \in Place \cup {Nowhere}
    BY <1>1, InstrIs
  <2>2. \A r \in ReadsOf(instr) : r.place.local \in Local
    BY InstrIs
  <2> HIDE DEF instr
  <2> QED  BY <2>1, <2>2 DEF Place
<1>3. c \in {Constraint(LoanAt(p), D, p)}
           \cup {Constraint(Of(body, r.place.local), LoanAt(p), p) :
                   r \in {q \in ReadsOf(instr) : Derefs(q.place)}}
           \cup {Constraint(Of(body, r.place.local), D, p) : r \in ReadsOf(instr)}
  BY <1>1 DEF ConstraintsAt, Handed
<1>4. CASE c = Constraint(LoanAt(p), D, p)
  BY <1>2, <1>4 DEF Constraint
<1>5. CASE \E r \in ReadsOf(instr) : c = Constraint(Of(body, r.place.local), LoanAt(p), p)
  BY <1>2, <1>5 DEF Constraint
<1>6. CASE \E r \in ReadsOf(instr) : c = Constraint(Of(body, r.place.local), D, p)
  BY <1>2, <1>6 DEF Constraint
<1> QED  BY <1>3, <1>4, <1>5, <1>6

CoverRule(b, node, f) ==
  [s \in SUBSET ({node} \cup UNION {{c.sup, c.sub} : c \in region_constraints(b)}) |->
     IF {c.sub : c \in {d \in region_constraints(b) : d.sup \in s}} \subseteq s THEN s
     ELSE f[s \cup {c.sub : c \in {d \in region_constraints(b) : d.sup \in s}}]]

\* A region covers itself and what its regions outlive.
LEMMA CoversIs ==
  ASSUME body \in Bodies, NEW node
  PROVE  /\ node \in covers(body, node)
         /\ \A c \in region_constraints(body) :
              c.sup \in covers(body, node) => c.sub \in covers(body, node)
<1> DEFINE C == region_constraints(body)
           U == {node} \cup UNION {{c.sup, c.sub} : c \in C}
           subs(s) == {c.sub : c \in {d \in C : d.sup \in s}}
           nxt == [s \in SUBSET U |-> s \cup subs(s)]
           grow == CHOOSE f : f = CoverRule(body, node, f)
           Nodes == {Of(body, l) : l \in Local} \cup {LoanAt(q) : q \in Points(body)}
<1>1. ASSUME NEW f PROVE f = CoverRule(body, node, f) <=> GrowthOf(U, nxt, f)
  <2>1. CoverRule(body, node, f) = [s \in SUBSET U |-> IF subs(s) \subseteq s THEN s ELSE f[s \cup subs(s)]]
    BY Zenon DEF CoverRule
  <2> HIDE DEF U, subs
  <2>2. \A s \in SUBSET U : (IF subs(s) \subseteq s THEN s ELSE f[s \cup subs(s)])
                            = (IF nxt[s] = s THEN s ELSE f[nxt[s]])
    OBVIOUS
  <2>3. CoverRule(body, node, f) = [s \in SUBSET U |-> IF nxt[s] = s THEN s ELSE f[nxt[s]]]
    <3> HIDE DEF nxt
    <3> QED  BY <2>1, <2>2, ZenonT(60)
  <2> HIDE DEF nxt
  <2> QED  BY <2>3 DEF GrowthOf
<1>2. \A c \in C : c.sup \in Nodes /\ c.sub \in Nodes
  BY ConstraintsAre DEF region_constraints
<1>3. IsFiniteSet(U)
  <2>1. IsFiniteSet({Of(body, l) : l \in Local})
    <3> DEFINE g == [l \in Local |-> Of(body, l)]
               T == {Of(body, l) : l \in Local}
    <3>1. g \in Surjection(Local, T)
      BY DEF Surjection
    <3> HIDE DEF g, T
    <3> QED  BY <3>1, LocalAssumption, FS_Surjection DEF T
  <2>2. IsFiniteSet({LoanAt(q) : q \in Points(body)})
    <3> DEFINE g == [q \in Points(body) |-> LoanAt(q)]
               T == {LoanAt(q) : q \in Points(body)}
    <3>1. g \in Surjection(Points(body), T)
      BY DEF Surjection
    <3>2. IsFiniteSet(Points(body))
      BY PointsFinite
    <3> HIDE DEF g, T
    <3> QED  BY <3>1, <3>2, FS_Surjection DEF T
  <2>3. IsFiniteSet(Nodes \cup {node})
    <3> HIDE DEF Nodes
    <3>1. IsFiniteSet(Nodes)
      BY <2>1, <2>2, FS_Union DEF Nodes
    <3>2. IsFiniteSet({node})
      BY FS_Singleton
    <3> QED  BY <3>1, <3>2, FS_Union
  <2>4. U \subseteq Nodes \cup {node}
    <3> HIDE DEF Nodes, C
    <3> QED  BY <1>2
  <2> HIDE DEF U, Nodes
  <2> QED  BY <2>3, <2>4, FS_Subset
<1>4. Expands(U, nxt)
  <2> HIDE DEF C
  <2>1. \A s \in SUBSET U : subs(s) \in SUBSET U
    OBVIOUS
  <2>2. \A s, t \in SUBSET U : s \subseteq t => subs(s) \subseteq subs(t)
    OBVIOUS
  <2> HIDE DEF subs, U
  <2> QED  BY <2>1, <2>2 DEF Expands
<1>5. {node} \in SUBSET U
  OBVIOUS
<1>6. GrowthOf(U, nxt, grow)
  <2> HIDE DEF nxt, U
  <2>1. \E f : f = CoverRule(body, node, f)
    BY <1>1, <1>4, GrowthExists
  <2>2. grow = CoverRule(body, node, grow)
    BY <2>1
  <2> HIDE DEF grow
  <2> QED  BY <1>1, <2>2
<1>7. covers(body, node) = grow[{node}]
  BY Zenon DEF covers, CoverRule
<1>8. grow[{node}] = Fixed(U, nxt, {node})
  <2> HIDE DEF nxt, U, grow
  <2> QED  BY <1>3, <1>4, <1>5, <1>6, GrowthEnds
<1> DEFINE F == Fixed(U, nxt, {node})
<1>9. {node} \subseteq F /\ nxt[F] = F /\ F \subseteq U
  <2> HIDE DEF nxt, U
  <2> QED  BY <1>4, <1>5, FixedIs DEF Fixed
<1> HIDE DEF F
<1>10. F \cup subs(F) = F
  BY <1>9
<1>11. covers(body, node) = F
  BY <1>7, <1>8 DEF F
<1> HIDE DEF nxt, U, grow
<1> QED  BY <1>9, <1>10, <1>11
-----------------------------------------------------------------------------
(* Places that temps stand for.                                             *)

GrowRule(b, f) ==
  [s \in SUBSET Local |->
     LET more == s \cup {copied_place(b, l).local :
                           l \in {m \in s : /\ copied_place(b, m) # Nowhere
                                            /\ copied_place(b, m).proj = <<>>}}
     IN  IF more = s THEN s ELSE f[more]]

\* The place a temp is copied from, if it is projected through.
Base(b) ==
  [l \in Local |->
     IF l \in (CHOOSE f : f = GrowRule(b, f))[{pl.local : pl \in {q \in for_each_place(b) : q.proj # <<>>}}]
     THEN copied_place(b, l) ELSE Nowhere]

PlaceRule(base, f) ==
  [place \in Place |->
     IF base[place.local] = Nowhere THEN place
     ELSE f[[local |-> base[place.local].local, proj |-> base[place.local].proj \o place.proj]]]

LEMMA AliasesUnfold ==
  \A b : compute_aliases(b) =
           [l \in Local |-> IF Base(b)[l] = Nowhere THEN Nowhere
                            ELSE (CHOOSE f : f = PlaceRule(Base(b), f))[Whole(l)]]
BY Zenon DEF compute_aliases, Base, GrowRule, PlaceRule

\* What a temp is copied from.
LEMMA CopiedIs ==
  ASSUME body \in Bodies, NEW l \in Local, copied_place(body, l) # Nowhere
  PROVE  /\ copied_place(body, l) \in Place
         /\ \A p \in defs_of(body, l) :
              /\ Copies(InstrAt(body, p))
              /\ InstrAt(body, p).reads[1].place = copied_place(body, l)
         /\ \E p \in Points(body) : p \in defs_of(body, l)
<1> DEFINE D == defs_of(body, l)
<1>1. /\ Cardinality(D) = 1
      /\ \A p \in D : Copies(InstrAt(body, p))
      /\ copied_place(body, l) = InstrAt(body, CHOOSE p \in D : TRUE).reads[1].place
  BY DEF copied_place
<1>2. D \subseteq Points(body)
  BY DEF defs_of
<1>3. IsFiniteSet(D)
  BY <1>2, PointsFinite, FS_Subset
<1> HIDE DEF D
<1>4. PICK x : D = {x}
  BY <1>1, <1>3, FS_Singleton
<1>5. (CHOOSE p \in D : TRUE) = x /\ x \in Points(body)
  BY <1>2, <1>4
<1>6. copied_place(body, l) = InstrAt(body, x).reads[1].place /\ Copies(InstrAt(body, x))
  BY <1>1, <1>4, <1>5
<1>7. InstrAt(body, x).reads[1].place \in Place
  <2>1. InstrAt(body, x).reads \in Seq(Read) /\ Len(InstrAt(body, x).reads) = 1
    BY <1>5, <1>6, InstrIs DEF Instr, Copies
  <2>2. InstrAt(body, x).reads[1] \in Read
    BY <2>1
  <2> QED  BY <2>2 DEF Read
<1> QED  BY <1>1, <1>4, <1>5, <1>6, <1>7 DEF D

\* A set of locals closed under where they are copied from is empty.
LEMMA NoCopyCycle ==
  ASSUME body \in Bodies, NEW S \in SUBSET Local,
         \A l \in S : copied_place(body, l).local \in S
  PROVE  S = {}
<1>1. Lowered(body)
  BY LoanBodiesAssumption
<1> DEFINE base == [m \in Local |-> copied_place(body, m)]
<1>2. \A T \in SUBSET {l \in Local : base[l] # Nowhere} : T # {} => \E l \in T : base[l].local \notin T
  BY <1>1, Zenon DEF Lowered
<1>3. \A l \in S : base[l] = copied_place(body, l) /\ base[l].local \in S
  OBVIOUS
<1> HIDE DEF base
<1>4. Nowhere.local \notin S
  BY LocalAssumption DEF Nowhere
<1>5. S \in SUBSET {l \in Local : base[l] # Nowhere}
  BY <1>3, <1>4
<1> QED  BY <1>2, <1>3, <1>5

Root(l) == IF aliases[l] = Nowhere THEN l ELSE aliases[l].local

LEMMA BaseIs ==
  ASSUME body \in Bodies, NEW l \in Local, Base(body)[l] # Nowhere
  PROVE  Base(body)[l] = copied_place(body, l) /\ copied_place(body, l) # Nowhere
BY DEF Base

\* A place settles at a place.
LEMMA Settles ==
  ASSUME body \in Bodies
  PROVE  \E f : /\ compute_aliases(body) =
                    [l \in Local |-> IF Base(body)[l] = Nowhere THEN Nowhere ELSE f[Whole(l)]]
                /\ \A place \in Place :
                     /\ f[place] \in Place
                     /\ f[place] = IF Base(body)[place.local] = Nowhere THEN place
                                   ELSE f[[local |-> Base(body)[place.local].local,
                                           proj  |-> Base(body)[place.local].proj \o place.proj]]
<1> DEFINE base == Base(body)
           to(place) == [local |-> base[place.local].local,
                         proj  |-> base[place.local].proj \o place.proj]
           stop == {place \in Place : base[place.local] = Nowhere}
           nxt == [place \in Place |-> IF base[place.local] = Nowhere THEN place ELSE to(place)]
           res == [place \in Place |-> place]
           f == CHOOSE g : g = PlaceRule(base, g)
<1>1. ASSUME NEW place \in Place, base[place.local] # Nowhere
      PROVE  to(place) \in Place /\ base[place.local].local = copied_place(body, place.local).local
  <2>1. place.local \in Local /\ place.proj \in Seq(Elem)
    BY DEF Place
  <2>2. base[place.local] = copied_place(body, place.local) /\ copied_place(body, place.local) \in Place
    BY <1>1, <2>1, BaseIs, CopiedIs
  <2> HIDE DEF base
  <2>3. base[place.local].local \in Local /\ base[place.local].proj \in Seq(Elem)
    BY <2>2 DEF Place
  <2>4. base[place.local].proj \o place.proj \in Seq(Elem)
    BY <2>1, <2>3
  <2> QED  BY <2>2, <2>3, <2>4 DEF Place
<1> HIDE DEF base
<1>2. nxt \in [Place -> Place]
  BY <1>1
<1>3. \E g : TailOf(Place, stop, nxt, res, g)
  <2>1. stop \subseteq Place
    OBVIOUS
  <2> HIDE DEF stop, nxt, res
  <2> QED  BY <1>2, <2>1, TailRecursion
<1>4. ASSUME NEW g PROVE g = PlaceRule(base, g) <=> TailOf(Place, stop, nxt, res, g)
  <2>1. PlaceRule(base, g) = [place \in Place |-> IF base[place.local] = Nowhere THEN place ELSE g[to(place)]]
    BY Zenon DEF PlaceRule
  <2>2. \A place \in Place : (IF base[place.local] = Nowhere THEN place ELSE g[to(place)])
                             = (IF place \in stop THEN res[place] ELSE g[nxt[place]])
    <3> HIDE DEF to
    <3> QED  OBVIOUS
  <2> HIDE DEF to, stop, nxt, res
  <2>3. PlaceRule(base, g) = [place \in Place |-> IF place \in stop THEN res[place] ELSE g[nxt[place]]]
    BY <2>1, <2>2
  <2> QED  BY <2>3, Zenon DEF TailOf
<1>5. f = PlaceRule(base, f)
  <2> HIDE DEF stop, nxt, res
  <2> QED  BY <1>3, <1>4
<1> HIDE DEF f
<1>6. \A place \in Place : f[place] = IF base[place.local] = Nowhere THEN place ELSE f[to(place)]
  BY <1>5 DEF PlaceRule
<1> DEFINE Bad == {l \in Local : \E place \in Place : place.local = l /\ f[place] \notin Place}
<1>7. ASSUME NEW l \in Bad PROVE copied_place(body, l).local \in Bad
  <2>1. PICK place \in Place : place.local = l /\ f[place] \notin Place
    OBVIOUS
  <2>2. base[l] # Nowhere
    BY <1>6, <2>1
  <2> DEFINE u == to(place)
  <2>3. u \in Place /\ u.local = copied_place(body, l).local
    BY <1>1, <2>1, <2>2
  <2>4. f[place] = f[u]
    BY <1>6, <2>1, <2>2
  <2> HIDE DEF u
  <2>5. u.local \in Local
    BY <2>3 DEF Place
  <2> QED  BY <2>1, <2>3, <2>4, <2>5
<1>8. Bad = {}
  <2>1. Bad \in SUBSET Local
    OBVIOUS
  <2> HIDE DEF Bad
  <2> QED  BY <1>7, <2>1, NoCopyCycle
<1>9. \A place \in Place : f[place] \in Place
  BY <1>8 DEF Place
<1>10. compute_aliases(body) = [l \in Local |-> IF base[l] = Nowhere THEN Nowhere ELSE f[Whole(l)]]
  BY AliasesUnfold, Zenon DEF base, f
<1> HIDE DEF stop, nxt, res
<1> QED  BY <1>6, <1>9, <1>10 DEF base

\* A place temp is a pointer, and stands for another that is no temp.
LEMMA AliasIs ==
  ASSUME body \in Bodies, aliases = compute_aliases(body), NEW l \in Local
  PROVE  /\ Root(l) \in Local /\ aliases[Root(l)] = Nowhere
         /\ body.data[l].borrow => body.data[Root(l)].borrow
         /\ aliases[l] # Nowhere =>
              /\ body.data[l].borrow /\ l \notin body.params
              /\ aliases[l] = Whole(Root(l))
              /\ \A p \in defs_of(body, l) :
                   /\ Copies(InstrAt(body, p))
                   /\ InstrAt(body, p).reads[1].place.proj = <<>>
                   /\ InstrAt(body, p).reads[1].place.local \in Local
                   /\ body.data[InstrAt(body, p).reads[1].place.local].borrow
                   /\ Root(InstrAt(body, p).reads[1].place.local) = Root(l)
<1>1. PICK f : /\ aliases = [m \in Local |-> IF Base(body)[m] = Nowhere THEN Nowhere ELSE f[Whole(m)]]
               /\ \A place \in Place :
                    /\ f[place] \in Place
                    /\ f[place] = IF Base(body)[place.local] = Nowhere THEN place
                                  ELSE f[[local |-> Base(body)[place.local].local,
                                          proj  |-> Base(body)[place.local].proj \o place.proj]]
  BY Settles
<1> DEFINE base == Base(body)
           from(m) == copied_place(body, m)
<1>2. \A m \in Local : Whole(m) \in Place /\ Whole(m).local = m /\ Whole(m).proj = <<>>
  BY DEF Place, Whole
<1>3. \A m \in Local : aliases[m] = Nowhere <=> base[m] = Nowhere
  <2> SUFFICES ASSUME NEW m \in Local PROVE aliases[m] = Nowhere <=> base[m] = Nowhere
    OBVIOUS
  <2>1. f[Whole(m)] \in Place
    BY <1>1, <1>2
  <2>2. f[Whole(m)] # Nowhere
    BY <2>1, LocalAssumption DEF Place, Nowhere
  <2> QED  BY <1>1, <2>2
<1>4. \A m \in Local : aliases[m] # Nowhere => body.data[m].borrow /\ m \notin body.params
  <2>1. Lowered(body)
    BY LoanBodiesAssumption
  <2> QED  BY <2>1, Zenon DEF Lowered
<1>5. ASSUME NEW m \in Local, base[m] # Nowhere, NEW p \in defs_of(body, m)
      PROVE  /\ Copies(InstrAt(body, p))
             /\ InstrAt(body, p).reads[1].place = from(m)
             /\ from(m).proj = <<>> /\ from(m).local \in Local
             /\ body.data[from(m).local].borrow
  <2>1. from(m) # Nowhere
    BY <1>5, BaseIs
  <2>2. /\ from(m) \in Place
        /\ Copies(InstrAt(body, p))
        /\ InstrAt(body, p).reads[1].place = from(m)
    BY <2>1, CopiedIs
  <2>3. p \in Points(body) /\ IsDef(InstrAt(body, p), m)
    BY DEF defs_of
  <2> DEFINE instr == InstrAt(body, p)
  <2> HIDE DEF base
  <2>4. /\ instr.kind = "assign" /\ instr.dest = Whole(m) /\ body.data[m].borrow
        /\ Len(instr.reads) = 1 /\ instr.reads[1].how = "copy"
    BY <1>3, <1>4, <1>5, <2>2, <2>3 DEF IsDef, Copies
  <2>5. instr.reads \in Seq(Read)
    BY <2>3, InstrIs DEF Instr
  <2>6. ~Borrows(instr)
    <3> HIDE DEF instr
    <3>1. ReadsOf(instr) = {instr.reads[1]}
      BY <2>4, <2>5 DEF ReadsOf
    <3> QED  BY <2>4, <3>1 DEF Borrows
  <2>7. instr.dest.proj = <<>> /\ instr.dest.local = m
    BY <2>4 DEF Whole
  <2>8. instr.reads[1].place.proj = <<>> /\ body.data[instr.reads[1].place.local].borrow
    BY <2>3, <2>4, <2>6, <2>7, TypedIs
  <2> QED  BY <2>2, <2>8 DEF Place
<1>6. ASSUME NEW m \in Local, base[m] # Nowhere
      PROVE  /\ from(m).local \in Local /\ body.data[from(m).local].borrow /\ body.data[m].borrow
             /\ f[Whole(m)] = f[Whole(from(m).local)]
  <2>1. base[m] = from(m) /\ from(m) # Nowhere
    BY <1>6, BaseIs
  <2>2. PICK p \in Points(body) : p \in defs_of(body, m)
    BY <2>1, CopiedIs
  <2>3. from(m).proj = <<>> /\ from(m).local \in Local /\ body.data[from(m).local].borrow
    BY <1>5, <1>6, <2>2
  <2>4. f[Whole(m)] = f[[local |-> base[Whole(m).local].local, proj |-> base[Whole(m).local].proj \o Whole(m).proj]]
    BY <1>1, <1>2, <1>6
  <2>5. base[Whole(m).local].local = from(m).local /\ base[Whole(m).local].proj = <<>>
    BY <1>2, <2>1, <2>3
  <2>6. <<>> \o <<>> = <<>>
    OBVIOUS
  <2>7. f[Whole(m)] = f[Whole(from(m).local)]
    BY <1>2, <2>4, <2>5, <2>6 DEF Whole
  <2> QED  BY <1>3, <1>4, <1>6, <2>3, <2>7
<1> DEFINE Good(m) == \E r \in Local : /\ f[Whole(m)] = Whole(r) /\ base[r] = Nowhere
                                       /\ body.data[m].borrow => body.data[r].borrow
           Bad == {m \in Local : ~Good(m)}
<1>7. \A m \in Local : base[m] = Nowhere => f[Whole(m)] = Whole(m)
  BY <1>1, <1>2
<1>8. ASSUME NEW m \in Bad PROVE from(m).local \in Bad
  <2> HIDE DEF base
  <2>1. base[m] # Nowhere
    BY <1>7
  <2>2. /\ from(m).local \in Local /\ body.data[from(m).local].borrow /\ body.data[m].borrow
        /\ f[Whole(m)] = f[Whole(from(m).local)]
    BY <1>6, <2>1
  <2> HIDE DEF from
  <2> QED  BY <2>2
<1>9. Bad = {}
  <2>1. Bad \in SUBSET Local
    OBVIOUS
  <2> HIDE DEF Bad
  <2> QED  BY <1>8, <2>1, NoCopyCycle
<1>10. \A m \in Local : Good(m)
  BY <1>9
<1>11. ASSUME NEW m \in Local
       PROVE  /\ f[Whole(m)] = Whole(Root(m)) /\ Root(m) \in Local /\ base[Root(m)] = Nowhere
              /\ body.data[m].borrow => body.data[Root(m)].borrow
  <2>1. PICK r \in Local : /\ f[Whole(m)] = Whole(r) /\ base[r] = Nowhere
                           /\ body.data[m].borrow => body.data[r].borrow
    BY <1>10
  <2>2. Root(m) = r
    <3>1. CASE base[m] = Nowhere
      <4>1. Whole(m) = Whole(r)
        BY <1>7, <2>1, <3>1
      <4>2. m = r
        BY <4>1, <1>2
      <4> QED  BY <1>3, <3>1, <4>2 DEF Root
    <3>2. CASE base[m] # Nowhere
      <4>1. aliases[m] = Whole(r) /\ aliases[m] # Nowhere
        BY <1>1, <1>3, <2>1, <3>2
      <4> QED  BY <1>2, <4>1 DEF Root
    <3> QED  BY <3>1, <3>2
  <2> QED  BY <2>1, <2>2
<1>12. ASSUME aliases[l] # Nowhere, NEW p \in defs_of(body, l)
       PROVE  /\ Copies(InstrAt(body, p))
              /\ InstrAt(body, p).reads[1].place.proj = <<>>
              /\ InstrAt(body, p).reads[1].place.local \in Local
              /\ body.data[InstrAt(body, p).reads[1].place.local].borrow
              /\ Root(InstrAt(body, p).reads[1].place.local) = Root(l)
  <2>1. base[l] # Nowhere
    BY <1>3, <1>12
  <2>2. Whole(Root(from(l).local)) = Whole(Root(l)) /\ Root(from(l).local) \in Local /\ Root(l) \in Local
    BY <1>6, <1>11, <2>1
  <2>3. Root(from(l).local) = Root(l)
    BY <1>2, <2>2
  <2> QED  BY <1>5, <1>12, <2>1, <2>3
<1>13. aliases[l] # Nowhere => aliases[l] = Whole(Root(l))
  BY <1>1, <1>3, <1>11
<1>14. aliases[Root(l)] = Nowhere
  BY <1>3, <1>11
<1> QED  BY <1>4, <1>11, <1>12, <1>13, <1>14
-----------------------------------------------------------------------------
(* What the checker has found out when the body runs.                       *)

\* The loans in scope at a point.
Scope(p) == ThroughBlock(p.block, scope_in[p.block])[p.index]

\* What new made is the body's.
KnownInv ==
  phase # "new" => /\ aliases = compute_aliases(body)
                   /\ live = liveness(body)
                   /\ loans = collect_loans(body)
                   /\ live_loans = compute_live_loans

\* What is reported of a block is trapped.
Heeded(k) ==
  \A i \in 1..Len(body.code[k]) :
    \A d \in Reported(At(k, i), ThroughBlock(k, scope_in[k])[i]) : TrapOf(d) \in traps

HeedInv ==
  /\ phase = "report" => \A k \in Block : k < sweep => Heeded(k)
  /\ phase \in {"ready", "run", "stopped"} => \A k \in Block : Heeded(k)

LEMMA KnownStays ==
  ASSUME KnownInv, UNCHANGED Given, phase # "new"
  PROVE  KnownInv'
<1>1. /\ aliases = compute_aliases(body) /\ live = liveness(body)
      /\ loans = collect_loans(body) /\ live_loans = compute_live_loans
      /\ body' = body /\ aliases' = aliases /\ loans' = loans /\ live' = live
      /\ live_loans' = live_loans
  BY DEF KnownInv, Given
<1>2. collect_loans(body)' = collect_loans(body)
  BY <1>1, ZenonT(60) DEF collect_loans, Loan, resolve, is_place_temp
<1>3. \A x, p : loan_live(x, p)' <=> loan_live(x, p)
  BY <1>1 DEF loan_live, live_at, reaches
<1>4. compute_live_loans' = compute_live_loans
  BY <1>1, <1>3 DEF compute_live_loans
<1> QED  BY <1>1, <1>2, <1>4 DEF KnownInv

LEMMA NextKnown == KnownInv /\ [Next]_vars => KnownInv'
<1> SUFFICES ASSUME KnownInv, [Next]_vars PROVE KnownInv'
  OBVIOUS
<1>1. CASE New
  <2>1. /\ body' = body /\ aliases' = compute_aliases(body) /\ live' = liveness(body)
        /\ loans' = collect_loans(body)' /\ live_loans' = compute_live_loans'
    BY <1>1 DEF New
  <2> QED  BY <2>1 DEF KnownInv
<1>2. CASE Sweep
  BY <1>2, KnownStays DEF Sweep, Given
<1>3. CASE Report
  BY <1>3, KnownStays DEF Report, Given
<1>4. CASE BeginRun
  BY <1>4, KnownStays DEF BeginRun, Given
<1>5. CASE Stop
  BY <1>5, KnownStays DEF Stop, Given
<1>6. CASE Execute
  BY <1>6, KnownStays DEF Execute, Given
<1>7. CASE UNCHANGED vars
  <2>1. UNCHANGED Given /\ phase' = phase
    BY <1>7 DEF vars, Given
  <2>2. CASE phase = "new"
    BY <2>1, <2>2 DEF KnownInv
  <2> QED  BY <2>1, <2>2, KnownStays
<1> QED  BY <1>1, <1>2, <1>3, <1>4, <1>5, <1>6, <1>7 DEF Next

LEMMA ReportedStays ==
  ASSUME UNCHANGED Given
  PROVE  \A p, scope : Reported(p, scope)' = Reported(p, scope)
<1>1. /\ body' = body /\ aliases' = aliases /\ loans' = loans /\ live' = live
      /\ live_loans' = live_loans
  BY DEF Given
<1>2. \A i : accesses_at(i)' = accesses_at(i)
  BY <1>1 DEF accesses_at, LastAccesses, operand_access,
              DefinesPlaceTemp, is_place_temp, resolve, loaned_locals
<1>3. \A p, access : pinned_by(p, access)' = pinned_by(p, access)
  BY <1>1 DEF pinned_by, live_after, live_at, is_place_temp, NextPoints
<1>4. \A p, scope : LiveScope(p, scope)' = LiveScope(p, scope)
  BY <1>1 DEF LiveScope, live_loans_at
<1>5. ASSUME NEW p, NEW scope PROVE Reported(p, scope)' = Reported(p, scope)
  <2>1. InstrAt(body, p)' = InstrAt(body, p)
    BY <1>1 DEF InstrAt
  <2>2. accesses_at(InstrAt(body, p))' = accesses_at(InstrAt(body, p))
    BY <1>2, <2>1
  <2>3. /\ \A a, x : escapes(a, x, InstrAt(body, p))' <=> escapes(a, x, InstrAt(body, p))
        /\ \A a, x : conflicts(a, x)' <=> conflicts(a, x)
    BY <2>1 DEF escapes, conflicts
  <2> QED  BY <1>3, <1>4, <2>1, <2>2, <2>3 DEF Reported, Diag
<1> QED  BY <1>5

LEMMA HeededStays ==
  ASSUME UNCHANGED Given, scope_in' = scope_in, traps \subseteq traps'
  PROVE  \A k : Heeded(k) => Heeded(k)'
<1>1. \A k, scope : ThroughBlock(k, scope)' = ThroughBlock(k, scope)
  BY WalkedStays
<1>2. \A p, scope : Reported(p, scope)' = Reported(p, scope)
  BY ReportedStays
<1>3. body' = body
  BY DEF Given
<1>4. \A d : TrapOf(d)' = TrapOf(d)
  BY DEF TrapOf
<1> QED  BY <1>1, <1>2, <1>3, <1>4 DEF Heeded

LEMMA NextHeed == IInv /\ HeedInv /\ [Next]_vars => HeedInv'
<1> SUFFICES ASSUME IInv, HeedInv, [Next]_vars PROVE HeedInv'
  OBVIOUS
<1>1. body \in Bodies /\ sweep \in Block /\ phase \in Phases
  BY DEF IInv, TypeInv
<1>2. CASE New
  BY <1>2 DEF New, HeedInv
<1>3. CASE Sweep
  <2>1. phase' = "scope" \/ (phase' = "report" /\ sweep' = FirstBlock)
    BY <1>3 DEF Sweep
  <2>2. \A k \in Block : ~(k < FirstBlock)
    BY <1>1, BlockOrder
  <2>3. phase' = "report" => \A k \in Block : ~(k < sweep')
    BY <2>1, <2>2
  <2> QED  BY <2>1, <2>3 DEF HeedInv
<1>4. CASE Report
  <2>0. PICK k : k = sweep
    OBVIOUS
  <2> DEFINE scopes == ThroughBlock(k, scope_in[k])
             found  == UNION {Reported(At(k, i), scopes[i]) : i \in DOMAIN body.code[k]}
  <2>1. /\ phase = "report" /\ traps' = traps \cup {TrapOf(d) : d \in found}
        /\ sweep' = IF IsLast(k) THEN FirstBlock ELSE NextBlock(k)
        /\ phase' = IF IsLast(k) THEN "ready" ELSE "report"
        /\ UNCHANGED Given /\ scope_in' = scope_in
    BY <1>4, <2>0, Zenon DEF Report, Given
  <2>2. k \in Block /\ DOMAIN body.code[k] = 1..Len(body.code[k])
    BY <1>1, <2>0, BodyFacts
  <2>3. \A j : Heeded(j) => Heeded(j)'
    <3> HIDE DEF found
    <3> QED  BY <2>1, HeededStays
  <2>4. Heeded(k)'
    <3>1. \A p, scope : Reported(p, scope)' = Reported(p, scope)
      BY <2>1, ReportedStays
    <3>2. ThroughBlock(k, scope_in[k])' = scopes
      <4>1. \A j, scope : ThroughBlock(j, scope)' = ThroughBlock(j, scope)
        BY <2>1, WalkedStays
      <4> QED  BY <2>1, <4>1
    <3>3. \A i \in 1..Len(body.code[k]) : \A d \in Reported(At(k, i), scopes[i]) : TrapOf(d) \in traps'
      BY <2>1, <2>2
    <3>4. body' = body
      BY <2>1 DEF Given
    <3> HIDE DEF scopes, found
    <3> QED  BY <3>1, <3>2, <3>3, <3>4 DEF Heeded, TrapOf
  <2>5. \A j \in Block : j < k => Heeded(j)
    BY <2>0, <2>1 DEF HeedInv
  <2>6. /\ ~IsLast(k) => \A j \in Block : j < NextBlock(k) => j < k \/ j = k
        /\ IsLast(k) => \A j \in Block : j < k \/ j = k
    BY <1>1, <2>2, BlockOrder
  <2> HIDE DEF found
  <2>7. CASE IsLast(k)
    <3>1. \A j \in Block : Heeded(j)'
      BY <2>3, <2>4, <2>5, <2>6, <2>7
    <3> QED  BY <2>1, <2>7, <3>1 DEF HeedInv
  <2>8. CASE ~IsLast(k)
    <3>1. \A j \in Block : j < NextBlock(k) => Heeded(j)'
      BY <2>3, <2>4, <2>5, <2>6, <2>8
    <3>2. sweep' = NextBlock(k) /\ phase' = "report"
      BY <2>1, <2>8
    <3> QED  BY <3>1, <3>2 DEF HeedInv
  <2> QED  BY <2>7, <2>8
<1>5. CASE phase = phase' /\ sweep' = sweep /\ traps' = traps /\ scope_in' = scope_in /\ UNCHANGED Given
  BY <1>5, HeededStays DEF HeedInv
<1>6. CASE BeginRun \/ Stop
  <2>1. /\ phase \in {"ready", "run"} /\ phase' \in {"run", "stopped"}
        /\ traps' = traps /\ scope_in' = scope_in /\ UNCHANGED Given
    BY <1>6 DEF BeginRun, Stop, Given
  <2> QED  BY <2>1, HeededStays DEF HeedInv
<1> QED  BY <1>2, <1>3, <1>4, <1>5, <1>6 DEF Next, Execute, vars, Given

\* The checker is done with the body.
Checked ==
  /\ body \in Bodies
  /\ aliases = compute_aliases(body) /\ live = liveness(body)
  /\ loans = collect_loans(body) /\ live_loans = compute_live_loans
  /\ scope_in \in [Block -> SUBSET loans]
  /\ \A k \in Block : Closed(k) /\ Heeded(k)

LEMMA CheckedIs ==
  IInv /\ KnownInv /\ HeedInv /\ phase \in {"ready", "run", "stopped"} => Checked
BY DEF IInv, TypeInv, SweepInv, KnownInv, HeedInv, Checked

\* A loan in scope at a point stays so after it unless the point ends it, and
\* is from where it is minted on.
LEMMA ScopeOn ==
  ASSUME Checked, NEW p \in Points(body), NEW q \in NextPoints(body, p)
  PROVE  /\ Scope(p) \subseteq loans
         /\ \A x \in loans : x.mint = p \/ (x \in Scope(p) /\ Survives(x, p)) => x \in Scope(q)
<1> DEFINE k == p.block
           i == p.index
           n == Len(body.code[k])
           B == ThroughBlock(k, scope_in[k])
<1>1. k \in Block /\ i \in 1..n /\ n \in Nat \ {0} /\ p = At(k, i) /\ body \in Bodies
  BY PointIs, BodyFacts DEF Checked
<1>2. scope_in[k] \in SUBSET loans
  BY <1>1 DEF Checked
<1>3. B[i + 1] = step(p, B[i]) /\ B[i] \in SUBSET loans /\ Scope(p) = B[i]
  BY <1>1, <1>2, ThroughIs DEF Scope
<1> HIDE DEF B
<1>4. ASSUME NEW x \in loans, x.mint = p \/ (x \in Scope(p) /\ Survives(x, p)) PROVE x \in B[i + 1]
  <2> HIDE DEF i, k
  <2> QED  BY <1>3, <1>4, StepIs
<1>5. B[i + 1] \subseteq Scope(q)
  <2>1. CASE i < n
    <3>1. q = At(k, i + 1)
      BY <2>1 DEF NextPoints
    <3> QED  BY <3>1, AtIs DEF Scope, B
  <2>2. CASE ~(i < n)
    <3>1. PICK j \in successors(body, k) : q = At(j, 1)
      BY <2>2 DEF NextPoints
    <3>2. j \in Block /\ Len(body.code[j]) \in Nat
      BY <1>1, BodyFacts
    <3>3. scope_in[j] \in SUBSET loans
      BY <3>2 DEF Checked
    <3>4. Scope(q) = scope_in[j]
      BY <3>1, <3>2, <3>3, ThroughIs, AtIs DEF Scope
    <3>5. i = n
      BY <1>1, <2>2
    <3> QED  BY <1>1, <3>1, <3>4, <3>5 DEF Checked, Closed, Out, B
  <2> QED  BY <2>1, <2>2
<1> QED  BY <1>3, <1>4, <1>5

\* Past a point that is not trapped, no access of it conflicts with a loan in
\* scope and live there, and none replaces what a place temp stands for.
LEMMA Refused ==
  ASSUME Checked, NEW p \in Points(body), p \notin traps, NEW access \in accesses_at(InstrAt(body, p))
  PROVE  /\ \A x \in Scope(p) : x \in live_loans_at(p) /\ x.mint \notin traps => ~conflicts(access, x)
         /\ pinned_by(p, access) = {}
<1> DEFINE instr == InstrAt(body, p)
<1>1. p.block \in Block /\ p.index \in 1..Len(body.code[p.block]) /\ p = At(p.block, p.index)
  BY PointIs DEF Checked
<1>2. \A d \in Reported(p, Scope(p)) : TrapOf(d) \in traps
  BY <1>1 DEF Checked, Heeded, Scope
<1>3. ASSUME NEW x \in Scope(p), x \in live_loans_at(p), x.mint \notin traps, conflicts(access, x)
      PROVE  FALSE
  <2> DEFINE d == Diag(IF escapes(access, x, instr) THEN "Escapes" ELSE "Invalidated", p, x.mint)
  <2>1. x \in LiveScope(p, Scope(p))
    BY <1>3 DEF LiveScope
  <2>2. d \in {Diag(IF escapes(access, m, instr) THEN "Escapes" ELSE "Invalidated", p, m.mint) :
                 m \in {y \in LiveScope(p, Scope(p)) : conflicts(access, y)}}
    BY <1>3, <2>1
  <2>3. d \in Reported(p, Scope(p))
    <3> HIDE DEF d
    <3> QED  BY <2>2, Zenon DEF Reported
  <2>4. TrapOf(d) \in {p, x.mint}
    BY DEF TrapOf, Diag
  <2> HIDE DEF d
  <2> QED  BY <1>2, <1>3, <2>3, <2>4
<1>4. ASSUME pinned_by(p, access) # {} PROVE FALSE
  <2> DEFINE d == Diag("Repointed", p, At(0, 0))
  <2>1. d \in Reported(p, Scope(p))
    BY <1>4, Zenon DEF Reported
  <2>2. TrapOf(d) = p
    BY DEF TrapOf, Diag
  <2> HIDE DEF d
  <2> QED  BY <1>2, <2>1, <2>2
<1> QED  BY <1>3, <1>4
-----------------------------------------------------------------------------
(* Loans and the pointers they keep.                                        *)

\* What a borrowing point mints.
LEMMA LoanIs ==
  ASSUME Checked
  PROVE  /\ \A x \in loans :
              /\ x.mint \in Points(body) /\ Borrows(InstrAt(body, x.mint))
              /\ x.region = covers(body, LoanAt(x.mint))
              /\ x.flow_points = {c.origin : c \in flows_into_universal(body, x.region)}
         /\ \A p \in Points(body) : Borrows(InstrAt(body, p)) =>
              \E x \in loans : /\ x.mint = p
                               /\ x.place = resolve(InstrAt(body, p).reads[1].place)
                               /\ x.mutable <=> InstrAt(body, p).reads[1].how = "mut"
<1>1. loans = collect_loans(body) /\ body \in Bodies
  BY DEF Checked
<1>2. \A p \in Points(body) : Borrows(InstrAt(body, p)) => InstrAt(body, p).kind = "assign"
  BY <1>1, TypedIs
<1>3. ASSUME NEW x \in loans
      PROVE  /\ x.mint \in Points(body) /\ Borrows(InstrAt(body, x.mint))
             /\ x.region = covers(body, LoanAt(x.mint))
             /\ x.flow_points = {c.origin : c \in flows_into_universal(body, x.region)}
  BY <1>1 DEF collect_loans, Loan
<1>4. ASSUME NEW p \in Points(body), Borrows(InstrAt(body, p))
      PROVE  \E x \in loans : /\ x.mint = p
                              /\ x.place = resolve(InstrAt(body, p).reads[1].place)
                              /\ x.mutable <=> InstrAt(body, p).reads[1].how = "mut"
  <2> DEFINE x == Loan(body, p, resolve(InstrAt(body, p).reads[1].place), InstrAt(body, p).reads[1].how = "mut")
  <2>1. x \in loans
    BY <1>1, <1>2, <1>4 DEF collect_loans
  <2>2. /\ x.mint = p
        /\ x.place = resolve(InstrAt(body, p).reads[1].place)
        /\ x.mutable <=> InstrAt(body, p).reads[1].how = "mut"
    BY DEF Loan
  <2> QED  BY <2>1, <2>2
<1> QED  BY <1>3, <1>4

\* The loan is kept up to a point by what l holds.
LiveFor(x, l, p) ==
  \/ Of(body, l) # Caller /\ Of(body, l) \in x.region
  \/ \E flow \in x.flow_points : reaches(flow, p)

LEMMA LiveForIs ==
  ASSUME Checked, NEW x \in loans, NEW l, NEW p \in Points(body), LiveFor(x, l, p)
  PROVE  /\ \A q \in NextPoints(body, p) : LiveFor(x, l, q)
         /\ l \in live_at(p) /\ body.data[l].borrow => x \in live_loans_at(p)
<1>1. body \in Bodies
  BY DEF Checked
<1>2. x.flow_points \subseteq Points(body)
  <2>1. \A c \in region_constraints(body) : c.origin \in Points(body)
    BY <1>1, ConstraintsAre DEF region_constraints
  <2> QED  BY <2>1, LoanIs DEF flows_into_universal
<1>3. \A q \in NextPoints(body, p) : LiveFor(x, l, q)
  BY <1>1, <1>2, ReachesOn DEF LiveFor
<1>4. ASSUME l \in live_at(p), body.data[l].borrow PROVE x \in live_loans_at(p)
  <2>1. p.block \in Block /\ p.index \in 1..Len(body.code[p.block]) /\ p = At(p.block, p.index)
    BY <1>1, PointIs
  <2>2. DOMAIN body.code[p.block] = 1..Len(body.code[p.block])
    BY <1>1, <2>1, BodyFacts
  <2>3. loan_live(x, p)
    <3>1. Of(body, l) # Caller => Of(body, l) \in local_regions(body, l)
      BY <1>4 DEF local_regions
    <3> QED  BY <1>4, <3>1 DEF LiveFor, loan_live
  <2>4. live_loans[p.block][p.index] = {loan \in loans : loan_live(loan, p)}
    BY <2>1, <2>2 DEF Checked, compute_live_loans
  <2> QED  BY <2>3, <2>4 DEF live_loans_at
<1> QED  BY <1>3, <1>4

\* A region the loan covers takes it into the ones it outlives, and to the
\* caller from that point on.
LEMMA Outlives ==
  ASSUME Checked, NEW x \in loans, NEW c \in region_constraints(body), c.sup \in x.region
  PROVE  /\ c.sub \in x.region
         /\ c.sup # Caller /\ c.sub = Caller => c.origin \in x.flow_points
<1>1. body \in Bodies
  BY DEF Checked
<1>2. c.sub \in x.region
  BY <1>1, LoanIs, CoversIs
<1>3. c.sup # Caller /\ c.sub = Caller => c \in flows_into_universal(body, x.region)
  BY DEF flows_into_universal, is_universal
<1> QED  BY <1>2, <1>3, LoanIs

\* From what one local holds to what another does: a copy, a reborrow, and
\* the loan just minted.
LEMMA Carries ==
  ASSUME Checked, NEW p \in Points(body), NEW q \in NextPoints(body, p), NEW instr, instr = InstrAt(body, p),
         instr.kind \in {"assign", "call"}, instr.dest # Nowhere, instr.dest.proj = <<>>, NEW x \in loans
  PROVE  /\ Borrows(instr) /\ x.mint = p => LiveFor(x, instr.dest.local, q)
         /\ Borrows(instr) => \A r \in ReadsOf(instr) :
              Derefs(r.place) /\ LiveFor(x, r.place.local, p) => LiveFor(x, instr.dest.local, q)
         /\ ~Borrows(instr) => \A r \in Handed(body, instr) :
              LiveFor(x, r.place.local, p) => LiveFor(x, instr.dest.local, q)
<1> DEFINE D == Of(body, instr.dest.local)
           mint == Constraint(LoanAt(p), D, p)
           into(r) == Constraint(Of(body, r.place.local), LoanAt(p), p)
           flow(r) == Constraint(Of(body, r.place.local), D, p)
<1>1. body \in Bodies /\ reaches(p, q)
  BY ReachesOn DEF Checked
<1>2. ConstraintsAt(body, p) \subseteq region_constraints(body)
  BY DEF region_constraints
<1>3. LoanAt(p) # Caller
  <2>1. Len(<<"loan", p.block, p.index>>) = 3 /\ Len(<<"caller">>) = 1
    OBVIOUS
  <2> QED  BY <2>1 DEF LoanAt, Caller
<1>4. \A a, b : /\ Constraint(a, b, p).sup = a /\ Constraint(a, b, p).sub = b
                /\ Constraint(a, b, p).origin = p
  BY DEF Constraint
<1>5. D \in x.region /\ (D = Caller => p \in x.flow_points) => LiveFor(x, instr.dest.local, q)
  BY <1>1 DEF LiveFor
<1>6. ASSUME NEW l, LiveFor(x, l, p)
      PROVE  (Of(body, l) # Caller /\ Of(body, l) \in x.region) \/ LiveFor(x, instr.dest.local, q)
  BY <1>6, LiveForIs DEF LiveFor
<1>7. ASSUME Borrows(instr), LoanAt(p) \in x.region PROVE LiveFor(x, instr.dest.local, q)
  <2>1. mint \in region_constraints(body)
    BY <1>2, <1>7 DEF ConstraintsAt
  <2>2. D \in x.region /\ (D = Caller => p \in x.flow_points)
    BY <1>3, <1>4, <1>7, <2>1, Outlives
  <2> QED  BY <1>5, <2>2
<1>8. ASSUME Borrows(instr), x.mint = p PROVE LiveFor(x, instr.dest.local, q)
  <2>1. LoanAt(p) \in x.region
    BY <1>1, <1>8, LoanIs, CoversIs
  <2> QED  BY <1>7, <1>8, <2>1
<1>9. ASSUME Borrows(instr), NEW r \in ReadsOf(instr), Derefs(r.place), LiveFor(x, r.place.local, p)
      PROVE  LiveFor(x, instr.dest.local, q)
  <2>1. into(r) \in region_constraints(body)
    BY <1>2, <1>9 DEF ConstraintsAt
  <2>2. Of(body, r.place.local) \in x.region => LoanAt(p) \in x.region
    BY <1>4, <2>1, Outlives
  <2> QED  BY <1>6, <1>7, <1>9, <2>2
<1>10. ASSUME ~Borrows(instr), NEW r \in Handed(body, instr), LiveFor(x, r.place.local, p)
       PROVE  LiveFor(x, instr.dest.local, q)
  <2>1. flow(r) \in region_constraints(body)
    BY <1>2, <1>10 DEF ConstraintsAt
  <2>2. Of(body, r.place.local) # Caller /\ Of(body, r.place.local) \in x.region
          => D \in x.region /\ (D = Caller => p \in x.flow_points)
    BY <1>4, <2>1, Outlives
  <2> QED  BY <1>5, <1>6, <1>10, <2>2
<1> QED  BY <1>8, <1>9, <1>10
-----------------------------------------------------------------------------
(* Paths and places.                                                        *)

LEMMA OverlapTurns ==
  ASSUME NEW a, NEW b, Len(a) \in Nat, Len(b) \in Nat
  PROVE  paths_overlap(a, b) <=> paths_overlap(b, a)
<1>1. (IF Len(a) < Len(b) THEN Len(a) ELSE Len(b)) = (IF Len(b) < Len(a) THEN Len(b) ELSE Len(a))
  OBVIOUS
<1> QED  BY <1>1 DEF paths_overlap

\* What meets an inner path meets the outer one.
LEMMA OuterMeets ==
  ASSUME NEW a, NEW b, NEW c, Len(a) \in Nat, Len(b) \in Nat, Len(c) \in Nat,
         Len(a) <= Len(b), paths_overlap(a, b), paths_overlap(b, c)
  PROVE  paths_overlap(a, c)
<1> SUFFICES ASSUME NEW i \in 1..(IF Len(a) < Len(c) THEN Len(a) ELSE Len(c)) PROVE a[i] = c[i]
  BY DEF paths_overlap
<1>1. a[i] = b[i]
  <2>1. i \in 1..(IF Len(a) < Len(b) THEN Len(a) ELSE Len(b))
    OBVIOUS
  <2> QED  BY <2>1 DEF paths_overlap
<1>2. b[i] = c[i]
  <2>1. i \in 1..(IF Len(b) < Len(c) THEN Len(b) ELSE Len(c))
    OBVIOUS
  <2> QED  BY <2>1 DEF paths_overlap
<1> QED  BY <1>1, <1>2

\* Two places behind a pointer meet if what they are under its address does.
LEMMA BehindMeets ==
  ASSUME NEW S, NEW base \in Seq(S), NEW a \in Seq(S), NEW b \in Seq(S),
         a # <<>>, b # <<>>, a[1] = b[1],
         paths_overlap(base \o Tail(a), base \o Tail(b))
  PROVE  paths_overlap(a, b)
<1> SUFFICES ASSUME NEW i \in 1..(IF Len(a) < Len(b) THEN Len(a) ELSE Len(b)) PROVE a[i] = b[i]
  BY DEF paths_overlap
<1> DEFINE u == base \o Tail(a)
           v == base \o Tail(b)
           m == Len(base)
<1>1. /\ m \in Nat /\ Len(a) \in Nat \ {0} /\ Len(b) \in Nat \ {0}
      /\ Tail(a) \in Seq(S) /\ Tail(b) \in Seq(S)
      /\ Len(Tail(a)) = Len(a) - 1 /\ Len(Tail(b)) = Len(b) - 1
  OBVIOUS
<1>2. Len(u) = m + (Len(a) - 1) /\ Len(v) = m + (Len(b) - 1)
  BY <1>1
<1>3. CASE i = 1
  BY <1>3
<1>4. CASE i # 1
  <2>1. /\ i - 1 \in 1..Len(Tail(a)) /\ i - 1 \in 1..Len(Tail(b)) /\ (i - 1) + 1 = i
        /\ m + (i - 1) \in 1..Len(u) /\ m + (i - 1) \in 1..Len(v)
    BY <1>1, <1>2, <1>4
  <2>2. Tail(a)[i - 1] = a[i] /\ Tail(b)[i - 1] = b[i]
    BY <2>1
  <2>3. u[m + (i - 1)] = Tail(a)[i - 1] /\ v[m + (i - 1)] = Tail(b)[i - 1]
    BY <1>1, <2>1
  <2>4. u[m + (i - 1)] = v[m + (i - 1)]
    <3> HIDE DEF u, v, m
    <3>1. m + (i - 1) \in 1..(IF Len(u) < Len(v) THEN Len(u) ELSE Len(v))
      BY <1>1, <1>2, <2>1
    <3>2. paths_overlap(u, v)
      BY DEF u, v
    <3> QED  BY <3>1, <3>2 DEF paths_overlap
  <2> QED  BY <2>2, <2>3, <2>4
<1> QED  BY <1>3, <1>4

\* A place is longer than what it is inside of, and meets it.
LEMMA Longer ==
  ASSUME NEW S, NEW a \in Seq(S), NEW b \in Seq(S), NEW c, c = a \o b
  PROVE  /\ c \in Seq(S) /\ Len(c) \in Nat /\ Len(a) <= Len(c)
         /\ paths_overlap(a, c)
<1>1. c \in Seq(S) /\ Len(c) \in Nat /\ Len(c) = Len(a) + Len(b) /\ Len(a) \in Nat /\ Len(b) \in Nat
  OBVIOUS
<1>2. \A n \in 1..Len(a) : c[n] = a[n]
  OBVIOUS
<1>3. paths_overlap(a, c)
  BY <1>1, <1>2 DEF paths_overlap
<1> QED  BY <1>1, <1>3

LEMMA ResolveIs ==
  ASSUME Checked, NEW place, place.local \in Local, place.proj \in Seq(Elem),
         place = [local |-> place.local, proj |-> place.proj]
  PROVE  /\ resolve(place) = [local |-> Root(place.local), proj |-> place.proj]
         /\ ~body.data[place.local].borrow => Root(place.local) = place.local
<1>1. aliases[place.local] # Nowhere =>
        body.data[place.local].borrow /\ aliases[place.local] = Whole(Root(place.local))
  BY AliasIs DEF Checked
<1>2. CASE aliases[place.local] = Nowhere
  BY <1>2 DEF resolve, is_place_temp, Root
<1>3. CASE aliases[place.local] # Nowhere
  <2>1. resolve(place) = [local |-> aliases[place.local].local,
                          proj |-> aliases[place.local].proj \o place.proj]
    BY <1>3 DEF resolve, is_place_temp
  <2>2. <<>> \o place.proj = place.proj
    OBVIOUS
  <2>3. aliases[place.local].local = Root(place.local) /\ aliases[place.local].proj = <<>>
    BY <1>1, <1>3 DEF Whole
  <2>4. resolve(place) = [local |-> Root(place.local), proj |-> place.proj]
    BY <2>1, <2>2, <2>3
  <2> QED  BY <1>1, <1>3, <2>4
<1> QED  BY <1>2, <1>3
-----------------------------------------------------------------------------
(* The invariant of the run.                                                *)

Ptr == [addr: [local: Local \cup {NoLocal}, proj: Seq(Elem \cup Local)],
        mutable: BOOLEAN, above: SUBSET Nat, stale: BOOLEAN]

Holds(l) == l \in live_at(at) /\ body.data[l].borrow

\* A pointer was borrowed through a line of others, each through the one
\* before it and pointing into what that one does.
Tree(i) ==
  /\ minted[i].above \subseteq 1..(i - 1)
  /\ \E c \in Ancestors(i) : minted[c].above = {}
  /\ \A v \in minted[i].above : \E c \in Ancestors(i) : minted[c].above = Ancestors(v)

Within(i, v) ==
  /\ minted[v].addr.local = minted[i].addr.local
  /\ Len(minted[v].addr.proj) <= Len(minted[i].addr.proj)
  /\ paths_overlap(minted[v].addr.proj, minted[i].addr.proj)
  /\ minted[i].mutable => minted[v].mutable

Grounded(i) ==
  minted[i].addr.local # NoLocal =>
    /\ ~body.data[minted[i].addr.local].borrow
    /\ \A n \in DOMAIN minted[i].addr.proj : minted[i].addr.proj[n] # "*"

Pointers ==
  /\ minted \in Seq(Ptr)
  /\ \A i \in DOMAIN minted : Tree(i) /\ Grounded(i) /\ \A v \in Ancestors(i) : Within(i, v)

Held ==
  /\ conc \in [Local -> Nat]
  /\ \A l \in Local :
       /\ conc[l] # 0 => /\ conc[l] \in DOMAIN minted /\ body.data[l].borrow
                         /\ minted[conc[l]].mutable <=> ~body.data[l].copyable
       /\ Holds(l) => conc[l] # 0

\* Of two pointers to the same storage neither may write, unless one is
\* borrowed through the other or stale.
Apart ==
  \A i, j \in DOMAIN minted :
    (/\ ~minted[i].stale /\ ~minted[j].stale
     /\ i \notin Ancestors(j) /\ j \notin Ancestors(i)
     /\ Overlap(minted[i].addr, minted[j].addr)) =>
       ~minted[i].mutable /\ ~minted[j].mutable

Exact == \A l \in Local : Holds(l) /\ is_place_temp(l) => conc[l] = conc[Root(l)]

\* A pointer that may write is one local's, and its place temps'.
Unique ==
  \A l, m \in Local :
    Holds(l) /\ Holds(m) /\ conc[l] = conc[m] /\ minted[conc[l]].mutable => Root(l) = Root(m)

Fresh == \A l \in Local : Holds(l) => ~minted[conc[l]].stale

\* A loan in scope that a live local keeps.
Keeps(x, l) == x \in Scope(at) /\ LiveFor(x, l, at) /\ x.mint \notin traps

\* The loan of a place of the body's own that c points at.
OfOwn(x, c) == x.place = minted[c].addr /\ (minted[c].mutable => x.mutable)

\* The loan, through the pointer v that root holds, of what c points at.
Through(x, c, v, root) ==
  /\ x.place.local = root /\ x.place.proj \in Seq(Elem) /\ Derefs(x.place)
  /\ \A i \in DOMAIN x.place.proj : i > 1 => x.place.proj[i] # "*"
  /\ minted[c].addr.proj = minted[v].addr.proj \o Tail(x.place.proj)
  /\ minted[c].mutable => x.mutable

\* What a live pointer was borrowed from is on loan: a place of the body's
\* own, and each exclusive pointer on the way that a live local holds.
OwnLoaned ==
  \A l \in Local : Holds(l) =>
    \A c \in Ancestors(conc[l]) :
      minted[c].above = {} /\ minted[c].addr.local # NoLocal =>
        \E x \in loans : Keeps(x, l) /\ OfOwn(x, c)

ThroughLoaned ==
  \A l, q \in Local : Holds(l) /\ Holds(q) /\ minted[conc[q]].mutable =>
    \A c \in Ancestors(conc[l]) :
      minted[c].above = Ancestors(conc[q]) =>
        \E x \in loans : Keeps(x, l) /\ Through(x, c, conc[q], Root(q))

Running ==
  /\ at \in Points(body)
  /\ Pointers /\ Held /\ Apart /\ Exact /\ Unique /\ Fresh /\ OwnLoaned /\ ThroughLoaned

RunInv == phase = "run" => Running
-----------------------------------------------------------------------------
(* An instruction's accesses, as the checker and as the run see them.       *)

Plain(place) ==
  /\ place.local \in Local /\ place.proj \in Seq(Elem)
  /\ place = [local |-> place.local, proj |-> place.proj]
  /\ Derefs(place) <=> body.data[place.local].borrow /\ place.proj # <<>>
  /\ \A i \in DOMAIN place.proj : i > 1 => place.proj[i] # "*"

LEMMA PlacesArePlain ==
  ASSUME body \in Bodies, NEW p \in Points(body), NEW instr, instr = InstrAt(body, p)
  PROVE  /\ \A r \in ReadsOf(instr) : Plain(r.place)
         /\ instr.dest # Nowhere => Plain(instr.dest)
<1>1. \A r \in ReadsOf(instr) : r.place \in Place
  <2>1. instr.reads \in Seq(Read)
    BY InstrIs DEF Instr
  <2>2. \A r \in ReadsOf(instr) : r \in Read
    BY <2>1 DEF ReadsOf
  <2> QED  BY <2>2 DEF Read
<1>2. instr.dest # Nowhere => instr.dest \in Place
  BY InstrIs
<1>3. \A place \in Place :
        /\ place.local \in Local /\ place.proj \in Seq(Elem)
        /\ place = [local |-> place.local, proj |-> place.proj]
  BY DEF Place
<1>4. /\ \A r \in ReadsOf(instr) :
            /\ Derefs(r.place) <=> body.data[r.place.local].borrow /\ r.place.proj # <<>>
            /\ \A i \in DOMAIN r.place.proj : i > 1 => r.place.proj[i] # "*"
      /\ instr.dest # Nowhere =>
            /\ Derefs(instr.dest) <=> body.data[instr.dest.local].borrow /\ instr.dest.proj # <<>>
            /\ \A i \in DOMAIN instr.dest.proj : i > 1 => instr.dest.proj[i] # "*"
  BY TypedIs
<1> QED  BY <1>1, <1>2, <1>3, <1>4 DEF Plain

\* An access of the place, resolved or as it is named; or of the whole of the
\* pointer the place is behind.
IsAccessOf(access, place) ==
  \/ access.place = resolve(place)
  \/ access.place = place /\ ~Derefs(place)
  \/ access.place = Whole(Root(place.local)) /\ ~access.shallow /\ Derefs(place)

LEMMA TouchIs ==
  ASSUME Checked, NEW p \in Points(body), NEW instr, instr = InstrAt(body, p),
         instr.kind \notin {"trap", "return"}, NEW t \in Touches(instr)
  PROVE  \E place, write, access :
           /\ t = Touch(place, write) /\ Plain(place) /\ write \in BOOLEAN
           /\ Derefs(place) => /\ place.local \in uses_at(body, instr)
                               /\ write => Exclusive(place.local)
           /\ access \in accesses_at(instr)
           /\ IsAccessOf(access, place)
           /\ write => IsWrite(access)
<1>1. body \in Bodies
  BY DEF Checked
<1>2. ASSUME NEW r \in ReadsOf(instr), r.how # "raw", ~DefinesPlaceTemp(instr), t = Touch(r.place, Takes(r))
      PROVE  \E place, write, access :
               /\ t = Touch(place, write) /\ Plain(place) /\ write \in BOOLEAN
               /\ Derefs(place) => /\ place.local \in uses_at(body, instr)
                                   /\ write => Exclusive(place.local)
               /\ access \in accesses_at(instr)
               /\ IsAccessOf(access, place)
               /\ write => IsWrite(access)
  <2> DEFINE access == operand_access(r)
  <2>1. access \in accesses_at(instr)
    BY <1>2 DEF accesses_at
  <2>2. IsAccessOf(access, r.place)
    BY DEF operand_access, Access, IsAccessOf
  <2>3. Takes(r) => access.kind \in {"move", "mut_borrow"}
    BY DEF Takes, operand_access, Access
  <2>4. Takes(r) => IsWrite(access)
    BY <2>3 DEF IsWrite
  <2>5. Plain(r.place) /\ r.place.local \in uses_at(body, instr)
    BY <1>1, PlacesArePlain DEF uses_at
  <2>6. Derefs(r.place) /\ Takes(r) => Exclusive(r.place.local)
    <3>1. r.how \in {"move", "mut"} /\ Derefs(r.place) => Exclusive(r.place.local)
      BY <1>1, TypedIs
    <3> QED  BY <3>1 DEF Takes, Derefs
  <2>7. Takes(r) \in BOOLEAN
    BY DEF Takes
  <2> HIDE DEF access
  <2> QED  BY <1>2, <2>1, <2>2, <2>4, <2>5, <2>6, <2>7
<1>3. ASSUME instr.dest # Nowhere, t = Touch(instr.dest, TRUE)
      PROVE  \E place, write, access :
               /\ t = Touch(place, write) /\ Plain(place) /\ write \in BOOLEAN
               /\ Derefs(place) => /\ place.local \in uses_at(body, instr)
                                   /\ write => Exclusive(place.local)
               /\ access \in accesses_at(instr)
               /\ IsAccessOf(access, place)
               /\ write => IsWrite(access)
  <2>1. /\ Plain(instr.dest)
        /\ instr.kind \in {"assign", "call", "dead"}
        /\ instr.kind # "assign" => instr.dest.proj = <<>>
        /\ Derefs(instr.dest) => Exclusive(instr.dest.local)
    <3>1. /\ instr.kind \notin {"assign", "call", "trap", "dead"} => instr.dest = Nowhere
          /\ instr.kind # "assign" => instr.dest.proj = <<>>
          /\ Derefs(instr.dest) => Exclusive(instr.dest.local)
      BY <1>1, TypedIs
    <3> QED  BY <1>1, <1>3, <3>1, PlacesArePlain
  <2>2. Derefs(instr.dest) => instr.dest.local \in uses_at(body, instr)
    BY <2>1 DEF uses_at, Derefs
  <2>3. ~Derefs(instr.dest) \/ instr.dest.proj # <<>>
    BY DEF Derefs
  <2> DEFINE access == Access(IF instr.kind = "dead" THEN "storage_end" ELSE "write",
                              IF instr.kind = "assign" /\ instr.dest.proj # <<>> THEN resolve(instr.dest)
                              ELSE instr.dest, TRUE)
  <2>4. access \in LastAccesses(instr)
    BY <2>1 DEF LastAccesses
  <2>5. access \in accesses_at(instr)
    <3> HIDE DEF access
    <3> QED  BY <2>4 DEF accesses_at
  <2>6. IsWrite(access) /\ IsAccessOf(access, instr.dest)
    BY <2>1, <2>3 DEF IsWrite, Access, IsAccessOf
  <2> HIDE DEF access
  <2> QED  BY <1>3, <2>1, <2>2, <2>5, <2>6
<1>4. ASSUME NEW r \in ReadsOf(instr), instr.kind = "call", WholeBorrow(body, r),
             t = Touch(Behind(r), MayWrite(r))
      PROVE  \E place, write, access :
               /\ t = Touch(place, write) /\ Plain(place) /\ write \in BOOLEAN
               /\ Derefs(place) => /\ place.local \in uses_at(body, instr)
                                   /\ write => Exclusive(place.local)
               /\ access \in accesses_at(instr)
               /\ IsAccessOf(access, place)
               /\ write => IsWrite(access)
  <2> DEFINE access == operand_access(r)
             l == r.place.local
  <2>1. /\ r.how \in {"copy", "move"} /\ r.place.proj = <<>> /\ body.data[l].borrow
        /\ Plain(r.place) /\ l \in uses_at(body, instr)
    BY <1>1, <1>4, PlacesArePlain DEF WholeBorrow, uses_at
  <2>2. access \in accesses_at(instr)
    BY <1>4, <2>1 DEF accesses_at, DefinesPlaceTemp, Copies
  <2>3. access.place = Whole(Root(l)) /\ ~access.shallow
    <3>1. resolve(r.place) = [local |-> Root(l), proj |-> <<>>]
      BY <2>1, ResolveIs DEF Plain
    <3> QED  BY <3>1 DEF operand_access, Access, Whole
  <2>4. MayWrite(r) => IsWrite(access)
    BY <2>1 DEF MayWrite, operand_access, Access, IsWrite
  <2>5. /\ Behind(r).local = l /\ Behind(r).proj = <<"*">> /\ Derefs(Behind(r))
        /\ Behind(r) = [local |-> l, proj |-> <<"*">>]
    BY DEF Behind, Derefs
  <2>6. Plain(Behind(r))
    <3>1. <<"*">> \in Seq(Elem) /\ \A i \in DOMAIN <<"*">> : i = 1
      BY DerefAssumption
    <3>2. l \in Local
      BY <2>1 DEF Plain
    <3> QED  BY <2>1, <2>5, <3>1, <3>2 DEF Plain
  <2>7. IsAccessOf(access, Behind(r))
    <3> HIDE DEF access
    <3> QED  BY <2>3, <2>5 DEF IsAccessOf
  <2>8. MayWrite(r) \in BOOLEAN /\ (MayWrite(r) => Exclusive(l))
    BY <2>1 DEF MayWrite, Exclusive
  <2> HIDE DEF access
  <2> QED  BY <1>4, <2>1, <2>2, <2>4, <2>5, <2>6, <2>7, <2>8
<1> QED  BY <1>2, <1>3, <1>4 DEF Touches

LEMMA PointerIs ==
  ASSUME Pointers, NEW i \in DOMAIN minted
  PROVE  /\ DOMAIN minted = 1..Len(minted) /\ Len(minted) \in Nat /\ i \in Nat \ {0}
         /\ Ancestors(i) = {i} \cup minted[i].above /\ Ancestors(i) \subseteq 1..i
         /\ Ancestors(i) \subseteq DOMAIN minted
         /\ minted[i].addr.local \in Local \cup {NoLocal}
         /\ minted[i].addr.proj \in Seq(Elem \cup Local) /\ Len(minted[i].addr.proj) \in Nat
         /\ minted[i].mutable \in BOOLEAN /\ minted[i].stale \in BOOLEAN
<1>1. minted \in Seq(Ptr) /\ minted[i].above \subseteq 1..(i - 1)
  BY DEF Pointers, Tree
<1>2. DOMAIN minted = 1..Len(minted) /\ Len(minted) \in Nat /\ minted[i] \in Ptr
  BY <1>1
<1>3. i \in Nat \ {0} /\ i <= Len(minted)
  BY <1>2
<1>4. Ancestors(i) = {i} \cup minted[i].above
  BY <1>3 DEF Ancestors
<1>5. 1..(i - 1) \subseteq 1..i /\ i \in 1..i /\ 1..i \subseteq 1..Len(minted)
  BY <1>2, <1>3
<1>6. /\ minted[i].addr.local \in Local \cup {NoLocal}
      /\ minted[i].addr.proj \in Seq(Elem \cup Local)
      /\ minted[i].mutable \in BOOLEAN /\ minted[i].stale \in BOOLEAN
  BY <1>2 DEF Ptr
<1>7. Len(minted[i].addr.proj) \in Nat
  BY <1>6
<1> QED  BY <1>1, <1>2, <1>3, <1>4, <1>5, <1>6, <1>7

\* A loan that a live local keeps conflicts with no access.
LEMMA Guarded ==
  ASSUME Checked, at \in Points(body), at \notin traps, NEW l, Holds(l), NEW x \in loans, Keeps(x, l)
  PROVE  /\ \A access \in accesses_at(InstrAt(body, at)) : ~conflicts(access, x)
         /\ \/ Survives(x, at)
            \/ \E access \in accesses_at(InstrAt(body, at)) : access.shallow /\ kills(access.place, x)
<1>1. x \in live_loans_at(at)
  BY LiveForIs DEF Keeps, Holds
<1>2. \A access \in accesses_at(InstrAt(body, at)) : ~conflicts(access, x)
  BY <1>1, Refused DEF Keeps
<1> QED  BY <1>1, <1>2 DEF Survives

\* What a live local holds is invalidated by no access of a point that is not
\* trapped: not by one of the body's own storage, ...
LEMMA OwnUntouched ==
  ASSUME Checked, Running, at \notin traps, NEW l \in Local, Holds(l),
         NEW place, Plain(place), ~Derefs(place), NEW write \in BOOLEAN,
         NEW access \in accesses_at(InstrAt(body, at)),
         IsAccessOf(access, place), write => IsWrite(access)
  PROVE  ~Invalidates(Touch(place, write), conc[l])
<1> DEFINE i == conc[l]
<1>1. SUFFICES ASSUME Invalidates(Touch(place, write), i) PROVE FALSE
  OBVIOUS
<1>2. i \in DOMAIN minted /\ Pointers /\ at \in Points(body)
  BY DEF Running, Held
<1>3. Overlap(place, minted[i].addr) /\ (write \/ minted[i].mutable)
  <2>1. Touch(place, write).addr = place /\ Touch(place, write).write = write
    BY DEF Touch, Address
  <2> QED  BY <1>1, <2>1 DEF Invalidates
<1>4. place.local = minted[i].addr.local /\ paths_overlap(place.proj, minted[i].addr.proj)
  BY <1>3 DEF Overlap
<1>5. place.local \in Local /\ minted[i].addr.local # NoLocal
  BY <1>4, LocalAssumption DEF Plain
<1>6. PICK c \in Ancestors(i) : minted[c].above = {}
  BY <1>2 DEF Pointers, Tree
<1>7. Within(i, c) /\ c \in DOMAIN minted
  BY <1>2, <1>6, PointerIs DEF Pointers
<1>8. minted[c].addr.local # NoLocal
  BY <1>5, <1>7 DEF Within
<1>9. PICK x \in loans : Keeps(x, l) /\ OfOwn(x, c)
  BY <1>6, <1>8 DEF Running, OwnLoaned
<1>10. ~body.data[place.local].borrow /\ \A n \in DOMAIN minted[c].addr.proj : minted[c].addr.proj[n] # "*"
  BY <1>2, <1>4, <1>5, <1>7, <1>8 DEF Pointers, Grounded, Within
<1>11. access.place.local = place.local /\ access.place.proj = place.proj
  BY <1>10, ResolveIs DEF Plain, IsAccessOf
<1>12. paths_overlap(place.proj, minted[c].addr.proj)
  <2>1. Len(minted[c].addr.proj) \in Nat /\ Len(minted[i].addr.proj) \in Nat
    BY <1>2, <1>7, PointerIs
  <2>2. Len(place.proj) \in Nat
    BY DEF Plain
  <2>3. paths_overlap(minted[i].addr.proj, place.proj)
    BY <1>4, <2>1, <2>2, OverlapTurns
  <2>4. paths_overlap(minted[c].addr.proj, place.proj)
    BY <1>7, <2>1, <2>2, <2>3, OuterMeets DEF Within
  <2> QED  BY <2>1, <2>2, <2>4, OverlapTurns
<1>13. conflicts(access, x)
  <2>1. Overlap(access.place, x.place)
    BY <1>4, <1>7, <1>9, <1>11, <1>12 DEF Overlap, OfOwn, Within
  <2>2. IsWrite(access) \/ x.mutable
    BY <1>3, <1>7, <1>9 DEF OfOwn, Within
  <2>3. ~\E n \in DOMAIN x.place.proj : n > Len(access.place.proj) /\ x.place.proj[n] = "*"
    BY <1>9, <1>10 DEF OfOwn
  <2> QED  BY <2>1, <2>2, <2>3 DEF conflicts
<1> QED  BY <1>2, <1>9, <1>13, Guarded

\* ... and not by one through a pointer.
LEMMA BehindUntouched ==
  ASSUME Checked, Running, at \notin traps, NEW l \in Local, Holds(l),
         NEW place, Plain(place), Derefs(place), Holds(place.local), NEW write \in BOOLEAN,
         write => Exclusive(place.local),
         NEW access \in accesses_at(InstrAt(body, at)), IsAccessOf(access, place), write => IsWrite(access)
  PROVE  ~Invalidates(Touch(place, write), conc[l])
<1> DEFINE i == conc[l]
           q == place.local
           v == conc[q]
           addr == [local |-> minted[v].addr.local, proj |-> minted[v].addr.proj \o Tail(place.proj)]
<1>1. SUFFICES ASSUME Invalidates(Touch(place, write), i) PROVE FALSE
  OBVIOUS
<1>2. /\ q \in Local /\ i \in DOMAIN minted /\ v \in DOMAIN minted /\ v # 0 /\ Pointers
      /\ at \in Points(body) /\ place.proj \in Seq(Elem) /\ place.proj # <<>> /\ place.proj[1] = "*"
  BY DEF Running, Held, Plain, Derefs
<1>3. /\ i \notin Ancestors(v) /\ Overlap(addr, minted[i].addr) /\ (write \/ minted[i].mutable)
  <2>1. /\ Touch(place, write).addr = addr /\ Touch(place, write).write = write
        /\ Touch(place, write).via = v
    BY <1>2 DEF Touch, Address, Via
  <2> QED  BY <1>1, <2>1 DEF Invalidates
<1>4. write => minted[v].mutable
  BY <1>2 DEF Running, Held, Exclusive
<1>5. /\ minted[v].addr.local = minted[i].addr.local
      /\ paths_overlap(addr.proj, minted[i].addr.proj)
  BY <1>3 DEF Overlap
<1>6. /\ Len(minted[v].addr.proj) \in Nat /\ Len(minted[i].addr.proj) \in Nat
      /\ minted[v].addr.proj \in Seq(Elem \cup Local) /\ minted[v].mutable \in BOOLEAN
  BY <1>2, PointerIs
<1>7. Tail(place.proj) \in Seq(Elem)
  BY <1>2
<1>8. /\ addr.proj \in Seq(Elem \cup Local) /\ Len(addr.proj) \in Nat
      /\ Len(minted[v].addr.proj) <= Len(addr.proj)
      /\ paths_overlap(minted[v].addr.proj, addr.proj)
  <2>1. Tail(place.proj) \in Seq(Elem \cup Local)
    BY <1>7
  <2>2. addr.proj = minted[v].addr.proj \o Tail(place.proj)
    OBVIOUS
  <2> HIDE DEF addr
  <2> QED  BY <1>6, <2>1, <2>2, Longer
<1>9. v \in Ancestors(i)
  <2>1. SUFFICES ASSUME v \notin Ancestors(i) PROVE FALSE
    OBVIOUS
  <2>2. paths_overlap(minted[v].addr.proj, minted[i].addr.proj)
    <3> HIDE DEF addr
    <3> QED  BY <1>5, <1>6, <1>8, OuterMeets
  <2>3. Overlap(minted[v].addr, minted[i].addr)
    BY <1>5, <2>2 DEF Overlap
  <2>4. ~minted[v].stale /\ ~minted[i].stale
    BY <1>2 DEF Running, Fresh
  <2>5. ~minted[v].mutable /\ ~minted[i].mutable
    BY <1>2, <1>3, <2>1, <2>3, <2>4 DEF Running, Apart
  <2> QED  BY <1>3, <1>4, <2>5
<1>10. Within(i, v) /\ v \in minted[i].above
  <2>1. v # i /\ Ancestors(i) = {i} \cup minted[i].above
    BY <1>2, <1>3, PointerIs
  <2> QED  BY <1>2, <1>9, <2>1 DEF Pointers
<1>11. minted[v].mutable
  BY <1>3, <1>4, <1>10 DEF Within
<1>12. PICK c \in Ancestors(i) : minted[c].above = Ancestors(v)
  BY <1>2, <1>10 DEF Pointers, Tree
<1>13. PICK x \in loans : Keeps(x, l) /\ Through(x, c, v, Root(q))
  BY <1>2, <1>11, <1>12 DEF Running, ThroughLoaned
<1>14. Within(i, c) /\ c \in DOMAIN minted
  BY <1>2, <1>12, PointerIs DEF Pointers
<1>15. /\ access.place.local = Root(q)
       /\ access.place.proj = place.proj \/ (access.place.proj = <<>> /\ ~access.shallow)
  BY ResolveIs DEF Plain, IsAccessOf, Whole
<1>16. paths_overlap(place.proj, x.place.proj)
  <2>1. Len(minted[c].addr.proj) \in Nat
    BY <1>14, PointerIs
  <2>2. paths_overlap(minted[i].addr.proj, addr.proj)
    <3> HIDE DEF addr
    <3> QED  BY <1>5, <1>6, <1>8, OverlapTurns
  <2>3. paths_overlap(minted[c].addr.proj, addr.proj)
    <3> HIDE DEF addr
    <3> QED  BY <1>6, <1>8, <1>14, <2>1, <2>2, OuterMeets DEF Within
  <2>4. paths_overlap(minted[v].addr.proj \o Tail(x.place.proj), minted[v].addr.proj \o Tail(place.proj))
    BY <1>13, <2>3 DEF Through
  <2>5. x.place.proj \in Seq(Elem) /\ x.place.proj # <<>> /\ x.place.proj[1] = "*"
    BY <1>13 DEF Through, Derefs
  <2>6. x.place.proj \in Seq(Elem \cup Local) /\ place.proj \in Seq(Elem \cup Local)
    BY <1>2, <2>5
  <2>7. paths_overlap(x.place.proj, place.proj)
    BY <1>2, <1>6, <2>4, <2>5, <2>6, BehindMeets
  <2>8. Len(x.place.proj) \in Nat /\ Len(place.proj) \in Nat
    BY <1>2, <2>5
  <2> QED  BY <2>7, <2>8, OverlapTurns
<1>17. conflicts(access, x)
  <2>1. Overlap(access.place, x.place)
    <3>1. access.place.proj = <<>> => paths_overlap(access.place.proj, x.place.proj)
      <4>1. x.place.proj \in Seq(Elem)
        BY <1>13, Zenon DEF Through
      <4>2. PICK s : s = x.place.proj
        OBVIOUS
      <4>3. paths_overlap(<<>>, s)
        BY <4>1, <4>2 DEF paths_overlap
      <4> QED  BY <4>2, <4>3
    <3> QED  BY <1>13, <1>15, <1>16, <3>1 DEF Overlap, Through
  <2>2. IsWrite(access) \/ x.mutable
    BY <1>3, <1>13, <1>14 DEF Through, Within
  <2>3. access.place.proj = place.proj =>
          ~\E n \in DOMAIN x.place.proj : n > Len(access.place.proj) /\ x.place.proj[n] = "*"
    <3>1. Len(place.proj) \in Nat \ {0} /\ x.place.proj \in Seq(Elem)
      <4>1. PICK s : s = place.proj
        OBVIOUS
      <4>2. s \in Seq(Elem) /\ s # <<>>
        BY <1>2, <4>1
      <4>3. Len(s) \in Nat \ {0}
        BY <4>2
      <4>4. x.place.proj \in Seq(Elem)
        BY <1>13, Zenon DEF Through
      <4> QED  BY <4>1, <4>3, <4>4
    <3>2. \A n \in DOMAIN x.place.proj : n > 1 => x.place.proj[n] # "*"
      BY <1>13, Zenon DEF Through
    <3>3. \A n \in DOMAIN x.place.proj : n \in Nat
      BY <3>1
    <3> QED  BY <3>1, <3>2, <3>3
  <2> QED  BY <1>15, <2>1, <2>2, <2>3 DEF conflicts
<1> QED  BY <1>2, <1>13, <1>17, Guarded

LEMMA Untouched ==
  ASSUME Checked, Running, at \notin traps, NEW instr, instr = InstrAt(body, at),
         instr.kind \notin {"trap", "return"}, NEW l \in Local, Holds(l), NEW t \in Touches(instr)
  PROVE  ~Invalidates(t, conc[l])
<1>1. at \in Points(body) /\ body \in Bodies
  BY DEF Running, Checked
<1>2. PICK place, write, access :
        /\ t = Touch(place, write) /\ Plain(place) /\ write \in BOOLEAN
        /\ Derefs(place) => /\ place.local \in uses_at(body, instr)
                            /\ write => Exclusive(place.local)
        /\ access \in accesses_at(instr)
        /\ IsAccessOf(access, place)
        /\ write => IsWrite(access)
  BY <1>1, TouchIs
<1>3. CASE ~Derefs(place)
  BY <1>2, <1>3, OwnUntouched
<1>4. CASE Derefs(place)
  <2>1. place.local \in live_at(at)
    BY <1>1, <1>2, <1>4, LivenessIs DEF Checked
  <2>2. Holds(place.local)
    BY <1>2, <1>4, <2>1 DEF Plain, Holds
  <2> QED  BY <1>2, <1>4, <2>2, BehindUntouched
<1> QED  BY <1>3, <1>4
-----------------------------------------------------------------------------
(* A step of the run.                                                       *)

\* What lowering sees to at a point.
LEMMA LoweredIs ==
  ASSUME Checked, NEW p \in Points(body), NEW instr, instr = InstrAt(body, p)
  PROVE  /\ instr.kind = "dead" =>
              \A l \in live_after(p) : body.data[l].borrow => instr.dest.local \notin {l, Root(l)}
         /\ (instr.kind = "call" \/ (instr.kind = "assign" /\ ~is_place_temp(instr.dest.local))) =>
              \A r \in ReadsOf(instr) :
                (/\ r.how \in {"copy", "move"} /\ r.place.proj = <<>> /\ Exclusive(r.place.local)) =>
                  (Root(r.place.local) \in live_after(p) => instr.dest = Whole(Root(r.place.local)))
<1>1. Lowered(body) /\ aliases = compute_aliases(body) /\ live = liveness(body)
  BY LoanBodiesAssumption DEF Checked
<1>2. live_after(p) = UNION {liveness(body)[q.block][q.index] : q \in NextPoints(body, p)}
  BY <1>1 DEF live_after, live_at
<1> DEFINE alias == compute_aliases(body)
           base == [l \in Local |-> copied_place(body, l)]
           root(l) == IF alias[l] = Nowhere THEN l ELSE alias[l].local
           before == liveness(body)
           after(o) == UNION {before[q.block][q.index] : q \in NextPoints(body, o)}
           there == InstrAt(body, p)
<1>3. /\ there.kind = "dead" =>
           \A l \in after(p) : body.data[l].borrow => there.dest.local \notin {l, root(l)}
      /\ (\/ there.kind = "call"
          \/ there.kind = "assign" /\ alias[there.dest.local] = Nowhere) =>
           \A r \in ReadsOf(there) :
             (WholeBorrow(body, r) /\ ~body.data[r.place.local].copyable) =>
               (root(r.place.local) \in after(p) => there.dest = Whole(root(r.place.local)))
  BY <1>1, Zenon DEF Lowered
<1>4. after(p) = live_after(p) /\ \A l : root(l) = Root(l)
  BY <1>1, <1>2 DEF Root
<1>5. alias = aliases
  BY <1>1
<1> HIDE DEF alias, after, root, base, before
<1> QED  BY <1>3, <1>4, <1>5 DEF is_place_temp, Exclusive, WholeBorrow

\* What Execute does.
Steps(instr) ==
  /\ instr = InstrAt(body, at)
  /\ instr.kind \notin {"trap", "return"}
  /\ at \notin traps
  /\ at' \in NextPoints(body, at)
  /\ minted' = Minted(instr)
  /\ conc' \in IF instr.dest = Nowhere \/ instr.dest.proj # <<>> THEN {conc}
               ELSE {[conc EXCEPT ![instr.dest.local] = i] : i \in Received(instr)}
  /\ UNCHANGED <<Given, scope_in, traps>>

LEMMA StepStays ==
  ASSUME NEW instr, Checked, Running, Steps(instr)
  PROVE  /\ body' = body /\ aliases' = aliases /\ loans' = loans /\ live' = live /\ traps' = traps
         /\ body \in Bodies /\ at \in Points(body) /\ at' \in Points(body)
         /\ \A p : Scope(p)' = Scope(p)
         /\ \A x, l, p : LiveFor(x, l, p)' <=> LiveFor(x, l, p)
         /\ \A l : Root(l)' = Root(l) /\ (is_place_temp(l)' <=> is_place_temp(l))
         /\ live_at(at) \subseteq Local
         /\ \A l : Holds(l)' <=> l \in live_at(at') /\ body.data[l].borrow
         /\ \A l : Holds(l)' => l \in live_after(at) /\ l \in Local
<1>1. /\ body' = body /\ aliases' = aliases /\ loans' = loans /\ live' = live /\ traps' = traps
      /\ scope_in' = scope_in /\ UNCHANGED Given /\ at' \in NextPoints(body, at)
  BY DEF Steps, Given
<1>2. body \in Bodies /\ at \in Points(body) /\ live = liveness(body)
  BY DEF Checked, Running
<1>3. at' \in Points(body)
  BY <1>1, <1>2, NextIs
<1>4. \A p : Scope(p)' = Scope(p)
  BY <1>1, WalkedStays DEF Scope
<1>5. \A x, l, p : LiveFor(x, l, p)' <=> LiveFor(x, l, p)
  BY <1>1 DEF LiveFor, Of, reaches, reach
<1>6. \A l : Root(l)' = Root(l) /\ (is_place_temp(l)' <=> is_place_temp(l))
  BY <1>1 DEF Root, is_place_temp
<1>7. live_at(at) \subseteq Local
  BY <1>2, LivenessIs
<1>8. \A l : Holds(l)' <=> l \in live_at(at') /\ body.data[l].borrow
  BY <1>1 DEF Holds, live_at
<1>9. live_at(at') \subseteq Local
  <2>1. PICK q : q = at'
    OBVIOUS
  <2>2. live_at(q) \subseteq Local
    BY <1>2, <1>3, <2>1, LivenessIs
  <2> QED  BY <2>1, <2>2
<1>10. \A l : Holds(l)' => l \in live_after(at) /\ l \in Local
  BY <1>1, <1>8, <1>9 DEF live_after
<1> QED  BY <1>1, <1>2, <1>3, <1>4, <1>5, <1>6, <1>7, <1>8, <1>10

\* The pointers after it: the old ones, invalidated or not, and the one a
\* borrow makes.
LEMMA OldPointers ==
  ASSUME NEW instr, Checked, Running, Steps(instr)
  PROVE  /\ Len(minted) \in Nat /\ DOMAIN minted = 1..Len(minted)
         /\ \A i \in DOMAIN minted :
              /\ i \in DOMAIN minted'
              /\ minted'[i].addr = minted[i].addr /\ minted'[i].mutable = minted[i].mutable
              /\ minted'[i].above = minted[i].above
              /\ minted'[i].stale = (minted[i].stale \/ \E t \in Touches(instr) : Invalidates(t, i))
         /\ \A i \in 0..Len(minted) : Ancestors(i)' = Ancestors(i)
         /\ minted' \in Seq(Ptr)
         /\ DOMAIN minted' = 1..(Len(minted) + (IF Borrows(instr) THEN 1 ELSE 0))
<1> DEFINE new == Pointer(Address(instr.reads[1].place), instr.reads[1].how = "mut",
                          Ancestors(Via(instr.reads[1].place)))
           old == Touched(instr)
           n == Len(minted)
<1>1. minted \in Seq(Ptr) /\ body \in Bodies /\ at \in Points(body) /\ instr = InstrAt(body, at)
  BY DEF Running, Pointers, Checked, Steps
<1>2. n \in Nat /\ DOMAIN minted = 1..n
  BY <1>1
<1>3. minted' = IF Borrows(instr) THEN Append(old, new) ELSE old
  <2>1. Borrows(instr) => instr.kind = "assign"
    BY <1>1, TypedIs
  <2> QED  BY <2>1 DEF Steps, Minted
<1>4. \A i \in 1..n : minted[i] \in Ptr
  BY <1>1
<1>5. /\ DOMAIN old = 1..n
      /\ \A i \in 1..n :
           old[i] = [minted[i] EXCEPT !.stale = @ \/ \E t \in Touches(instr) : Invalidates(t, i)]
  BY <1>2 DEF Touched
<1>6. \A i \in 1..n :
        /\ old[i].addr = minted[i].addr /\ old[i].mutable = minted[i].mutable
        /\ old[i].above = minted[i].above
        /\ old[i].stale = (minted[i].stale \/ \E t \in Touches(instr) : Invalidates(t, i))
        /\ old[i] \in Ptr
  <2> SUFFICES ASSUME NEW i \in 1..n
               PROVE  /\ old[i].addr = minted[i].addr /\ old[i].mutable = minted[i].mutable
                      /\ old[i].above = minted[i].above
                      /\ old[i].stale = (minted[i].stale
                                        \/ \E t \in Touches(instr) : Invalidates(t, i))
                      /\ old[i] \in Ptr
    OBVIOUS
  <2>1. PICK m, o, b :
          /\ m = minted[i] /\ o = old[i]
          /\ b = \E t \in Touches(instr) : Invalidates(t, i)
    OBVIOUS
  <2>2. m \in Ptr /\ b \in BOOLEAN /\ o = [m EXCEPT !.stale = @ \/ b]
    <3> HIDE DEF n, old
    <3> QED  BY <1>4, <1>5, <2>1
  <2>3. o.addr = m.addr /\ o.mutable = m.mutable /\ o.above = m.above /\ o.stale = (m.stale \/ b)
    BY <2>2 DEF Ptr
  <2>4. o \in Ptr
    BY <2>2 DEF Ptr
  <2> HIDE DEF n, old
  <2> QED  BY <2>1, <2>3, <2>4
<1>7. old = [i \in 1..n |-> old[i]]
  BY <1>2 DEF Touched
<1>8. old \in Seq(Ptr) /\ Len(old) = n
  <2> HIDE DEF old, n
  <2> QED  BY <1>2, <1>5, <1>6, <1>7
<1>9. Borrows(instr) => new \in Ptr /\ instr.reads[1] \in ReadsOf(instr)
  <2> SUFFICES ASSUME Borrows(instr) PROVE new \in Ptr /\ instr.reads[1] \in ReadsOf(instr)
    OBVIOUS
  <2> DEFINE place == instr.reads[1].place
  <2>1. instr.reads[1] \in ReadsOf(instr)
    <3>1. Len(instr.reads) = 1 /\ instr \in Instr
      BY <1>1, TypedIs, InstrIs
    <3>2. instr.reads \in Seq(Read)
      BY <3>1 DEF Instr
    <3>3. 1 \in DOMAIN instr.reads
      BY <3>1, <3>2
    <3> QED  BY <3>3 DEF ReadsOf
  <2>2. Plain(place)
    BY <1>1, <2>1, PlacesArePlain
  <2>3. /\ Address(place).local \in Local \cup {NoLocal}
        /\ Address(place).proj \in Seq(Elem \cup Local)
        /\ Address(place) = [local |-> Address(place).local, proj |-> Address(place).proj]
    <3>1. CASE Derefs(place) /\ conc[place.local] # 0
      <4>1. conc[place.local] \in DOMAIN minted
        BY <2>2, <3>1 DEF Running, Held, Plain
      <4>2. /\ minted[conc[place.local]].addr.local \in Local \cup {NoLocal}
            /\ minted[conc[place.local]].addr.proj \in Seq(Elem \cup Local)
        BY <4>1, PointerIs DEF Running
      <4>3. Tail(place.proj) \in Seq(Elem)
        BY <2>2, <3>1 DEF Plain, Derefs
      <4>4. Tail(place.proj) \in Seq(Elem \cup Local)
        BY <4>3
      <4>5. Address(place) = [local |-> minted[conc[place.local]].addr.local,
                              proj |-> minted[conc[place.local]].addr.proj \o Tail(place.proj)]
        BY <3>1 DEF Address
      <4> DEFINE a == minted[conc[place.local]].addr.proj \o Tail(place.proj)
      <4>6. a \in Seq(Elem \cup Local)
        BY <4>2, <4>4, Longer
      <4>7. Address(place) = [local |-> minted[conc[place.local]].addr.local, proj |-> a]
        BY <4>5
      <4>8. PICK l, addr : l = minted[conc[place.local]].addr.local /\ addr = Address(place)
        OBVIOUS
      <4> HIDE DEF a
      <4>9. addr = [local |-> l, proj |-> a] /\ l \in Local \cup {NoLocal}
        BY <4>2, <4>7, <4>8
      <4>10. addr.local = l /\ addr.proj = a
        BY <4>9
      <4> QED  BY <4>6, <4>8, <4>9, <4>10
    <3>2. CASE ~(Derefs(place) /\ conc[place.local] # 0)
      <4>1. Address(place) = place
        BY <3>2 DEF Address
      <4>2. place.proj \in Seq(Elem \cup Local)
        BY <2>2 DEF Plain
      <4> QED  BY <2>2, <4>1, <4>2 DEF Plain
    <3> QED  BY <3>1, <3>2
  <2>4. Ancestors(Via(place)) \in SUBSET Nat
    <3>1. CASE Via(place) = 0
      BY <3>1 DEF Ancestors
    <3>2. CASE Via(place) # 0
      <4>1. Via(place) \in DOMAIN minted
        BY <2>2, <3>2 DEF Via, Running, Held, Plain
      <4>2. Ancestors(Via(place)) \subseteq DOMAIN minted
        BY <4>1, PointerIs DEF Running
      <4> QED  BY <1>2, <4>2
    <3> QED  BY <3>1, <3>2
  <2>5. new = [addr |-> Address(place), mutable |-> instr.reads[1].how = "mut",
               above |-> Ancestors(Via(place)), stale |-> FALSE]
    BY DEF Pointer
  <2>6. (instr.reads[1].how = "mut") \in BOOLEAN /\ FALSE \in BOOLEAN
    OBVIOUS
  <2>7. Address(place) \in [local: Local \cup {NoLocal}, proj: Seq(Elem \cup Local)]
    BY <2>3
  <2>8. new \in Ptr
    <3> HIDE DEF new
    <3> QED  BY <2>4, <2>5, <2>6, <2>7, Zenon DEF Ptr
  <2> QED  BY <2>1, <2>8
<1>10. /\ minted' \in Seq(Ptr)
       /\ DOMAIN minted' = 1..(n + (IF Borrows(instr) THEN 1 ELSE 0))
       /\ \A i \in 1..n : i \in DOMAIN minted' /\ minted'[i] = old[i]
  <2> HIDE DEF old, new, n
  <2>1. CASE Borrows(instr)
    BY <1>2, <1>3, <1>8, <1>9, <2>1
  <2>2. CASE ~Borrows(instr)
    BY <1>2, <1>3, <1>8, <2>2
  <2> QED  BY <2>1, <2>2
<1>11. \A i \in 0..n : Ancestors(i)' = Ancestors(i)
  <2> SUFFICES ASSUME NEW i \in 0..n PROVE Ancestors(i)' = Ancestors(i)
    OBVIOUS
  <2>1. CASE i = 0
    BY <2>1 DEF Ancestors
  <2>2. CASE i # 0
    <3>1. i \in 1..n
      BY <1>2, <2>2
    <3>2. minted'[i].above = minted[i].above
      BY <1>6, <1>10, <3>1
    <3> QED  BY <2>2, <3>2 DEF Ancestors
  <2> QED  BY <2>1, <2>2
<1> HIDE DEF old, new
<1> QED  BY <1>2, <1>6, <1>10, <1>11

\* The one it makes, of a place of the body's own or through a pointer.
NewOwn(r, n) ==
  /\ minted'[n].addr = r.place /\ minted'[n].above = {} /\ Via(r.place) = 0
  /\ ~body.data[r.place.local].borrow

NewThrough(r, n, v) ==
  /\ Holds(r.place.local) /\ v \in DOMAIN minted /\ Via(r.place) = v /\ minted'[n].above = Ancestors(v)
  /\ minted'[n].addr.local = minted[v].addr.local
  /\ minted'[n].addr.proj = minted[v].addr.proj \o Tail(r.place.proj)
  /\ r.how = "mut" => minted[v].mutable

LEMMA NewPointer ==
  ASSUME NEW instr, Checked, Running, Steps(instr), Borrows(instr),
         NEW r, r = instr.reads[1], NEW n, n = Len(minted) + 1, NEW v, v = conc[r.place.local]
  PROVE  /\ r \in ReadsOf(instr) /\ Plain(r.place) /\ instr.kind = "assign" /\ instr.dest.proj = <<>>
         /\ r.how \in {"shared", "mut"} /\ (r.how = "mut" <=> Exclusive(instr.dest.local))
         /\ n \in DOMAIN minted' /\ n \notin DOMAIN minted /\ n # 0
         /\ ~minted'[n].stale /\ (minted'[n].mutable <=> r.how = "mut")
         /\ minted'[n].addr = Address(r.place) /\ minted'[n].above = Ancestors(Via(r.place))
         /\ Ancestors(n)' = {n} \cup minted'[n].above
         /\ ~Derefs(r.place) => NewOwn(r, n)
         /\ Derefs(r.place) => NewThrough(r, n, v)
<1> DEFINE place == r.place
           new == Pointer(Address(place), r.how = "mut", Ancestors(Via(place)))
<1>1. /\ minted \in Seq(Ptr) /\ body \in Bodies /\ at \in Points(body) /\ instr = InstrAt(body, at)
  BY DEF Running, Pointers, Checked, Steps
<1>2. instr.kind = "assign" /\ Len(instr.reads) = 1 /\ instr.dest.proj = <<>>
  BY <1>1, TypedIs
<1>3. r.how = "mut" <=> Exclusive(instr.dest.local)
  BY <1>1, TypedIs
<1>4. r \in ReadsOf(instr) /\ ReadsOf(instr) = {r}
  <2>1. instr.reads \in Seq(Read)
    BY <1>1, InstrIs DEF Instr
  <2>2. DOMAIN instr.reads = {1}
    BY <1>2, <2>1
  <2> QED  BY <2>2 DEF ReadsOf
<1>5. Plain(place)
  BY <1>1, <1>4, PlacesArePlain
<1>6. r.how \in {"shared", "mut"}
  BY <1>4 DEF Borrows
<1>7. ~Derefs(place) => ~body.data[place.local].borrow
  BY <1>1, <1>4, <1>6, TypedIs
<1>8. n \in DOMAIN minted' /\ n \notin DOMAIN minted /\ n # 0 /\ minted'[n] = new
  <2> DEFINE old == Touched(instr)
  <2>1. minted' = Append(old, new)
    BY <1>2 DEF Steps, Minted
  <2>2. DOMAIN minted = 1..Len(minted) /\ Len(minted) \in Nat
    BY <1>1
  <2>3. old = [i \in 1..Len(minted) |-> old[i]]
    BY <2>2 DEF Touched
  <2>4. old \in Seq({old[i] : i \in 1..Len(minted)}) /\ Len(old) = Len(minted)
    <3> HIDE DEF old
    <3> QED  BY <2>2, <2>3
  <2> HIDE DEF new, old
  <2> QED  BY <2>1, <2>2, <2>4
<1>9. new = [addr |-> Address(place), mutable |-> r.how = "mut", above |-> Ancestors(Via(place)), stale |-> FALSE]
  BY DEF Pointer
<1>10. ~minted'[n].stale
  BY <1>8, <1>9
<1>11. minted'[n].mutable <=> r.how = "mut"
  <2>1. CASE r.how = "mut"
    <3>1. new = Pointer(Address(place), TRUE, Ancestors(Via(place)))
      BY <2>1, Zenon
    <3>2. new.mutable
      <4> HIDE DEF new
      <4> QED  BY <3>1 DEF Pointer
    <3> HIDE DEF new
    <3> QED  BY <1>8, <2>1, <3>2
  <2>2. CASE r.how # "mut"
    <3>1. new = Pointer(Address(place), FALSE, Ancestors(Via(place)))
      BY <2>2
    <3>2. ~new.mutable
      <4> HIDE DEF new
      <4> QED  BY <3>1 DEF Pointer
    <3> HIDE DEF new
    <3> QED  BY <1>8, <2>2, <3>2
  <2> QED  BY <2>1, <2>2
<1>12. minted'[n].addr = Address(place)
  BY <1>8, <1>9
<1>13. minted'[n].above = Ancestors(Via(place))
  BY <1>8, <1>9
<1>14. Ancestors(n)' = {n} \cup minted'[n].above
  BY <1>8 DEF Ancestors
<1>15. ASSUME ~Derefs(place) PROVE NewOwn(r, n)
  <2>1. Address(place) = place /\ Via(place) = 0 /\ Ancestors(0) = {}
    BY <1>15 DEF Address, Via, Ancestors
  <2> QED  BY <1>7, <1>12, <1>13, <1>15, <2>1 DEF NewOwn
<1>16. ASSUME Derefs(place) PROVE NewThrough(r, n, v)
  <2>1. place.local \in Local /\ body.data[place.local].borrow
    BY <1>5, <1>16 DEF Plain
  <2>2. place.local \in live_at(at)
    <3>1. live = liveness(body)
      BY DEF Checked
    <3> QED  BY <1>1, <1>4, <3>1, LivenessIs DEF uses_at
  <2>3. Holds(place.local)
    BY <2>1, <2>2 DEF Holds
  <2>4. v # 0 /\ v \in DOMAIN minted /\ (minted[v].mutable <=> ~body.data[place.local].copyable)
    BY <2>1, <2>3 DEF Running, Held
  <2>5. Via(place) = v /\ Address(place) = [local |-> minted[v].addr.local,
                                            proj |-> minted[v].addr.proj \o Tail(place.proj)]
    BY <1>16, <2>4 DEF Via, Address
  <2>6. r.how = "mut" => Exclusive(place.local)
    BY <1>1, <1>4, <1>16, TypedIs
  <2>9. PICK a, b : a = minted[v].addr.local /\ b = minted[v].addr.proj \o Tail(place.proj)
    OBVIOUS
  <2>10. PICK d : d = Address(place)
    OBVIOUS
  <2>11. d = [local |-> a, proj |-> b]
    BY <2>5, <2>9, <2>10
  <2>12. d.local = a /\ d.proj = b
    BY <2>11
  <2>7. Address(place).local = minted[v].addr.local
    BY <2>9, <2>10, <2>12
  <2>8. Address(place).proj = minted[v].addr.proj \o Tail(place.proj)
    BY <2>9, <2>10, <2>12
  <2> QED  BY <1>12, <1>13, <2>3, <2>4, <2>5, <2>6, <2>7, <2>8 DEF Exclusive, NewThrough
<1> HIDE DEF new
<1> QED  BY <1>2, <1>3, <1>4, <1>5, <1>6, <1>8, <1>10, <1>11, <1>12, <1>13, <1>14, <1>15, <1>16

\* The local the pointer that l holds after the step was in before it, if it
\* is no new one.
Unchanged(l, instr) == instr.dest # Whole(l) /\ Holds(l) /\ conc'[l] = conc[l]
Borrowed(l, instr) ==
  /\ instr.kind = "assign" /\ instr.dest = Whole(l) /\ Borrows(instr) /\ conc'[l] = Len(minted) + 1
Copied(l, instr, s) ==
  /\ instr.kind \in {"assign", "call"} /\ instr.dest = Whole(l) /\ ~Borrows(instr)
  /\ s \in Local /\ Holds(s) /\ conc'[l] = conc[s] /\ (Exclusive(s) <=> Exclusive(l))
  /\ \E r \in Handed(body, instr) : r.place = Whole(s)

\* What is handed on is a whole borrow, of the kind its destination is.
LEMMA HandedIs ==
  ASSUME body \in Bodies, NEW p \in Points(body), NEW instr, instr = InstrAt(body, p), NEW r \in Handed(body, instr)
  PROVE  /\ r \in ReadsOf(instr) /\ r.how \in {"copy", "move"}
         /\ r.place.local \in Local /\ r.place = Whole(r.place.local) /\ r.place.local \in uses_at(body, instr)
         /\ body.data[r.place.local].borrow /\ body.data[instr.dest.local].borrow
         /\ body.data[r.place.local].copyable <=> body.data[instr.dest.local].copyable
<1>1. /\ r \in ReadsOf(instr) /\ r.how \in {"copy", "move"} /\ r.place.proj = <<>>
      /\ body.data[r.place.local].borrow /\ body.data[instr.dest.local].borrow
      /\ body.data[r.place.local].copyable <=> body.data[instr.dest.local].copyable
  BY DEF Handed, WholeBorrow
<1>2. Plain(r.place)
  BY <1>1, PlacesArePlain
<1>3. r.place = Whole(r.place.local) /\ r.place.local \in Local
  BY <1>1, <1>2 DEF Plain, Whole
<1>4. r.place.local \in uses_at(body, instr)
  BY <1>1 DEF uses_at
<1> QED  BY <1>1, <1>3, <1>4

LEMMA HoldersAre ==
  ASSUME NEW instr, Checked, Running, Steps(instr), NEW l, Holds(l)'
  PROVE  Unchanged(l, instr) \/ Borrowed(l, instr) \/ \E s : Copied(l, instr, s)
<1>1. /\ body \in Bodies /\ at \in Points(body) /\ instr = InstrAt(body, at)
      /\ l \in live_at(at') /\ body.data[l].borrow /\ l \in Local /\ l \in live_after(at)
      /\ conc \in [Local -> Nat] /\ live = liveness(body)
  <2>1. conc \in [Local -> Nat] /\ live = liveness(body) /\ instr = InstrAt(body, at)
    BY DEF Running, Held, Checked, Steps
  <2> QED  BY <2>1, StepStays
<1>2. l \in live_at(at) \/ IsDef(instr, l)
  <2>1. PICK q : q = at'
    OBVIOUS
  <2>2. q \in NextPoints(body, at) /\ l \in live_at(q)
    BY <1>1, <2>1 DEF Steps
  <2> QED  BY <1>1, <2>2, LivenessIs
<1>3. Whole(l) # Nowhere /\ Whole(l).local = l /\ Whole(l).proj = <<>>
  BY <1>1, LocalAssumption DEF Whole, Nowhere
<1>4. \A m : Whole(m).local = m
  BY DEF Whole
<1>5. instr.dest \in Place \cup {Nowhere}
  BY <1>1, InstrIs
<1>6. instr.dest # Nowhere /\ instr.dest.proj = <<>> /\ instr.dest.local = l => instr.dest = Whole(l)
  BY <1>5 DEF Place, Whole
<1>7. CASE instr.dest # Whole(l)
  <2>1. Holds(l)
    BY <1>1, <1>2, <1>7 DEF IsDef, Holds
  <2>2. conc'[l] = conc[l]
    BY <1>1, <1>6, <1>7 DEF Steps
  <2> QED  BY <1>7, <2>1, <2>2 DEF Unchanged
<1>8. CASE instr.dest = Whole(l)
  <2>1. instr.kind \in {"assign", "call"}
    <3>1. instr.kind # "dead"
      BY <1>1, <1>3, <1>8, LoweredIs
    <3>2. instr.kind # "trap"
      BY DEF Steps
    <3>3. instr.kind \in {"assign", "call", "trap", "dead"}
      BY <1>1, <1>3, <1>8, TypedIs
    <3> QED  BY <3>1, <3>2, <3>3
  <2>2. conc'[l] \in Received(instr)
    BY <1>1, <1>3, <1>8 DEF Steps
  <2>3. CASE Borrows(instr)
    <3>1. Received(instr) = {Len(minted) + 1}
      BY <1>1, <1>3, <1>8, <2>1, <2>3 DEF Received
    <3>2. instr.kind = "assign"
      BY <1>1, <2>3, TypedIs
    <3> QED  BY <1>8, <2>2, <2>3, <3>1, <3>2 DEF Borrowed
  <2>4. CASE ~Borrows(instr)
    <3>1. PICK r \in Handed(body, instr) : conc'[l] = conc[r.place.local]
      BY <1>1, <1>3, <1>8, <2>1, <2>2, <2>4 DEF Received
    <3>2. PICK s : s = r.place.local
      OBVIOUS
    <3>3. /\ s \in Local /\ r.place = Whole(s) /\ s \in uses_at(body, instr)
          /\ body.data[s].borrow /\ (Exclusive(s) <=> Exclusive(l))
      BY <1>1, <1>3, <1>8, <3>2, HandedIs DEF Exclusive
    <3>4. s \in live_at(at)
      BY <1>1, <3>3, LivenessIs
    <3>5. Copied(l, instr, s)
      BY <1>8, <2>1, <2>4, <3>1, <3>2, <3>3, <3>4 DEF Copied, Holds
    <3> QED  BY <3>5
  <2> QED  BY <2>3, <2>4
<1> QED  BY <1>7, <1>8

\* A whole place temp is what it stands for.
LEMMA WholeIs ==
  ASSUME Checked, NEW l \in Local
  PROVE  /\ resolve(Whole(l)) = Whole(Root(l))
         /\ is_place_temp(l) => body.data[l].borrow /\ aliases[l] = Whole(Root(l)) /\ l # Root(l)
         /\ ~is_place_temp(l) => Root(l) = l
         /\ Root(l) \in Local /\ ~is_place_temp(Root(l))
         /\ body.data[l].borrow => body.data[Root(l)].borrow
<1>1. body \in Bodies /\ aliases = compute_aliases(body)
  BY DEF Checked
<1>2. /\ Root(l) \in Local /\ aliases[Root(l)] = Nowhere
      /\ body.data[l].borrow => body.data[Root(l)].borrow
      /\ aliases[l] # Nowhere => body.data[l].borrow /\ aliases[l] = Whole(Root(l))
  BY <1>1, AliasIs
<1>3. resolve(Whole(l)) = Whole(Root(l))
  <2>1. PICK place : place = [local |-> l, proj |-> <<>>]
    OBVIOUS
  <2>2. place.local = l /\ place.proj = <<>> /\ <<>> \in Seq(Elem)
    BY <2>1
  <2>3. resolve(place) = [local |-> Root(l), proj |-> <<>>]
    BY <2>1, <2>2, ResolveIs
  <2> QED  BY <2>1, <2>3 DEF Whole
<1> QED  BY <1>2, <1>3 DEF is_place_temp, Root

\* No live place temp's pointer is replaced by a point that is not trapped.
LEMMA Pinned ==
  ASSUME Checked, at \in Points(body), at \notin traps, NEW l \in live_after(at), l \in Local, is_place_temp(l),
         NEW access \in accesses_at(InstrAt(body, at)),
         access.kind = "move" \/ (access.kind = "write" /\ access.shallow)
  PROVE  access.place # Whole(Root(l))
<1> SUFFICES ASSUME access.place = Whole(Root(l)) PROVE FALSE
  OBVIOUS
<1>1. aliases[l] = Whole(Root(l))
  BY WholeIs
<1>2. Overlap(access.place, aliases[l]) /\ Len(access.place.proj) <= Len(aliases[l].proj)
  <2>1. Len(<<>>) = 0
    OBVIOUS
  <2> QED  BY <1>1, <2>1 DEF Overlap, paths_overlap, Whole
<1>3. l \in pinned_by(at, access)
  BY <1>2 DEF pinned_by
<1> QED  BY <1>3, Refused

\* A copy to a local that is no place temp moves an exclusive pointer out of
\* where it was.
LEMMA MovesIt ==
  ASSUME NEW instr, Checked, Running, Steps(instr), NEW l, NEW s, Copied(l, instr, s),
         ~is_place_temp(l), Exclusive(s)
  PROVE  /\ \E access \in accesses_at(instr) :
              access.kind = "move" /\ access.place = Whole(Root(s)) /\ ~access.shallow
         /\ Root(s) \in live_after(at) => l = Root(s)
<1>1. PICK r \in ReadsOf(instr) : r.how \in {"copy", "move"} /\ r.place = Whole(s)
  BY DEF Copied, Handed, WholeBorrow
<1>2. /\ instr.kind \in {"assign", "call"} /\ instr.dest = Whole(l) /\ s \in Local
      /\ instr = InstrAt(body, at) /\ at \in Points(body)
  BY DEF Copied, Steps, Running
<1>3. Whole(l).local = l /\ Whole(s).local = s /\ Whole(s).proj = <<>> /\ \A m : Whole(m).local = m
  BY DEF Whole
<1> DEFINE access == operand_access(r)
<1>4. access \in accesses_at(instr)
  BY <1>1, <1>2, <1>3 DEF accesses_at, DefinesPlaceTemp
<1>5. access.place = Whole(Root(s)) /\ ~access.shallow
  <2>1. access.place = resolve(Whole(s)) /\ ~access.shallow
    BY <1>1 DEF operand_access, Access
  <2> QED  BY <1>2, <2>1, WholeIs
<1>6. access.kind = "move"
  BY <1>1, <1>3 DEF operand_access, Access, Exclusive
<1>7. Root(s) \in live_after(at) => Whole(l) = Whole(Root(s))
  BY <1>1, <1>2, <1>3, LoweredIs
<1>8. Root(s) \in live_after(at) => l = Root(s)
  BY <1>3, <1>7
<1> HIDE DEF access
<1> QED  BY <1>4, <1>5, <1>6, <1>8

\* The same, of any pointer of the old ones.
LEMMA OldOnes ==
  ASSUME NEW instr, Checked, Running, Steps(instr), NEW i \in DOMAIN minted
  PROVE  /\ i \in DOMAIN minted' /\ Ancestors(i)' = Ancestors(i) /\ Ancestors(i) \subseteq DOMAIN minted
         /\ \A c \in Ancestors(i) :
              /\ c \in DOMAIN minted'
              /\ minted'[c].addr = minted[c].addr /\ minted'[c].mutable = minted[c].mutable
              /\ minted'[c].above = minted[c].above
              /\ Ancestors(c)' = Ancestors(c)
         /\ ~minted'[i].stale => ~minted[i].stale
         /\ Len(minted) + 1 \notin Ancestors(i)
         /\ i \in Ancestors(i)
<1>1. /\ Len(minted) \in Nat /\ DOMAIN minted = 1..Len(minted)
      /\ \A j \in DOMAIN minted :
           /\ j \in DOMAIN minted'
           /\ minted'[j].addr = minted[j].addr /\ minted'[j].mutable = minted[j].mutable
           /\ minted'[j].above = minted[j].above
           /\ minted'[j].stale = (minted[j].stale \/ \E t \in Touches(instr) : Invalidates(t, j))
      /\ \A j \in 0..Len(minted) : Ancestors(j)' = Ancestors(j)
  BY OldPointers
<1>2. Ancestors(i) = {i} \cup minted[i].above /\ Ancestors(i) \subseteq DOMAIN minted
  BY PointerIs DEF Running
<1>3. \A j \in DOMAIN minted : Ancestors(j)' = Ancestors(j)
  BY <1>1
<1>4. Len(minted) + 1 \notin DOMAIN minted
  BY <1>1
<1> QED  BY <1>1, <1>2, <1>3, <1>4

LEMMA StepPointers ==
  ASSUME NEW instr, Checked, Running, Steps(instr)
  PROVE  Pointers'
<1>1. body' = body /\ minted' \in Seq(Ptr) /\ Pointers
  BY OldPointers, StepStays DEF Running
<1>2. ASSUME NEW i \in DOMAIN minted
      PROVE  (Tree(i) /\ Grounded(i) /\ \A v \in Ancestors(i) : Within(i, v))'
  <2>1. Tree(i) /\ Grounded(i) /\ \A v \in Ancestors(i) : Within(i, v)
    BY <1>1 DEF Pointers
  <2>2. Tree(i)'
    <3>1. /\ minted'[i].above = minted[i].above /\ Ancestors(i)' = Ancestors(i)
          /\ \A c \in Ancestors(i) : minted'[c].above = minted[c].above /\ Ancestors(c)' = Ancestors(c)
      BY OldOnes
    <3>2. minted[i].above \subseteq Ancestors(i)
      BY <1>1, PointerIs
    <3> QED  BY <2>1, <3>1, <3>2 DEF Tree
  <2>3. Grounded(i)'
    BY <1>1, <2>1, OldOnes DEF Grounded
  <2>4. (\A v \in Ancestors(i) : Within(i, v))'
    <3>1. ASSUME NEW v \in Ancestors(i) PROVE Within(i, v)'
      BY <2>1, <3>1, OldOnes DEF Within
    <3> QED  BY <3>1, OldOnes
  <2> QED  BY <2>2, <2>3, <2>4
<1>3. ASSUME NEW n, n = Len(minted) + 1, Borrows(instr)
      PROVE  (Tree(n) /\ Grounded(n) /\ \A v \in Ancestors(n) : Within(n, v))'
  <2>1. PICK r : r = instr.reads[1]
    OBVIOUS
  <2>2. PICK w : w = conc[r.place.local]
    OBVIOUS
  <2>3. /\ Plain(r.place) /\ n \in DOMAIN minted' /\ n \notin DOMAIN minted
        /\ minted'[n].mutable <=> r.how = "mut"
        /\ Ancestors(n)' = {n} \cup minted'[n].above
    BY <1>3, <2>1, <2>2, NewPointer
  <2>4. /\ minted'[n].addr.proj \in Seq(Elem \cup Local) /\ minted'[n].mutable \in BOOLEAN
        /\ Len(minted'[n].addr.proj) \in Nat
    <3>1. minted'[n] \in Ptr
      BY <1>1, <2>3
    <3>2. minted'[n].addr.proj \in Seq(Elem \cup Local) /\ minted'[n].mutable \in BOOLEAN
      BY <3>1 DEF Ptr
    <3> QED  BY <3>2
  <2>5. Within(n, n)'
    BY <2>4 DEF Within, paths_overlap
  <2>6. CASE ~Derefs(r.place)
    <3>1. minted'[n].addr = r.place /\ minted'[n].above = {} /\ ~body.data[r.place.local].borrow
      BY <1>3, <2>1, <2>2, <2>6, NewPointer DEF NewOwn
    <3>2. Tree(n)'
      BY <2>3, <3>1 DEF Tree
    <3>3. Grounded(n)'
      <4>1. DOMAIN r.place.proj = 1..Len(r.place.proj) /\ Len(r.place.proj) \in Nat
        BY <2>3 DEF Plain
      <4>2. \A k \in DOMAIN r.place.proj : k > 1 => r.place.proj[k] # "*"
        BY <2>3, Zenon DEF Plain
      <4>3. r.place.proj # <<>> => r.place.proj[1] # "*"
        BY <2>6 DEF Derefs
      <4>4. \A k \in DOMAIN r.place.proj : r.place.proj[k] # "*"
        BY <4>1, <4>2, <4>3
      <4> QED  BY <1>1, <3>1, <4>4 DEF Grounded
    <3> QED  BY <2>3, <2>5, <3>1, <3>2, <3>3
  <2>7. CASE Derefs(r.place)
    <3>10. NewThrough(r, n, w)
      BY <1>3, <2>1, <2>2, <2>7, NewPointer
    <3>1. /\ w \in DOMAIN minted /\ minted'[n].above = Ancestors(w)
          /\ minted'[n].addr.local = minted[w].addr.local
          /\ r.how = "mut" => minted[w].mutable
      BY <3>10 DEF NewThrough
    <3>2. Tree(w) /\ Grounded(w) /\ \A v \in Ancestors(w) : Within(w, v)
      BY <1>1, <3>1 DEF Pointers
    <3>3. Tail(r.place.proj) \in Seq(Elem)
      BY <2>3, <2>7 DEF Plain, Derefs
    <3>4. Tail(r.place.proj) \in Seq(Elem \cup Local) /\ minted[w].addr.proj \in Seq(Elem \cup Local)
      BY <1>1, <3>1, <3>3, PointerIs
    <3>9. minted'[n].addr.proj = minted[w].addr.proj \o Tail(r.place.proj)
      BY <3>10 DEF NewThrough
    <3>5. /\ Len(minted[w].addr.proj) <= Len(minted'[n].addr.proj)
          /\ paths_overlap(minted[w].addr.proj, minted'[n].addr.proj)
          /\ Len(minted[w].addr.proj) \in Nat
      <4>1. PICK a, b, c : a = minted[w].addr.proj /\ b = Tail(r.place.proj) /\ c = minted'[n].addr.proj
        OBVIOUS
      <4>4. PICK S : S = Elem \cup Local
        OBVIOUS
      <4>2. a \in Seq(S) /\ b \in Seq(S) /\ c = a \o b
        BY <3>4, <3>9, <4>1, <4>4
      <4>3. Len(a) <= Len(c)
        BY <4>2, Longer
      <4>5. paths_overlap(a, c)
        BY <4>2, Longer
      <4>6. Len(a) \in Nat
        BY <4>2
      <4> QED  BY <4>1, <4>3, <4>5, <4>6
    <3>6. Tree(n)'
      <4>1. /\ Ancestors(w) \subseteq 1..w /\ w \in 1..Len(minted) /\ Len(minted) \in Nat
            /\ Ancestors(w) = {w} \cup minted[w].above
        BY <1>1, <3>1, PointerIs
      <4>2. minted'[n].above \subseteq 1..(n - 1)
        BY <1>3, <3>1, <4>1
      <4>3. \E c \in Ancestors(n)' : minted'[c].above = {}
        BY <2>3, <3>1, <3>2, OldOnes DEF Tree
      <4>4. ASSUME NEW v \in Ancestors(w) PROVE \E c \in Ancestors(n)' : minted'[c].above = Ancestors(v)'
        <5>1. Ancestors(v)' = Ancestors(v)
          BY <3>1, OldOnes
        <5>2. CASE v = w
          BY <2>3, <3>1, <5>1, <5>2
        <5>3. CASE v # w
          <6>1. PICK c \in Ancestors(w) : minted[c].above = Ancestors(v)
            BY <3>2, <4>1, <5>3 DEF Tree
          <6>2. minted'[c].above = Ancestors(v)
            BY <3>1, <6>1, OldOnes
          <6> QED  BY <2>3, <3>1, <5>1, <6>2
        <5> QED  BY <5>2, <5>3
      <4> QED  BY <3>1, <4>2, <4>3, <4>4 DEF Tree
    <3>7. Grounded(n)'
      <4> SUFFICES ASSUME minted'[n].addr.local # NoLocal
                   PROVE  /\ ~body.data[minted'[n].addr.local].borrow
                          /\ \A k \in DOMAIN minted'[n].addr.proj : minted'[n].addr.proj[k] # "*"
        BY <1>1 DEF Grounded
      <4> DEFINE a == minted[w].addr.proj
                 b == Tail(r.place.proj)
                 u == a \o b
      <4>1. /\ ~body.data[minted[w].addr.local].borrow
            /\ \A k \in DOMAIN a : a[k] # "*"
        BY <3>1, <3>2 DEF Grounded
      <4>2. \A k \in DOMAIN b : b[k] # "*"
        <5>1. r.place.proj \in Seq(Elem) /\ r.place.proj # <<>>
          BY <2>3, <2>7 DEF Plain, Derefs
        <5>2. \A k \in DOMAIN r.place.proj : k > 1 => r.place.proj[k] # "*"
          BY <2>3, Zenon DEF Plain
        <5> SUFFICES ASSUME NEW k \in DOMAIN b PROVE b[k] # "*"
          OBVIOUS
        <5>3. b[k] = r.place.proj[k + 1] /\ k + 1 \in DOMAIN r.place.proj /\ k + 1 > 1
          BY <5>1
        <5> QED  BY <5>2, <5>3
      <4>3. a \in Seq(Elem \cup Local) /\ b \in Seq(Elem \cup Local) /\ minted'[n].addr.proj = u
        BY <3>4, <3>9
      <4> HIDE DEF a, b
      <4>4. \A k \in DOMAIN u : u[k] # "*"
        BY <4>1, <4>2, <4>3
      <4>5. minted'[n].addr.local = minted[w].addr.local
        BY <3>1
      <4> HIDE DEF u
      <4> QED  BY <4>1, <4>3, <4>4, <4>5
    <3>8. ASSUME NEW v \in Ancestors(w) PROVE Within(n, v)'
      <4>1. Within(w, v) /\ v \in DOMAIN minted
        BY <3>1, <3>2, OldOnes
      <4>2. minted'[v].addr = minted[v].addr /\ minted'[v].mutable = minted[v].mutable
        BY <3>1, OldOnes
      <4>3. minted'[n].mutable => minted[v].mutable
        BY <2>3, <3>1, <4>1 DEF Within
      <4>4. Len(minted[v].addr.proj) \in Nat
        BY <1>1, <4>1, PointerIs
      <4>5. paths_overlap(minted[v].addr.proj, minted'[n].addr.proj)
        BY <2>4, <3>5, <4>1, <4>4, OuterMeets DEF Within
      <4>6. Len(minted[v].addr.proj) <= Len(minted'[n].addr.proj)
        <5>1. Len(minted[v].addr.proj) <= Len(minted[w].addr.proj)
          BY <4>1 DEF Within
        <5>2. PICK i, j, k :
                /\ i = Len(minted[v].addr.proj) /\ j = Len(minted[w].addr.proj)
                /\ k = Len(minted'[n].addr.proj)
          OBVIOUS
        <5>3. i \in Nat /\ j \in Nat /\ k \in Nat /\ i <= j /\ j <= k
          BY <2>4, <3>5, <4>4, <5>1, <5>2
        <5>4. i <= k
          BY <5>3
        <5> QED  BY <5>2, <5>4
      <4>7. minted[v].addr.local = minted'[n].addr.local
        BY <3>1, <4>1 DEF Within
      <4> QED  BY <4>2, <4>3, <4>5, <4>6, <4>7 DEF Within, paths_overlap
    <3> QED  BY <2>3, <2>5, <3>1, <3>6, <3>7, <3>8
  <2> QED  BY <2>6, <2>7
<1>4. ASSUME NEW i, i \in DOMAIN minted' PROVE i \in DOMAIN minted \/ (i = Len(minted) + 1 /\ Borrows(instr))
  <2>1. /\ Len(minted) \in Nat /\ DOMAIN minted = 1..Len(minted)
        /\ DOMAIN minted' = 1..(Len(minted) + (IF Borrows(instr) THEN 1 ELSE 0))
    BY OldPointers
  <2>2. CASE Borrows(instr)
    BY <1>4, <2>1, <2>2
  <2>3. CASE ~Borrows(instr)
    BY <1>4, <2>1, <2>3
  <2> QED  BY <2>2, <2>3
<1>5. ASSUME NEW i, i \in DOMAIN minted'
      PROVE  (Tree(i) /\ Grounded(i) /\ \A v \in Ancestors(i) : Within(i, v))'
  BY <1>2, <1>3, <1>4, <1>5
<1> QED  BY <1>1, <1>5 DEF Pointers

LEMMA StepHeld ==
  ASSUME NEW instr, Checked, Running, Steps(instr)
  PROVE  Held'
<1>1. /\ body' = body /\ body \in Bodies /\ at \in Points(body) /\ instr = InstrAt(body, at)
      /\ Held /\ Len(minted) \in Nat
  BY OldPointers, StepStays DEF Running, Steps
<1>2. instr.dest \in Place \cup {Nowhere}
  BY <1>1, InstrIs
<1>3. ASSUME NEW l \in Local, instr.dest # Nowhere, instr.dest.proj = <<>>, instr.dest.local = l
      PROVE  /\ conc'[l] \in Nat
             /\ conc'[l] # 0 => /\ conc'[l] \in DOMAIN minted' /\ body.data[l].borrow
                                /\ minted'[conc'[l]].mutable <=> ~body.data[l].copyable
  <2>1. conc'[l] \in Received(instr)
    BY <1>1, <1>3 DEF Steps, Held
  <2>2. CASE instr.kind \notin {"assign", "call"} \/ ~body.data[instr.dest.local].borrow
    BY <2>1, <2>2 DEF Received
  <2>3. CASE instr.kind \in {"assign", "call"} /\ body.data[instr.dest.local].borrow /\ Borrows(instr)
    <3>1. PICK n, r, v : n = Len(minted) + 1 /\ r = instr.reads[1] /\ v = conc[r.place.local]
      OBVIOUS
    <3>2. conc'[l] = n /\ n \in Nat
      BY <1>1, <2>1, <2>3, <3>1 DEF Received
    <3>3. n \in DOMAIN minted' /\ (minted'[n].mutable <=> r.how = "mut") /\ (r.how = "mut" <=> Exclusive(l))
      BY <1>3, <2>3, <3>1, NewPointer
    <3> QED  BY <1>3, <2>3, <3>2, <3>3 DEF Exclusive
  <2>4. CASE instr.kind \in {"assign", "call"} /\ body.data[instr.dest.local].borrow /\ ~Borrows(instr)
    <3>1. PICK r \in Handed(body, instr) : conc'[l] = conc[r.place.local]
      BY <2>1, <2>4 DEF Received
    <3>2. PICK s : s = r.place.local
      OBVIOUS
    <3>3. s \in Local /\ body.data[s].borrow /\ (body.data[s].copyable <=> body.data[l].copyable)
      BY <1>1, <1>3, <3>2, HandedIs
    <3>4. /\ conc[s] \in Nat
          /\ conc[s] # 0 => conc[s] \in DOMAIN minted /\ (minted[conc[s]].mutable <=> ~body.data[s].copyable)
      BY <1>1, <3>3 DEF Held
    <3>5. conc[s] # 0 => conc[s] \in DOMAIN minted' /\ minted'[conc[s]].mutable = minted[conc[s]].mutable
      BY <3>4, OldPointers
    <3> QED  BY <1>3, <2>4, <3>1, <3>2, <3>3, <3>4, <3>5
  <2> QED  BY <2>2, <2>3, <2>4
<1>4. ASSUME NEW l \in Local, ~(instr.dest # Nowhere /\ instr.dest.proj = <<>> /\ instr.dest.local = l)
      PROVE  /\ conc'[l] = conc[l]
             /\ conc'[l] # 0 => /\ conc'[l] \in DOMAIN minted' /\ body.data[l].borrow
                                /\ minted'[conc'[l]].mutable <=> ~body.data[l].copyable
  <2>1. conc'[l] = conc[l]
    BY <1>1, <1>4 DEF Steps, Held
  <2>2. conc[l] # 0 => /\ conc[l] \in DOMAIN minted /\ body.data[l].borrow
                       /\ minted[conc[l]].mutable <=> ~body.data[l].copyable
    BY <1>1 DEF Held
  <2>3. conc[l] # 0 => conc[l] \in DOMAIN minted' /\ minted'[conc[l]].mutable = minted[conc[l]].mutable
    BY <2>2, OldPointers
  <2> QED  BY <2>1, <2>2, <2>3
<1>5. conc' \in [Local -> Nat]
  <2>1. conc \in [Local -> Nat]
    BY <1>1 DEF Held
  <2>2. conc' = conc \/ \E i : conc' = [conc EXCEPT ![instr.dest.local] = i]
    BY DEF Steps
  <2>3. \A l \in Local : conc'[l] \in Nat
    BY <1>3, <1>4, <2>1
  <2> QED  BY <2>1, <2>2, <2>3
<1>6. ASSUME NEW l \in Local, Holds(l)' PROVE conc'[l] # 0
  <2>1. CASE Unchanged(l, instr)
    BY <1>1, <2>1 DEF Unchanged, Held
  <2>2. CASE Borrowed(l, instr)
    BY <1>1, <2>2 DEF Borrowed
  <2>3. ASSUME NEW s, Copied(l, instr, s) PROVE conc'[l] # 0
    BY <1>1, <2>3 DEF Copied, Held
  <2> QED  BY <1>6, <2>1, <2>2, <2>3, HoldersAre
<1> QED  BY <1>1, <1>3, <1>4, <1>5, <1>6 DEF Held

LEMMA StepApart ==
  ASSUME NEW instr, Checked, Running, Steps(instr)
  PROVE  Apart'
<1>1. /\ Len(minted) \in Nat /\ DOMAIN minted = 1..Len(minted)
      /\ DOMAIN minted' = 1..(Len(minted) + (IF Borrows(instr) THEN 1 ELSE 0))
      /\ minted' \in Seq(Ptr) /\ Apart
      /\ \A i \in DOMAIN minted :
           /\ minted'[i].addr = minted[i].addr /\ minted'[i].mutable = minted[i].mutable
           /\ minted'[i].stale = (minted[i].stale \/ \E t \in Touches(instr) : Invalidates(t, i))
  BY OldPointers DEF Running
<1>2. PICK n : n = Len(minted) + 1
  OBVIOUS
<1>3. ASSUME NEW i, i \in DOMAIN minted' PROVE i \in DOMAIN minted \/ (i = n /\ Borrows(instr))
  <2>1. CASE Borrows(instr)
    BY <1>1, <1>2, <1>3, <2>1
  <2>2. CASE ~Borrows(instr)
    BY <1>1, <1>3, <2>2
  <2> QED  BY <2>1, <2>2
<1>4. ASSUME NEW i \in DOMAIN minted, NEW j \in DOMAIN minted,
             ~minted'[i].stale, ~minted'[j].stale,
             i \notin Ancestors(j)', j \notin Ancestors(i)', Overlap(minted'[i].addr, minted'[j].addr)
      PROVE  ~minted'[i].mutable /\ ~minted'[j].mutable
  <2>1. i \notin Ancestors(j) /\ j \notin Ancestors(i)
    BY <1>4, OldOnes
  <2>2. ~minted[i].stale /\ ~minted[j].stale
    BY <1>1, <1>4
  <2> QED  BY <1>1, <1>4, <2>1, <2>2 DEF Apart
<1>5. ASSUME Borrows(instr), NEW j \in DOMAIN minted, ~minted'[j].stale, j \notin Ancestors(n)',
             Overlap(minted'[n].addr, minted'[j].addr)
      PROVE  ~minted'[n].mutable /\ ~minted'[j].mutable
  <2>1. PICK r, v : r = instr.reads[1] /\ v = conc[r.place.local]
    OBVIOUS
  <2>2. /\ r \in ReadsOf(instr) /\ r.how \in {"shared", "mut"} /\ (minted'[n].mutable <=> r.how = "mut")
        /\ minted'[n].addr = Address(r.place) /\ minted'[n].above = Ancestors(Via(r.place))
        /\ Ancestors(n)' = {n} \cup minted'[n].above
    BY <1>2, <1>5, <2>1, NewPointer
  <2>3. ~DefinesPlaceTemp(instr)
    <3>1. r.how # "copy"
      BY <2>2
    <3> QED  BY <2>1, <3>1 DEF DefinesPlaceTemp, Copies
  <2>4. PICK t : t = Touch(r.place, Takes(r))
    OBVIOUS
  <2>5. t \in Touches(instr)
    BY <2>2, <2>3, <2>4 DEF Touches
  <2>6. ~Invalidates(t, j)
    BY <1>1, <1>5, <2>5
  <2>7. t.addr = Address(r.place) /\ t.via = Via(r.place) /\ (t.write <=> Takes(r))
    BY <2>4 DEF Touch, Takes
  <2>8. j \notin Ancestors(t.via)
    BY <1>5, <2>2, <2>7
  <2>9. Overlap(t.addr, minted[j].addr)
    BY <1>1, <1>5, <2>2, <2>7
  <2>10. ~t.write /\ ~minted[j].mutable
    BY <2>6, <2>8, <2>9 DEF Invalidates
  <2> QED  BY <1>1, <2>2, <2>7, <2>10 DEF Takes
<1>6. ASSUME NEW i, NEW j, i \in DOMAIN minted', j \in DOMAIN minted', Overlap(minted'[i].addr, minted'[j].addr)
      PROVE  Overlap(minted'[j].addr, minted'[i].addr)
  <2>1. minted'[i] \in Ptr /\ minted'[j] \in Ptr
    BY <1>1, <1>6
  <2>2. Len(minted'[i].addr.proj) \in Nat /\ Len(minted'[j].addr.proj) \in Nat
    BY <2>1 DEF Ptr
  <2> QED  BY <1>6, <2>2, OverlapTurns DEF Overlap
<1>7. n \in Ancestors(n)'
  BY <1>1, <1>2 DEF Ancestors
<1>8. ASSUME NEW i, NEW j, i \in DOMAIN minted', j \in DOMAIN minted',
             ~minted'[i].stale, ~minted'[j].stale,
             i \notin Ancestors(j)', j \notin Ancestors(i)', Overlap(minted'[i].addr, minted'[j].addr)
      PROVE  ~minted'[i].mutable /\ ~minted'[j].mutable
  <2>1. CASE i \in DOMAIN minted /\ j \in DOMAIN minted
    BY <1>4, <1>8, <2>1
  <2>2. CASE i \notin DOMAIN minted /\ j \in DOMAIN minted
    BY <1>3, <1>5, <1>8, <2>2
  <2>3. CASE i \in DOMAIN minted /\ j \notin DOMAIN minted
    BY <1>3, <1>5, <1>6, <1>8, <2>3
  <2>4. CASE i \notin DOMAIN minted /\ j \notin DOMAIN minted
    BY <1>3, <1>7, <1>8, <2>4
  <2> QED  BY <2>1, <2>2, <2>3, <2>4
<1> QED  BY <1>8 DEF Apart, Overlap, paths_overlap

LEMMA StepFresh ==
  ASSUME NEW instr, Checked, Running, Steps(instr)
  PROVE  Fresh'
<1> SUFFICES ASSUME NEW l \in Local, Holds(l)' PROVE ~minted'[conc'[l]].stale
  BY DEF Fresh
<1>1. instr = InstrAt(body, at) /\ instr.kind \notin {"trap", "return"} /\ at \notin traps
  BY DEF Steps
<1>2. ASSUME NEW s \in Local, Holds(s) PROVE ~minted'[conc[s]].stale
  <2>1. \A t \in Touches(instr) : ~Invalidates(t, conc[s])
    BY <1>1, <1>2, Untouched
  <2>2. conc[s] \in DOMAIN minted /\ ~minted[conc[s]].stale
    BY <1>2 DEF Running, Held, Fresh
  <2> QED  BY <2>1, <2>2, OldPointers
<1>3. CASE Unchanged(l, instr)
  BY <1>2, <1>3 DEF Unchanged
<1>4. CASE Borrowed(l, instr)
  <2>1. PICK n, r, v : n = Len(minted) + 1 /\ r = instr.reads[1] /\ v = conc[r.place.local]
    OBVIOUS
  <2>2. ~minted'[n].stale
    BY <1>4, <2>1, NewPointer DEF Borrowed
  <2> QED  BY <1>4, <2>1, <2>2 DEF Borrowed
<1>5. ASSUME NEW s, Copied(l, instr, s) PROVE ~minted'[conc'[l]].stale
  BY <1>2, <1>5 DEF Copied
<1> QED  BY <1>3, <1>4, <1>5, HoldersAre

\* A live place temp's root is not replaced.
LEMMA RootStays ==
  ASSUME NEW instr, Checked, Running, Steps(instr), NEW l \in Local, Holds(l)', is_place_temp(l)
  PROVE  instr.dest # Whole(Root(l))
<1> SUFFICES ASSUME instr.dest = Whole(Root(l)) PROVE FALSE
  OBVIOUS
<1>1. /\ instr = InstrAt(body, at) /\ at \in Points(body) /\ at \notin traps /\ body \in Bodies
      /\ l \in live_after(at) /\ body.data[l].borrow
  BY StepStays DEF Steps
<1>2. Root(l) \in Local /\ body.data[Root(l)].borrow
  BY <1>1, WholeIs
<1>3. Whole(Root(l)) # Nowhere /\ Whole(Root(l)).local = Root(l) /\ Whole(Root(l)).proj = <<>>
  BY <1>2, LocalAssumption DEF Whole, Nowhere
<1>4. instr.kind \in {"assign", "call"}
  <2>1. instr.kind # "dead"
    BY <1>1, <1>3, LoweredIs
  <2>2. instr.kind # "trap" /\ instr.kind \in {"assign", "call", "trap", "dead"}
    BY <1>1, <1>3, TypedIs DEF Steps
  <2> QED  BY <2>1, <2>2
<1>5. PICK access : access = Access("write", instr.dest, TRUE)
  OBVIOUS
<1>6. access \in accesses_at(instr)
  <2>1. access \in LastAccesses(instr)
    BY <1>3, <1>4, <1>5 DEF LastAccesses
  <2> QED  BY <2>1 DEF accesses_at
<1>7. access.kind = "write" /\ access.shallow /\ access.place = Whole(Root(l))
  BY <1>5 DEF Access
<1> QED  BY <1>1, <1>6, <1>7, Pinned

\* What defines a place temp copies a place with its root.
LEMMA TempCopies ==
  ASSUME NEW instr, Checked, Running, Steps(instr), NEW l \in Local, is_place_temp(l), instr.dest = Whole(l),
         instr.kind \in {"assign", "call"}
  PROVE  ~Borrows(instr) /\ \A s : Copied(l, instr, s) => Root(s) = Root(l)
<1>1. instr = InstrAt(body, at) /\ at \in Points(body) /\ body \in Bodies /\ aliases = compute_aliases(body)
  BY StepStays DEF Steps, Checked
<1>2. at \in defs_of(body, l)
  BY <1>1 DEF defs_of, IsDef
<1>3. aliases[l] # Nowhere
  BY DEF is_place_temp
<1>4. /\ Copies(instr)
      /\ Root(instr.reads[1].place.local) = Root(l)
  BY <1>1, <1>2, <1>3, AliasIs
<1>5. ReadsOf(instr) = {instr.reads[1]} /\ instr.reads[1].how = "copy"
  <2>1. instr.reads \in Seq(Read) /\ Len(instr.reads) = 1 /\ instr.reads[1].how = "copy"
    BY <1>1, <1>4, InstrIs DEF Instr, Copies
  <2>2. DOMAIN instr.reads = {1}
    BY <2>1
  <2> QED  BY <2>1, <2>2 DEF ReadsOf
<1>6. ~Borrows(instr)
  BY <1>5 DEF Borrows
<1>7. ASSUME NEW s, Copied(l, instr, s) PROVE Root(s) = Root(l)
  <2>1. instr.reads[1].place = Whole(s)
    BY <1>5, <1>7 DEF Copied, Handed
  <2> QED  BY <1>4, <2>1 DEF Whole
<1> QED  BY <1>6, <1>7

LEMMA StepExact ==
  ASSUME NEW instr, Checked, Running, Steps(instr)
  PROVE  Exact'
<1>1. /\ Exact /\ conc \in [Local -> Nat] /\ instr = InstrAt(body, at) /\ at \in Points(body) /\ body \in Bodies
      /\ \A l : Root(l)' = Root(l) /\ (is_place_temp(l)' <=> is_place_temp(l))
  BY StepStays DEF Running, Held, Steps
<1> SUFFICES ASSUME NEW l \in Local, Holds(l)', is_place_temp(l) PROVE conc'[l] = conc'[Root(l)]
  BY <1>1 DEF Exact
<1>2. Root(l) \in Local /\ l # Root(l)
  BY WholeIs
<1>3. conc'[Root(l)] = conc[Root(l)]
  <2>1. instr.dest # Whole(Root(l))
    BY RootStays
  <2>2. instr.dest \in Place \cup {Nowhere}
    BY <1>1, InstrIs
  <2>3. ~(instr.dest # Nowhere /\ instr.dest.proj = <<>> /\ instr.dest.local = Root(l))
    BY <2>1, <2>2 DEF Place, Whole
  <2> QED  BY <1>1, <1>2, <2>3 DEF Steps
<1>4. CASE Unchanged(l, instr)
  BY <1>1, <1>3, <1>4 DEF Unchanged, Exact
<1>5. CASE Borrowed(l, instr)
  BY <1>5, TempCopies DEF Borrowed
<1>6. ASSUME NEW s, Copied(l, instr, s) PROVE conc'[l] = conc'[Root(l)]
  <2>1. Root(s) = Root(l)
    BY <1>6, TempCopies DEF Copied
  <2>2. conc[s] = conc[Root(s)]
    <3>1. CASE is_place_temp(s)
      BY <1>1, <1>6, <3>1 DEF Exact, Copied
    <3>2. CASE ~is_place_temp(s)
      BY <1>6, <3>2, WholeIs DEF Copied
    <3> QED  BY <3>1, <3>2
  <2> QED  BY <1>3, <1>6, <2>1, <2>2 DEF Copied
<1> QED  BY <1>4, <1>5, <1>6, HoldersAre

LEMMA StepUnique ==
  ASSUME NEW instr, Checked, Running, Steps(instr)
  PROVE  Unique'
<1>1. /\ Unique /\ Held /\ instr = InstrAt(body, at) /\ at \in Points(body) /\ at \notin traps
      /\ Len(minted) \in Nat /\ DOMAIN minted = 1..Len(minted)
      /\ \A l : Root(l)' = Root(l)
      /\ \A i \in DOMAIN minted : minted'[i].mutable = minted[i].mutable
  BY StepStays, OldPointers DEF Running, Steps
<1>2. \A l, m : Whole(l) = Whole(m) => l = m
  BY DEF Whole
\* One keeps what it holds, the other does or copies it.
<1>3. ASSUME NEW l \in Local, NEW m \in Local, Holds(l)', Holds(m)', conc'[l] = conc'[m],
             minted'[conc'[l]].mutable, Unchanged(m, instr)
      PROVE  Root(l) = Root(m)
  <2>1. conc'[m] = conc[m] /\ Holds(m) /\ conc[m] \in DOMAIN minted
    BY <1>1, <1>3 DEF Unchanged, Held
  <2>2. minted[conc[m]].mutable
    BY <1>1, <1>3, <2>1
  <2>3. CASE Unchanged(l, instr)
    BY <1>1, <1>3, <2>1, <2>2, <2>3 DEF Unchanged, Unique
  <2>4. CASE Borrowed(l, instr)
    BY <1>1, <1>3, <2>1, <2>4 DEF Borrowed
  <2>5. ASSUME NEW s, Copied(l, instr, s) PROVE Root(l) = Root(m)
    <3>1. s \in Local /\ Holds(s) /\ conc[s] = conc[m]
      BY <1>3, <2>1, <2>5 DEF Copied
    <3>2. Root(s) = Root(m)
      BY <1>1, <2>1, <2>2, <3>1 DEF Unique
    <3>3. CASE is_place_temp(l)
      BY <2>5, <3>2, <3>3, TempCopies DEF Copied
    <3>4. CASE ~is_place_temp(l)
      <4>1. Root(l) = l
        BY <3>4, WholeIs
      <4>2. Exclusive(s)
        BY <1>1, <2>2, <3>1 DEF Exclusive, Held
      <4>3. m \in live_after(at)
        BY <1>3, StepStays
      <4>4. PICK access \in accesses_at(instr) : access.kind = "move" /\ access.place = Whole(Root(s))
        BY <2>5, <3>4, <4>2, MovesIt
      <4>5. ~is_place_temp(m)
        BY <1>1, <3>2, <4>3, <4>4, Pinned
      <4>6. Root(m) = m
        BY <4>5, WholeIs
      <4>7. Root(s) \in live_after(at) => l = Root(s)
        BY <2>5, <3>4, <4>2, MovesIt
      <4> QED  BY <3>2, <4>1, <4>3, <4>6, <4>7
    <3> QED  BY <3>3, <3>4
  <2> QED  BY <1>3, <2>3, <2>4, <2>5, HoldersAre
<1>4. ASSUME NEW l \in Local, NEW m \in Local, Holds(l)', Holds(m)', conc'[l] = conc'[m],
             minted'[conc'[l]].mutable
      PROVE  Root(l) = Root(m)
  <2>1. CASE Unchanged(m, instr)
    BY <1>3, <1>4, <2>1
  <2>2. CASE Unchanged(l, instr)
    BY <1>3, <1>4, <2>2
  <2>3. CASE ~Unchanged(l, instr) /\ ~Unchanged(m, instr)
    <3>1. instr.dest = Whole(l) /\ instr.dest = Whole(m)
      BY <1>4, <2>3, HoldersAre DEF Borrowed, Copied
    <3> QED  BY <1>2, <3>1
  <2> QED  BY <2>1, <2>2, <2>3
<1> QED  BY <1>1, <1>4 DEF Unique

\* What a live local's pointer was borrowed from before the step was so for
\* a live local that the same loans are kept for.
LEMMA Sources ==
  ASSUME NEW instr, Checked, Running, Steps(instr), NEW l \in Local, Holds(l)',
         NEW c \in DOMAIN minted, c \in Ancestors(conc[l])'
  PROVE  \E s \in Local : /\ Holds(s) /\ c \in Ancestors(conc[s])
                          /\ \A x \in loans : LiveFor(x, s, at) => LiveFor(x, l, at')
<1>1. /\ instr = InstrAt(body, at) /\ at \in Points(body) /\ at' \in NextPoints(body, at) /\ Held
      /\ Whole(l) # Nowhere
  BY LocalAssumption DEF Running, Steps, Whole, Nowhere
<1>2. PICK q : q = at'
  OBVIOUS
<1>3. PICK d : d = conc'[l]
  OBVIOUS
<1>4. PICK p, i : p = at /\ i = instr
  OBVIOUS
<1>5. c \in Ancestors(d)'
  BY <1>3 DEF Ancestors
<1>6. CASE Unchanged(l, instr)
  <2>1. Holds(l) /\ d = conc[l]
    BY <1>3, <1>6 DEF Unchanged
  <2>2. conc[l] \in DOMAIN minted
    BY <1>1, <2>1 DEF Held
  <2>3. c \in Ancestors(conc[l])
    BY <1>5, <2>1, <2>2, OldOnes
  <2>4. \A x \in loans : LiveFor(x, l, at) => LiveFor(x, l, q)
    BY <1>1, <1>2, LiveForIs
  <2> QED  BY <1>2, <2>1, <2>3, <2>4
<1>7. CASE Borrowed(l, instr)
  <2>1. PICK r, v : r = instr.reads[1] /\ v = conc[r.place.local]
    OBVIOUS
  <2>2. Borrows(instr) /\ d = Len(minted) + 1 /\ instr.kind = "assign" /\ instr.dest = Whole(l)
    BY <1>3, <1>7 DEF Borrowed
  <2>3. /\ r \in ReadsOf(instr) /\ Plain(r.place) /\ d \notin DOMAIN minted
        /\ Ancestors(d)' = {d} \cup minted'[d].above
    BY <2>1, <2>2, NewPointer
  <2>4. c \in minted'[d].above
    BY <1>5, <2>3
  <2>5. Derefs(r.place)
    <3> SUFFICES ASSUME ~Derefs(r.place) PROVE FALSE
      OBVIOUS
    <3>1. NewOwn(r, d)
      BY <2>1, <2>2, NewPointer
    <3> QED  BY <2>4, <3>1 DEF NewOwn
  <2>6. NewThrough(r, d, v)
    BY <2>1, <2>2, <2>5, NewPointer
  <2>7. Holds(r.place.local) /\ c \in Ancestors(conc[r.place.local]) /\ r.place.local \in Local
    BY <2>1, <2>3, <2>4, <2>6 DEF NewThrough, Plain
  <2>8. instr.dest.local = l /\ instr.dest.proj = <<>>
    BY <2>2 DEF Whole
  <2>9. \A x \in loans : LiveFor(x, r.place.local, at) => LiveFor(x, l, q)
    BY <1>1, <1>2, <2>2, <2>3, <2>5, <2>8, Carries
  <2> QED  BY <1>2, <2>7, <2>9
<1>8. ASSUME NEW s, Copied(l, instr, s)
      PROVE  \E t \in Local : /\ Holds(t) /\ c \in Ancestors(conc[t])
                              /\ \A x \in loans : LiveFor(x, t, at) => LiveFor(x, l, at')
  <2>1. /\ s \in Local /\ Holds(s) /\ d = conc[s] /\ instr.kind \in {"assign", "call"} /\ instr.dest = Whole(l)
        /\ ~Borrows(instr)
    BY <1>3, <1>8 DEF Copied
  <2>2. PICK r \in Handed(body, instr) : r.place = Whole(s)
    BY <1>8 DEF Copied
  <2>3. conc[s] \in DOMAIN minted
    BY <1>1, <2>1 DEF Held, Holds
  <2>4. c \in Ancestors(conc[s])
    BY <1>5, <2>1, <2>3, OldOnes
  <2>5. instr.dest.local = l /\ instr.dest.proj = <<>> /\ r.place.local = s
    BY <2>1, <2>2 DEF Whole
  <2>6. \A x \in loans : LiveFor(x, s, at) => LiveFor(x, l, q)
    BY <1>1, <1>2, <2>1, <2>2, <2>3, <2>5, Carries
  <2> QED  BY <1>2, <2>1, <2>4, <2>6
<1> QED  BY <1>6, <1>7, <1>8, HoldersAre

\* A loan kept for the source is kept on, if the point does not end it.
LEMMA KeptOn ==
  ASSUME NEW instr, Checked, Running, Steps(instr), NEW s, NEW l, NEW x \in loans, Keeps(x, s),
         Survives(x, at), LiveFor(x, s, at) => LiveFor(x, l, at')
  PROVE  Keeps(x, l)'
<1>1. PICK q : q = at'
  OBVIOUS
<1>2. at \in Points(body) /\ q \in NextPoints(body, at)
  BY <1>1 DEF Running, Steps
<1>3. x \in Scope(q)
  BY <1>2, ScopeOn DEF Keeps
<1>4. LiveFor(x, l, q) /\ x.mint \notin traps
  BY <1>1 DEF Keeps
<1>5. Scope(q)' = Scope(q) /\ (LiveFor(x, l, q)' <=> LiveFor(x, l, q)) /\ traps' = traps
  BY StepStays
<1>6. x \in Scope(q)' /\ LiveFor(x, l, q)' /\ x.mint \notin traps'
  BY <1>3, <1>4, <1>5
<1> QED  BY <1>1, <1>6 DEF Keeps

\* The loan of the new pointer is kept for the local that gets it.
LEMMA NewLoan ==
  ASSUME NEW instr, Checked, Running, Steps(instr), NEW l, Borrowed(l, instr), NEW r, r = instr.reads[1]
  PROVE  \E x \in loans : /\ Keeps(x, l)' /\ x.place = resolve(r.place)
                          /\ x.mutable <=> r.how = "mut"
<1>1. PICK q : q = at'
  OBVIOUS
<1>2. /\ at \in Points(body) /\ q \in NextPoints(body, at) /\ instr = InstrAt(body, at)
      /\ Borrows(instr) /\ instr.kind = "assign" /\ instr.dest = Whole(l) /\ at \notin traps
  BY <1>1 DEF Running, Steps, Borrowed
<1>3. PICK x \in loans : /\ x.mint = at /\ x.place = resolve(InstrAt(body, at).reads[1].place)
                         /\ x.mutable <=> InstrAt(body, at).reads[1].how = "mut"
  BY <1>2, LoanIs
<1>4. instr.dest.local = l /\ instr.dest.proj = <<>> /\ instr.dest # Nowhere
  BY <1>2, TypedIs DEF Whole, Checked
<1>5. LiveFor(x, l, q)
  BY <1>2, <1>3, <1>4, Carries
<1>6. x \in Scope(q)
  BY <1>2, <1>3, ScopeOn
<1>7. Scope(q)' = Scope(q) /\ (LiveFor(x, l, q)' <=> LiveFor(x, l, q)) /\ traps' = traps
  BY StepStays
<1>8. x \in Scope(q)' /\ LiveFor(x, l, q)' /\ x.mint \notin traps'
  BY <1>2, <1>3, <1>5, <1>6, <1>7
<1>9. Keeps(x, l)'
  BY <1>1, <1>8 DEF Keeps
<1> QED  BY <1>2, <1>3, <1>9

LEMMA StepOwnLoaned ==
  ASSUME NEW instr, Checked, Running, Steps(instr)
  PROVE  OwnLoaned'
<1> SUFFICES ASSUME NEW l \in Local, Holds(l)', NEW c, c \in Ancestors(conc[l])',
                    minted'[c].above = {}, minted'[c].addr.local # NoLocal
             PROVE  \E x \in loans' : Keeps(x, l)' /\ OfOwn(x, c)'
  BY DEF OwnLoaned
<1>1. /\ instr = InstrAt(body, at) /\ at \in Points(body) /\ at \notin traps /\ loans' = loans
      /\ Pointers /\ Held /\ Pointers' /\ Held'
  BY StepStays, StepPointers, StepHeld DEF Running, Steps
<1>2. CASE c \in DOMAIN minted
  <2>1. PICK s \in Local : /\ Holds(s) /\ c \in Ancestors(conc[s])
                           /\ \A x \in loans : LiveFor(x, s, at) => LiveFor(x, l, at')
    BY <1>2, Sources
  <2>2. /\ minted'[c].above = minted[c].above /\ minted'[c].addr = minted[c].addr
        /\ minted'[c].mutable = minted[c].mutable
    BY <1>2, OldPointers
  <2>3. PICK x \in loans : Keeps(x, s) /\ OfOwn(x, c)
    BY <2>1, <2>2 DEF Running, OwnLoaned
  <2>4. Survives(x, at)
    <3> SUFFICES ASSUME NEW access \in accesses_at(instr), access.shallow, kills(access.place, x)
                 PROVE  FALSE
      BY <1>1, <2>1, <2>3, Guarded
    <3>1. ~\E n \in DOMAIN x.place.proj : x.place.proj[n] = "*"
      BY <1>1, <1>2, <2>2, <2>3 DEF Pointers, Grounded, OfOwn
    <3>2. IsWrite(access)
      BY DEF accesses_at, LastAccesses, operand_access, Access, IsWrite
    <3>3. conflicts(access, x)
      BY <3>1, <3>2 DEF conflicts, kills
    <3> QED  BY <1>1, <2>1, <2>3, <3>3, Guarded
  <2>5. Keeps(x, l)'
    BY <2>1, <2>3, <2>4, KeptOn
  <2>6. OfOwn(x, c)'
    BY <2>2, <2>3 DEF OfOwn
  <2> QED  BY <1>1, <2>5, <2>6
<1>3. CASE c \notin DOMAIN minted
  <2>1. PICK n, r, v : n = Len(minted) + 1 /\ r = instr.reads[1] /\ v = conc[r.place.local]
    OBVIOUS
  <2>2. PICK d : d = conc'[l]
    OBVIOUS
  <2>13. c \in Ancestors(d)'
    BY <2>2 DEF Ancestors
  <2>3. ASSUME d \in DOMAIN minted PROVE FALSE
    BY <1>3, <2>3, <2>13, OldOnes
  <2>4. Borrowed(l, instr)
    <3>1. ~Unchanged(l, instr)
      BY <1>1, <2>2, <2>3 DEF Unchanged, Held
    <3>2. ASSUME NEW s, Copied(l, instr, s) PROVE FALSE
      BY <1>1, <2>2, <2>3, <3>2 DEF Copied, Held
    <3> QED  BY <3>1, <3>2, HoldersAre
  <2>5. d = n /\ Borrows(instr)
    BY <2>1, <2>2, <2>4 DEF Borrowed
  <2>6. Ancestors(n)' = {n} \cup minted'[n].above /\ Plain(r.place) /\ (minted'[n].mutable <=> r.how = "mut")
    BY <2>1, <2>5, NewPointer
  <2>7. c = n
    <3>1. CASE ~Derefs(r.place)
      <4>1. NewOwn(r, n)
        BY <2>1, <2>5, <3>1, NewPointer
      <4> QED  BY <2>5, <2>6, <2>13, <4>1 DEF NewOwn
    <3>2. CASE Derefs(r.place)
      <4>1. NewThrough(r, n, v)
        BY <2>1, <2>5, <3>2, NewPointer
      <4>2. v \in DOMAIN minted /\ minted'[n].above = Ancestors(v)
        BY <4>1 DEF NewThrough
      <4>3. Ancestors(v) \subseteq DOMAIN minted
        BY <4>2, OldOnes
      <4> QED  BY <1>3, <2>5, <2>6, <2>13, <4>2, <4>3
    <3> QED  BY <3>1, <3>2
  <2>8. ~Derefs(r.place)
    <3> SUFFICES ASSUME Derefs(r.place) PROVE FALSE
      OBVIOUS
    <3>1. NewThrough(r, n, v)
      BY <2>1, <2>5, NewPointer
    <3>2. v \in DOMAIN minted /\ minted'[n].above = Ancestors(v)
      BY <3>1 DEF NewThrough
    <3>3. v \in Ancestors(v)
      BY <3>2, OldOnes
    <3> QED  BY <2>7, <3>2, <3>3
  <2>9. NewOwn(r, n)
    BY <2>1, <2>5, <2>8, NewPointer
  <2>10. PICK x \in loans : Keeps(x, l)' /\ x.place = resolve(r.place) /\ (x.mutable <=> r.how = "mut")
    BY <2>1, <2>4, NewLoan
  <2>11. resolve(r.place) = r.place
    <3>1. PICK place : place = r.place
      OBVIOUS
    <3>2. ~body.data[place.local].borrow /\ Plain(place)
      BY <2>6, <2>9, <3>1 DEF NewOwn
    <3>3. resolve(place) = [local |-> Root(place.local), proj |-> place.proj] /\ Root(place.local) = place.local
      BY <3>2, ResolveIs DEF Plain
    <3>4. resolve(place) = place
      BY <3>2, <3>3 DEF Plain
    <3> QED  BY <3>1, <3>4
  <2>12. OfOwn(x, c)'
    BY <2>6, <2>7, <2>9, <2>10, <2>11 DEF OfOwn, NewOwn
  <2> QED  BY <1>1, <2>10, <2>12
<1> QED  BY <1>2, <1>3

\* The holder of an exclusive pointer before the step: the one after it, or
\* the local a place temp of it copies.
LEMMA HolderBefore ==
  ASSUME NEW instr, Checked, Running, Steps(instr), NEW q \in Local, Holds(q)',
         NEW v \in DOMAIN minted, v = conc'[q], minted[v].mutable
  PROVE  \E t \in Local : /\ Holds(t) /\ conc[t] = v
                          /\ \/ Root(t) = Root(q)
                             \/ \E access \in accesses_at(instr) :
                                  access.kind = "move" /\ access.place = Whole(Root(t)) /\ ~access.shallow
<1>1. Held /\ Len(minted) \in Nat /\ DOMAIN minted = 1..Len(minted)
  BY OldPointers DEF Running
<1>2. CASE Unchanged(q, instr)
  BY <1>2 DEF Unchanged
<1>3. CASE Borrowed(q, instr)
  BY <1>1, <1>3 DEF Borrowed
<1>4. ASSUME NEW s, Copied(q, instr, s)
      PROVE  \E t \in Local : /\ Holds(t) /\ conc[t] = v
                              /\ \/ Root(t) = Root(q)
                                 \/ \E access \in accesses_at(instr) :
                                      access.kind = "move" /\ access.place = Whole(Root(t)) /\ ~access.shallow
  <2>1. s \in Local /\ Holds(s) /\ conc[s] = v /\ instr.dest = Whole(q)
        /\ instr.kind \in {"assign", "call"}
    BY <1>4 DEF Copied
  <2>2. CASE is_place_temp(q)
    BY <1>4, <2>1, <2>2, TempCopies
  <2>3. CASE ~is_place_temp(q)
    <3>1. Exclusive(s)
      BY <1>1, <2>1 DEF Held, Exclusive, Holds
    <3> QED  BY <1>4, <2>1, <2>3, <3>1, MovesIt
  <2> QED  BY <2>2, <2>3
<1> QED  BY <1>2, <1>3, <1>4, HoldersAre

\* A loan through a pointer that is held on is not ended.
LEMMA ThroughSurvives ==
  ASSUME NEW instr, Checked, Running, Steps(instr), NEW s \in Local, Holds(s), NEW x \in loans, Keeps(x, s),
         NEW q \in Local, Holds(q)', ~is_place_temp(q) => instr.dest # Whole(q),
         x.place.local = Root(q), Derefs(x.place), x.place.proj \in Seq(Elem),
         \A i \in DOMAIN x.place.proj : i > 1 => x.place.proj[i] # "*"
  PROVE  Survives(x, at)
<1>1. /\ instr = InstrAt(body, at) /\ at \in Points(body) /\ at \notin traps /\ body \in Bodies
      /\ instr.kind \notin {"trap", "return"} /\ q \in live_after(at) /\ body.data[q].borrow
  BY StepStays DEF Running, Steps
<1> SUFFICES ASSUME NEW access \in accesses_at(instr), access.shallow, kills(access.place, x)
             PROVE  FALSE
  BY <1>1, Guarded
<1>2. Root(q) \in Local /\ body.data[Root(q)].borrow
  BY <1>1, WholeIs
<1>3. access \in LastAccesses(instr) /\ IsWrite(access)
  BY DEF accesses_at, LastAccesses, operand_access, Access, IsWrite
<1>4. ~conflicts(access, x)
  BY <1>1, Guarded
<1>5. access.place.local = Root(q) /\ Overlap(access.place, x.place)
  BY DEF kills, Overlap
<1>6. PICK i \in DOMAIN x.place.proj : i > Len(access.place.proj) /\ x.place.proj[i] = "*"
  BY <1>3, <1>4, <1>5 DEF conflicts
<1>7. i = 1
  <2>1. i \in Nat \ {0}
    BY <1>6
  <2>2. ~(i > 1)
    BY <1>6
  <2> QED  BY <2>1, <2>2
<1>8. 1 > Len(access.place.proj)
  BY <1>6, <1>7
<1>9. instr.dest # Nowhere => Plain(instr.dest)
  BY <1>1, PlacesArePlain
<1>10. ASSUME NEW proj \in Seq(Elem), 1 > Len(proj) PROVE proj = <<>>
  <2>1. Len(proj) = 0
    BY <1>10
  <2> QED  BY <2>1
<1>11. instr.dest = Whole(Root(q)) /\ instr.kind \in {"dead", "call", "assign"}
  <2>1. instr.kind \in {"dead", "call", "assign"}
    BY <1>1, <1>3 DEF LastAccesses
  <2>2. instr.dest = Nowhere => access.place.local = NoLocal
    <3>1. resolve(Nowhere) = Nowhere \/ ~(instr.dest.proj # <<>>)
      BY LocalAssumption DEF resolve, Nowhere
    <3> QED  BY <1>3, <2>1, <3>1 DEF LastAccesses, Access, Nowhere
  <2>3. instr.dest # Nowhere /\ Plain(instr.dest)
    BY <1>2, <1>5, <1>9, <2>2, LocalAssumption
  <2>4. CASE access.place = instr.dest
    <3>1. instr.dest.local = Root(q) /\ instr.dest.proj = <<>>
      BY <1>5, <1>8, <1>10, <2>3, <2>4 DEF Plain
    <3> QED  BY <2>1, <2>3, <3>1 DEF Plain, Whole
  <2>5. CASE access.place # instr.dest
    <3>1. instr.dest.proj # <<>> /\ access.place = resolve(instr.dest)
      BY <1>3, <2>1, <2>5 DEF LastAccesses, Access
    <3>2. PICK place : place = instr.dest
      OBVIOUS
    <3>3. resolve(place) = [local |-> Root(place.local), proj |-> place.proj]
      BY <2>3, <3>2, ResolveIs DEF Plain
    <3>4. access.place.proj = place.proj
      BY <3>1, <3>2, <3>3
    <3> QED  BY <1>8, <1>10, <2>3, <3>1, <3>2, <3>4 DEF Plain
  <2> QED  BY <2>4, <2>5
<1>12. is_place_temp(q)
  <2> SUFFICES ASSUME ~is_place_temp(q) PROVE FALSE
    OBVIOUS
  <2>1. Root(q) = q
    BY WholeIs
  <2> QED  BY <1>11, <2>1
<1> QED  BY <1>11, <1>12, RootStays

LEMMA StepThroughLoaned ==
  ASSUME NEW instr, Checked, Running, Steps(instr)
  PROVE  ThroughLoaned'
<1> SUFFICES ASSUME NEW l \in Local, NEW q \in Local, Holds(l)', Holds(q)', minted'[conc'[q]].mutable,
                    NEW c, c \in Ancestors(conc[l])', minted'[c].above = Ancestors(conc[q])'
             PROVE  \E x \in loans' : Keeps(x, l)' /\ Through(x, c, conc[q], Root(q))'
  BY DEF ThroughLoaned
<1>1. /\ instr = InstrAt(body, at) /\ at \in Points(body) /\ at \notin traps /\ loans' = loans
      /\ Pointers /\ Held /\ Pointers' /\ Held' /\ Unique /\ Root(q)' = Root(q)
      /\ Len(minted) \in Nat /\ DOMAIN minted = 1..Len(minted)
  BY StepStays, StepPointers, StepHeld, OldPointers DEF Running, Steps
<1>2. PICK d, w : d = conc'[l] /\ w = conc'[q]
  OBVIOUS
<1>3. /\ c \in Ancestors(d)' /\ minted'[c].above = Ancestors(w)' /\ minted'[w].mutable
      /\ d \in DOMAIN minted' /\ w \in DOMAIN minted' /\ d # 0 /\ w # 0
  <2>1. d \in DOMAIN minted' /\ w \in DOMAIN minted' /\ d # 0 /\ w # 0
    BY <1>1, <1>2 DEF Held
  <2> QED  BY <1>2, <2>1 DEF Ancestors
<1>4. w \in Ancestors(w)'
  BY <1>3 DEF Ancestors
<1>5. ASSUME NEW x, Through(x, c, w, Root(q))' PROVE Through(x, c, conc[q], Root(q))'
  BY <1>2, <1>5 DEF Through
<1>6. CASE c \in DOMAIN minted
  <2>1. PICK s \in Local : /\ Holds(s) /\ c \in Ancestors(conc[s])
                           /\ \A x \in loans : LiveFor(x, s, at) => LiveFor(x, l, at')
    BY <1>6, Sources
  <2>2. /\ minted'[c].above = minted[c].above /\ minted'[c].addr = minted[c].addr
        /\ minted'[c].mutable = minted[c].mutable
    BY <1>6, OldPointers
  <2>3. w \in DOMAIN minted
    <3>1. minted[c].above \subseteq Ancestors(c) /\ Ancestors(c) \subseteq DOMAIN minted
      BY <1>1, <1>6, PointerIs
    <3> QED  BY <1>3, <1>4, <2>2, <3>1
  <2>4. /\ minted[w].mutable /\ minted[c].above = Ancestors(w) /\ minted'[w].addr = minted[w].addr
    BY <1>3, <2>2, <2>3, OldOnes, OldPointers
  <2>5. PICK t \in Local : /\ Holds(t) /\ conc[t] = w
                           /\ \/ Root(t) = Root(q)
                              \/ \E access \in accesses_at(instr) :
                                   access.kind = "move" /\ access.place = Whole(Root(t)) /\ ~access.shallow
    BY <1>2, <2>3, <2>4, HolderBefore
  <2>6. PICK x \in loans : Keeps(x, s) /\ Through(x, c, w, Root(t))
    BY <2>1, <2>4, <2>5 DEF Running, ThroughLoaned
  <2>7. ASSUME NEW access \in accesses_at(instr), access.kind = "move", access.place = Whole(Root(t)),
               ~access.shallow
        PROVE  FALSE
    <3>1. Overlap(access.place, x.place)
      <4>1. x.place.local = Root(t) /\ Len(x.place.proj) \in Nat
        BY <2>6 DEF Through
      <4> QED  BY <2>7, <4>1 DEF Overlap, paths_overlap, Whole
    <3>2. conflicts(access, x)
      BY <2>7, <3>1 DEF conflicts, IsWrite
    <3> QED  BY <1>1, <2>1, <2>6, <3>2, Guarded
  <2>8. Root(t) = Root(q)
    BY <2>5, <2>7
  <2>9. ~is_place_temp(q) => instr.dest # Whole(q)
    <3> SUFFICES ASSUME ~is_place_temp(q), instr.dest = Whole(q) PROVE FALSE
      OBVIOUS
    <3>1. ~Unchanged(q, instr) /\ ~Borrowed(q, instr)
      BY <1>1, <1>2, <2>3 DEF Unchanged, Borrowed
    <3>2. PICK u : Copied(q, instr, u)
      BY <3>1, HoldersAre
    <3>3. u \in Local /\ Holds(u) /\ conc[u] = w
      BY <1>2, <3>2 DEF Copied
    <3>4. Exclusive(u)
      BY <1>1, <2>4, <3>3 DEF Exclusive, Held, Holds
    <3>5. PICK access \in accesses_at(instr) :
            access.kind = "move" /\ access.place = Whole(Root(u)) /\ ~access.shallow
      BY <3>2, <3>4, MovesIt
    <3>6. Root(u) = Root(t)
      BY <1>1, <2>4, <2>5, <3>3 DEF Unique
    <3> QED  BY <2>7, <3>5, <3>6
  <2>10. Survives(x, at)
    <3>1. /\ x.place.local = Root(q) /\ Derefs(x.place) /\ x.place.proj \in Seq(Elem)
          /\ \A i \in DOMAIN x.place.proj : i > 1 => x.place.proj[i] # "*"
      BY <2>6, <2>8, Zenon DEF Through
    <3> QED  BY <2>1, <2>6, <2>9, <3>1, ThroughSurvives
  <2>11. Keeps(x, l)'
    BY <2>1, <2>6, <2>10, KeptOn
  <2>12. Through(x, c, w, Root(q))'
    BY <1>1, <2>2, <2>4, <2>6, <2>8 DEF Through, Derefs
  <2> QED  BY <1>1, <1>5, <2>11, <2>12
<1>7. CASE c \notin DOMAIN minted
  <2>1. PICK n, r, v : n = Len(minted) + 1 /\ r = instr.reads[1] /\ v = conc[r.place.local]
    OBVIOUS
  <2>2. d \notin DOMAIN minted
    <3> SUFFICES ASSUME d \in DOMAIN minted PROVE FALSE
      OBVIOUS
    <3> QED  BY <1>3, <1>7, OldOnes
  <2>3. Borrowed(l, instr)
    <3>1. ~Unchanged(l, instr)
      BY <1>1, <1>2, <2>2 DEF Unchanged, Held
    <3>2. ASSUME NEW s, Copied(l, instr, s) PROVE FALSE
      BY <1>1, <1>2, <1>3, <2>2, <3>2 DEF Copied, Held
    <3> QED  BY <3>1, <3>2, HoldersAre
  <2>4. d = n /\ Borrows(instr)
    BY <1>2, <2>1, <2>3 DEF Borrowed
  <2>5. Ancestors(n)' = {n} \cup minted'[n].above /\ Plain(r.place) /\ (minted'[n].mutable <=> r.how = "mut")
    BY <2>1, <2>4, NewPointer
  <2>6. c = n
    <3>1. CASE ~Derefs(r.place)
      <4>1. NewOwn(r, n)
        BY <2>1, <2>4, <3>1, NewPointer
      <4> QED  BY <1>3, <2>4, <2>5, <4>1 DEF NewOwn
    <3>2. CASE Derefs(r.place)
      <4>1. NewThrough(r, n, v)
        BY <2>1, <2>4, <3>2, NewPointer
      <4>2. v \in DOMAIN minted /\ minted'[n].above = Ancestors(v)
        BY <4>1 DEF NewThrough
      <4>3. Ancestors(v) \subseteq DOMAIN minted
        BY <4>2, OldOnes
      <4> QED  BY <1>3, <1>7, <2>4, <2>5, <4>2, <4>3
    <3> QED  BY <3>1, <3>2
  <2>7. Derefs(r.place)
    <3> SUFFICES ASSUME ~Derefs(r.place) PROVE FALSE
      OBVIOUS
    <3>1. NewOwn(r, n)
      BY <2>1, <2>4, NewPointer
    <3> QED  BY <1>3, <1>4, <2>6, <3>1 DEF NewOwn
  <2>8. NewThrough(r, n, v)
    BY <2>1, <2>4, <2>7, NewPointer
  <2>9. v \in DOMAIN minted /\ minted'[n].above = Ancestors(v) /\ Holds(r.place.local)
    BY <2>8 DEF NewThrough
  <2>10. w = v
    <3>1. Ancestors(w)' = Ancestors(v)
      BY <1>3, <2>6, <2>9
    <3>2. w \in Ancestors(v)
      BY <1>4, <3>1
    <3>3. w \in DOMAIN minted
      BY <2>9, <3>2, OldOnes
    <3>4. Ancestors(w) = Ancestors(v)
      BY <3>1, <3>3, OldOnes
    <3>5. v \in Ancestors(w)
      BY <2>9, <3>4, OldOnes
    <3>6. Ancestors(v) \subseteq 1..v /\ Ancestors(w) \subseteq 1..w /\ v \in Nat /\ w \in Nat
      BY <1>1, <2>9, <3>3, PointerIs
    <3> QED  BY <3>2, <3>5, <3>6
  <2>11. Root(q) = Root(r.place.local)
    <3>1. Unchanged(q, instr)
      <4>1. ~Borrowed(q, instr)
        BY <1>1, <1>2, <2>9, <2>10 DEF Borrowed
      <4>2. ASSUME NEW s, Copied(q, instr, s) PROVE FALSE
        BY <2>4, <4>2 DEF Copied
      <4> QED  BY <4>1, <4>2, HoldersAre
    <3>2. Holds(q) /\ conc[q] = v
      BY <1>2, <2>10, <3>1 DEF Unchanged
    <3>3. minted[v].mutable
      BY <1>3, <2>9, <2>10, OldPointers
    <3>4. r.place.local \in Local /\ conc[r.place.local] = v
      BY <2>1, <2>5 DEF Plain
    <3> QED  BY <1>1, <2>9, <3>2, <3>3, <3>4 DEF Unique
  <2>12. PICK x \in loans : Keeps(x, l)' /\ x.place = resolve(r.place) /\ (x.mutable <=> r.how = "mut")
    BY <2>1, <2>3, NewLoan
  <2>13. Through(x, c, w, Root(q))'
    <3>1. PICK place : place = r.place
      OBVIOUS
    <3>2. resolve(place) = [local |-> Root(place.local), proj |-> place.proj]
      BY <2>5, <3>1, ResolveIs DEF Plain
    <3>3. x.place.local = Root(q) /\ x.place.proj = place.proj
      BY <2>11, <2>12, <3>1, <3>2
    <3>4. Derefs(x.place) /\ place.proj \in Seq(Elem)
      BY <2>5, <2>7, <3>1, <3>3 DEF Derefs, Plain
    <3>5. \A i \in DOMAIN place.proj : i > 1 => place.proj[i] # "*"
      BY <2>5, <3>1, Zenon DEF Plain
    <3>6. minted'[n].addr.proj = minted'[w].addr.proj \o Tail(place.proj)
      <4>1. minted'[v].addr = minted[v].addr
        BY <2>9, OldPointers
      <4> QED  BY <2>8, <2>10, <3>1, <4>1 DEF NewThrough
    <3> QED  BY <1>1, <2>5, <2>6, <2>12, <3>3, <3>4, <3>5, <3>6 DEF Through, Derefs
  <2> QED  BY <1>1, <1>5, <2>12, <2>13
<1> QED  BY <1>6, <1>7

LEMMA StepRunning ==
  ASSUME NEW instr, Checked, Running, Steps(instr)
  PROVE  Running'
<1>1. (at \in Points(body))'
  BY StepStays
<1> QED  BY <1>1, StepPointers, StepHeld, StepApart, StepExact, StepUnique, StepFresh,
            StepOwnLoaned, StepThroughLoaned DEF Running
-----------------------------------------------------------------------------
(* The run begins, and goes on.                                             *)

\* The parameters' pointers, numbered in any order.
LEMMA BeginRuns ==
  ASSUME Checked, BeginRun
  PROVE  Running'
<1> DEFINE params == {l \in body.params : body.data[l].borrow}
           N == Cardinality(params)
<1>1. PICK order \in [params -> 1..N] :
        /\ \A l, m \in params : order[l] = order[m] => l = m
        /\ minted' = [i \in 1..N |->
                        LET l == CHOOSE m \in params : order[m] = i
                        IN  Pointer(Outside(l), ~body.data[l].copyable, {})]
        /\ conc' = [l \in Local |-> IF l \in params THEN order[l] ELSE 0]
  BY DEF BeginRun
<1>2. /\ body' = body /\ aliases' = aliases /\ live' = live /\ loans' = loans
      /\ at' = At(body.entry, 1) /\ body \in Bodies
      /\ live = liveness(body) /\ aliases = compute_aliases(body)
  BY DEF BeginRun, Checked
<1>3. body.params \subseteq Local /\ params \subseteq Local
  BY <1>2, BodiesAssumption DEF IsBody, Body
<1>4. N \in Nat /\ IsFiniteSet(params)
  <2>1. IsFiniteSet(params)
    BY <1>3, LocalAssumption, FS_Subset
  <2> QED  BY <2>1, FS_CardinalityType
<1> HIDE DEF params, N
<1>5. ASSUME NEW i \in 1..N PROVE \E l \in params : order[l] = i
  <2>1. IsFiniteSet(1..N) /\ Cardinality(1..N) = N
    <3>1. 1 \in Int /\ N \in Int
      BY <1>4
    <3>2. IsFiniteSet(1..N) /\ Cardinality(1..N) = IF 1 > N THEN 0 ELSE N - 1 + 1
      BY <3>1, FS_Interval
    <3> QED  BY <1>4, <3>2
  <2>2. order \in Injection(params, 1..N)
    BY <1>1 DEF Injection, IsInjective
  <2>3. order \in Surjection(params, 1..N)
    <3>1. Cardinality(params) = Cardinality(1..N)
      BY <2>1 DEF N
    <3> QED  BY <2>1, <2>2, <3>1, FS_Injection
  <2> QED  BY <2>3 DEF Surjection
<1>6. ASSUME NEW l \in params
      PROVE  /\ order[l] \in 1..N
             /\ minted'[order[l]] = Pointer(Outside(l), ~body.data[l].copyable, {})
  <2>1. order[l] \in 1..N
    BY <1>1
  <2>2. (CHOOSE m \in params : order[m] = order[l]) = l
    BY <1>1
  <2> QED  BY <1>1, <2>1, <2>2
<1>7. DOMAIN minted' = 1..N /\ Len(minted') = N
  BY <1>1, <1>4
<1>8. ASSUME NEW l \in params
      PROVE  /\ minted'[order[l]].addr = Outside(l) /\ minted'[order[l]].above = {}
             /\ ~minted'[order[l]].stale /\ (minted'[order[l]].mutable <=> ~body.data[l].copyable)
             /\ minted'[order[l]] \in Ptr
  <2>1. PICK u, m : u = Outside(l) /\ m = ~body.data[l].copyable
    OBVIOUS
  <2>2. m \in BOOLEAN /\ u \in [local: Local \cup {NoLocal}, proj: Seq(Elem \cup Local)]
    <3>1. <<l>> \in Seq(Elem \cup Local)
      BY <1>3
    <3>2. u \in [local: Local \cup {NoLocal}, proj: Seq(Elem \cup Local)]
      BY <2>1, <3>1 DEF Outside
    <3>3. m \in BOOLEAN
      BY <2>1, Zenon
    <3> QED  BY <3>2, <3>3
  <2>3. PICK p : p = minted'[order[l]]
    OBVIOUS
  <2>4. p = [addr |-> u, mutable |-> m, above |-> {}, stale |-> FALSE]
    BY <1>6, <2>1, <2>3 DEF Pointer
  <2>5. p.addr = u /\ p.above = {} /\ ~p.stale /\ p.mutable = m
    BY <2>4
  <2>6. p \in Ptr
    <3>1. {} \in SUBSET Nat /\ FALSE \in BOOLEAN
      OBVIOUS
    <3> QED  BY <2>2, <2>4, <3>1, Zenon DEF Ptr
  <2> QED  BY <2>1, <2>3, <2>5, <2>6
<1>9. ASSUME NEW i \in 1..N
      PROVE  \E l \in params :
               /\ order[l] = i /\ minted'[i].addr = Outside(l) /\ minted'[i].above = {}
               /\ ~minted'[i].stale /\ (minted'[i].mutable <=> ~body.data[l].copyable) /\ minted'[i] \in Ptr
  BY <1>5, <1>8
<1>10. minted' \in Seq(Ptr)
  <2>1. \A i \in 1..N : minted'[i] \in Ptr
    BY <1>9
  <2>2. minted' = [i \in 1..N |-> minted'[i]]
    BY <1>1
  <2> QED  BY <1>4, <2>1, <2>2
<1>11. \A i \in 1..N : Ancestors(i)' = {i} /\ i \in Ancestors(i)'
  BY <1>9 DEF Ancestors
<1>12. \A l \in Local : Holds(l)' => l \in params /\ ~is_place_temp(l)
  <2> SUFFICES ASSUME NEW l \in Local, Holds(l)' PROVE l \in params /\ ~is_place_temp(l)
    OBVIOUS
  <2>1. l \in liveness(body)[body.entry][1] /\ body.data[l].borrow
    BY <1>2 DEF Holds, live_at, At
  <2>2. Lowered(body)
    BY <1>2, LoanBodiesAssumption
  <2>3. l \in body.params
    BY <2>1, <2>2, Zenon DEF Lowered
  <2>4. ~is_place_temp(l)
    BY <1>2, <2>3, AliasIs DEF is_place_temp
  <2> QED  BY <2>1, <2>3, <2>4 DEF params
<1>13. \A l \in Local : conc'[l] = IF l \in params THEN order[l] ELSE 0
  BY <1>1
<1>14. (at \in Points(body))'
  <2>1. body.entry \in Block /\ 1 \in 1..Len(body.code[body.entry])
    BY <1>2, BodyFacts
  <2>2. At(body.entry, 1) \in Points(body)
    BY <1>2, <2>1, PointIs
  <2> QED  BY <1>2, <2>2
<1>15. Pointers'
  <2> SUFFICES ASSUME NEW i \in 1..N PROVE Tree(i)' /\ Grounded(i)' /\ \A v \in Ancestors(i)' : Within(i, v)'
    BY <1>7, <1>10 DEF Pointers
  <2>1. PICK l \in params :
          /\ minted'[i].addr = Outside(l) /\ minted'[i].above = {} /\ minted'[i] \in Ptr
    BY <1>9
  <2>2. Tree(i)'
    BY <1>11, <2>1 DEF Tree
  <2>3. Grounded(i)'
    BY <2>1 DEF Grounded, Outside
  <2>4. Within(i, i)'
    <3>1. Len(minted'[i].addr.proj) \in Nat
      BY <2>1 DEF Ptr
    <3> QED  BY <3>1 DEF Within, paths_overlap
  <2>5. \A v \in Ancestors(i)' : v = i
    BY <1>11
  <2> QED  BY <2>2, <2>3, <2>4, <2>5
<1>16. Held'
  <2>1. conc' \in [Local -> Nat]
    BY <1>1, <1>4
  <2>2. \A l \in Local :
          /\ conc'[l] # 0 => /\ conc'[l] \in DOMAIN minted' /\ body.data[l].borrow
                             /\ minted'[conc'[l]].mutable <=> ~body.data[l].copyable
          /\ Holds(l)' => conc'[l] # 0
    BY <1>6, <1>7, <1>8, <1>12, <1>13 DEF params
  <2> QED  BY <1>2, <2>1, <2>2 DEF Held
<1>17. Apart'
  <2> SUFFICES ASSUME NEW i \in 1..N, NEW j \in 1..N, i \notin Ancestors(j)',
                      Overlap(minted'[i].addr, minted'[j].addr)
               PROVE  FALSE
    BY <1>7 DEF Apart, Overlap, paths_overlap
  <2>1. PICK l \in params : order[l] = i /\ minted'[i].addr = Outside(l)
    BY <1>9
  <2>2. PICK m \in params : order[m] = j /\ minted'[j].addr = Outside(m)
    BY <1>9
  <2>3. <<l>>[1] = <<m>>[1]
    BY <2>1, <2>2 DEF Overlap, paths_overlap, Outside
  <2> QED  BY <1>11, <2>1, <2>2, <2>3
<1>18. Exact'
  <2>1. \A l : is_place_temp(l)' <=> is_place_temp(l)
    BY <1>2 DEF is_place_temp
  <2> QED  BY <1>12, <2>1 DEF Exact
<1>19. Unique'
  BY <1>1, <1>12, <1>13 DEF Unique
<1>20. Fresh'
  BY <1>8, <1>12, <1>13 DEF Fresh
<1>21. OwnLoaned'
  <2> SUFFICES ASSUME NEW l \in Local, Holds(l)', NEW c, c \in Ancestors(conc[l])',
                      minted'[c].addr.local # NoLocal
               PROVE  FALSE
    BY DEF OwnLoaned
  <2>1. PICK d : d = conc'[l]
    OBVIOUS
  <2>2. c \in Ancestors(d)'
    BY <2>1 DEF Ancestors
  <2>3. d \in 1..N
    BY <1>6, <1>12, <1>13, <2>1
  <2>4. c = d
    BY <1>11, <2>2, <2>3
  <2>5. PICK m \in params : minted'[c].addr = Outside(m)
    BY <1>9, <2>3, <2>4
  <2> QED  BY <2>5 DEF Outside
<1>22. ThroughLoaned'
  <2> SUFFICES ASSUME NEW l \in Local, NEW q \in Local, Holds(l)', Holds(q)',
                      NEW c, c \in Ancestors(conc[l])', minted'[c].above = Ancestors(conc[q])'
               PROVE  FALSE
    BY DEF ThroughLoaned
  <2>1. PICK d, w : d = conc'[l] /\ w = conc'[q]
    OBVIOUS
  <2>2. c \in Ancestors(d)' /\ minted'[c].above = Ancestors(w)'
    BY <2>1 DEF Ancestors
  <2>3. d \in 1..N /\ w \in 1..N
    BY <1>6, <1>12, <1>13, <2>1
  <2>4. c = d /\ w \in Ancestors(w)'
    BY <1>11, <2>2, <2>3
  <2> QED  BY <1>9, <2>2, <2>3, <2>4
<1> QED  BY <1>14, <1>15, <1>16, <1>17, <1>18, <1>19, <1>20, <1>21, <1>22 DEF Running

\* Nothing of it changes while nothing happens.
LEMMA RunningStays ==
  ASSUME Running, UNCHANGED vars
  PROVE  Running'
<1>1. /\ body' = body /\ aliases' = aliases /\ loans' = loans /\ live' = live /\ scope_in' = scope_in
      /\ traps' = traps /\ at' = at /\ minted' = minted /\ conc' = conc /\ UNCHANGED Given
  BY DEF vars, Given
<1>2. /\ \A l : Holds(l)' <=> Holds(l)
      /\ \A l : Root(l)' = Root(l)
      /\ \A l : is_place_temp(l)' <=> is_place_temp(l)
      /\ \A i : Ancestors(i)' = Ancestors(i)
  BY <1>1 DEF Holds, live_at, Root, is_place_temp, Ancestors
<1>3. Pointers'
  <2>1. \A i :
          /\ Tree(i)' <=> Tree(i)
          /\ Grounded(i)' <=> Grounded(i)
    BY <1>1, <1>2 DEF Tree, Grounded
  <2>2. \A i, v : Within(i, v)' <=> Within(i, v)
    BY <1>1 DEF Within, paths_overlap
  <2> QED  BY <1>1, <1>2, <2>1, <2>2 DEF Running, Pointers
<1>4. Held'
  BY <1>1, <1>2 DEF Running, Held
<1>5. Apart'
  BY <1>1, <1>2 DEF Running, Apart, Overlap, paths_overlap
<1>6. Exact' /\ Unique' /\ Fresh'
  BY <1>1, <1>2 DEF Running, Exact, Unique, Fresh
<1>7. \A x, l : Keeps(x, l)' <=> Keeps(x, l)
  <2>1. \A p : Scope(p)' = Scope(p)
    BY <1>1, WalkedStays DEF Scope
  <2>2. \A x, l, p : LiveFor(x, l, p)' <=> LiveFor(x, l, p)
    BY <1>1 DEF LiveFor, Of, reaches, reach
  <2>3. PICK p : p = at
    OBVIOUS
  <2>4. Scope(at)' = Scope(p) /\ \A x, l : LiveFor(x, l, at)' <=> LiveFor(x, l, p)
    BY <1>1, <2>1, <2>2, <2>3
  <2> QED  BY <1>1, <2>3, <2>4 DEF Keeps
<1>8. OwnLoaned'
  <2>1. \A l, c : c \in Ancestors(conc[l])' <=> c \in Ancestors(conc[l])
    BY <1>1 DEF Ancestors
  <2>2. \A x, c : OfOwn(x, c)' <=> OfOwn(x, c)
    BY <1>1 DEF OfOwn
  <2> QED  BY <1>1, <1>2, <1>7, <2>1, <2>2 DEF Running, OwnLoaned
<1>9. ThroughLoaned'
  <2>1. \A l : Ancestors(conc[l])' = Ancestors(conc[l])
    BY <1>1 DEF Ancestors
  <2>2. \A x, c, q : Through(x, c, conc[q], Root(q))' <=> Through(x, c, conc[q], Root(q))
    BY <1>1 DEF Through, Root, Derefs
  <2> QED  BY <1>1, <1>2, <1>7, <2>1, <2>2 DEF Running, ThroughLoaned
<1>10. (at \in Points(body))'
  BY <1>1 DEF Running
<1> QED  BY <1>3, <1>4, <1>5, <1>6, <1>8, <1>9, <1>10 DEF Running

LEMMA NextRun == IInv /\ KnownInv /\ HeedInv /\ RunInv /\ [Next]_vars => RunInv'
<1> SUFFICES ASSUME IInv, KnownInv, HeedInv, RunInv, [Next]_vars, phase' = "run" PROVE Running'
  BY DEF RunInv
<1>1. phase \in {"ready", "run", "stopped"} => Checked
  BY CheckedIs
<1>2. CASE New \/ Sweep \/ Report \/ Stop
  BY <1>2 DEF New, Sweep, Report, Stop
<1>3. CASE BeginRun
  BY <1>1, <1>3, BeginRuns DEF BeginRun
<1>4. CASE Execute
  <2>1. Checked /\ Running
    BY <1>1, <1>4 DEF Execute, RunInv
  <2>2. Steps(InstrAt(body, at))
    BY <1>4 DEF Execute, Steps, Given
  <2>3. PICK instr : instr = InstrAt(body, at)
    OBVIOUS
  <2>4. Steps(instr)
    BY <2>2, <2>3
  <2> QED  BY <2>1, <2>4, StepRunning
<1>5. CASE UNCHANGED vars
  BY <1>5, RunningStays DEF RunInv, vars
<1> QED  BY <1>2, <1>3, <1>4, <1>5 DEF Next

LEMMA InvNoStale == IInv /\ KnownInv /\ HeedInv /\ RunInv => NoStaleUse
<1> SUFFICES ASSUME IInv, KnownInv, HeedInv, RunInv, phase = "run", at \notin traps
             PROVE  /\ \A l \in uses_at(body, InstrAt(body, at)) : conc[l] # 0 => ~minted[conc[l]].stale
                    /\ (InstrAt(body, at).kind = "return" /\ conc[body.ret] # 0) =>
                         minted[conc[body.ret]].addr.local = NoLocal
  BY DEF NoStaleUse
<1>1. Checked /\ Running
  BY CheckedIs DEF RunInv
<1>2. body \in Bodies /\ at \in Points(body) /\ live = liveness(body)
  BY <1>1 DEF Checked, Running
<1>3. ASSUME NEW l \in uses_at(body, InstrAt(body, at)), conc[l] # 0 PROVE l \in Local /\ Holds(l)
  <2>1. l \in Local /\ l \in live_at(at)
    BY <1>2, LivenessIs
  <2> QED  BY <1>1, <1>3, <2>1 DEF Running, Held, Holds
<1>4. \A l \in uses_at(body, InstrAt(body, at)) : conc[l] # 0 => ~minted[conc[l]].stale
  BY <1>1, <1>3 DEF Running, Fresh
<1>5. ASSUME InstrAt(body, at).kind = "return", conc[body.ret] # 0, minted[conc[body.ret]].addr.local # NoLocal
      PROVE  FALSE
  <2>1. PICK l, i : l = body.ret /\ i = conc[l]
    OBVIOUS
  <2>2. l \in uses_at(body, InstrAt(body, at))
    BY <1>5, <2>1 DEF uses_at
  <2>3. l \in Local /\ Holds(l) /\ i \in DOMAIN minted /\ Pointers
    BY <1>1, <1>3, <1>5, <2>1, <2>2 DEF Running, Held
  <2>4. PICK c \in Ancestors(i) : minted[c].above = {}
    BY <2>3 DEF Pointers, Tree
  <2>5. Within(i, c) /\ c \in DOMAIN minted
    BY <2>3, <2>4, PointerIs DEF Pointers
  <2>6. minted[c].addr.local # NoLocal
    BY <1>5, <2>1, <2>5 DEF Within
  <2>7. PICK x \in loans : Keeps(x, l) /\ OfOwn(x, c)
    BY <1>1, <2>1, <2>3, <2>4, <2>6 DEF Running, OwnLoaned
  <2>8. PICK access : access = Access("storage_end", Whole(x.place.local), TRUE)
    OBVIOUS
  <2>9. access \in accesses_at(InstrAt(body, at))
    <3>1. access \in LastAccesses(InstrAt(body, at))
      BY <1>5, <2>8 DEF LastAccesses, loaned_locals
    <3> QED  BY <3>1 DEF accesses_at
  <2>10. conflicts(access, x)
    <3>1. ~\E n \in DOMAIN x.place.proj : x.place.proj[n] = "*"
      BY <2>3, <2>5, <2>6, <2>7 DEF Pointers, Grounded, OfOwn
    <3>2. access.kind = "storage_end" /\ access.place = Whole(x.place.local)
      BY <2>8 DEF Access
    <3>3. Overlap(access.place, x.place)
      <4>1. Len(x.place.proj) \in Nat
        BY <2>3, <2>5, <2>7, PointerIs DEF OfOwn
      <4> QED  BY <3>2, <4>1 DEF Overlap, paths_overlap, Whole
    <3> QED  BY <3>1, <3>2, <3>3 DEF conflicts, IsWrite
  <2> QED  BY <1>1, <1>2, <2>3, <2>7, <2>9, <2>10, Guarded
<1> QED  BY <1>4, <1>5

LEMMA InvPlaceTemps == IInv /\ KnownInv /\ HeedInv /\ RunInv => PlaceTempsAreExact
<1> SUFFICES ASSUME IInv, KnownInv, HeedInv, RunInv, phase = "run", at \notin traps,
                    NEW instr, instr = InstrAt(body, at),
                    NEW place \in {r.place : r \in ReadsOf(instr)} \cup ({instr.dest} \ {Nowhere}),
                    place.proj # <<>>, is_place_temp(place.local)
             PROVE  Address(place) = Address(resolve(place))
  BY DEF PlaceTempsAreExact
<1>1. Checked /\ Running
  BY CheckedIs DEF RunInv
<1>2. body \in Bodies /\ at \in Points(body) /\ live = liveness(body)
  BY <1>1 DEF Checked, Running
<1>3. Plain(place)
  BY <1>2, PlacesArePlain
<1>4. place.local \in Local /\ body.data[place.local].borrow
  BY <1>1, <1>3, WholeIs DEF Plain
<1>5. Derefs(place)
  BY <1>3, <1>4 DEF Plain
<1>6. place.local \in uses_at(body, instr)
  <2>1. CASE place = instr.dest
    <3>1. instr.kind = "assign"
      BY <1>2, <2>1, TypedIs
    <3> QED  BY <2>1, <3>1 DEF uses_at
  <2>2. CASE place # instr.dest
    BY <2>2 DEF uses_at
  <2> QED  BY <2>1, <2>2
<1>7. Holds(place.local)
  BY <1>2, <1>4, <1>6, LivenessIs DEF Holds
<1>8. conc[place.local] = conc[Root(place.local)]
  BY <1>1, <1>4, <1>7 DEF Running, Exact
<1>9. PICK root : root = [local |-> Root(place.local), proj |-> place.proj]
  OBVIOUS
<1>10. resolve(place) = root
  BY <1>1, <1>3, <1>9, ResolveIs DEF Plain
<1>11. root.local = Root(place.local) /\ root.proj = place.proj /\ Derefs(root)
  BY <1>5, <1>9 DEF Derefs
<1>12. conc[place.local] # 0
  BY <1>1, <1>4, <1>7 DEF Running, Held
<1>13. Address(place) = Address(root)
  BY <1>5, <1>8, <1>11, <1>12 DEF Address
<1> QED  BY <1>10, <1>13

LEMMA RunHolds == Spec => [](IInv /\ KnownInv /\ HeedInv /\ RunInv)
<1>1. Init => IInv
  BY InitInv
<1>2. Init => KnownInv /\ HeedInv /\ RunInv
  BY DEF Init, KnownInv, HeedInv, RunInv
<1>3. IInv /\ [Next]_vars => IInv'
  BY NextInv
<1> QED  BY <1>1, <1>2, <1>3, NextKnown, NextHeed, NextRun, PTL DEF Spec
-----------------------------------------------------------------------------
(* Theorems.                                                                *)

\* The loans in scope entering a block are those some path brings there from
\* their mint, live at every point and ended at none, for every body of
\* LoanBodiesAssumption (compute_scope, and the order of its sweeps).
THEOREM ScopeIsPaths == Spec => []ScopeIsSomePath
<1>1. Init => IInv
  BY InitInv
<1>2. IInv /\ [Next]_vars => IInv'
  BY NextInv
<1>3. IInv => ScopeIsSomePath
  BY InvScope
<1> QED  BY <1>1, <1>2, <1>3, PTL DEF Spec

\* No pointer is used that a foreign access has invalidated, and none into
\* the frame that ends is returned, on any path of a body of
\* LoanBodiesAssumption that the checker lets run (BodyCheck::run).
THEOREM NoPointerUsedStale == Spec => []NoStaleUse
BY RunHolds, InvNoStale, PTL

\* A place temp stands for its place as long as it is used, on any path of a
\* body of LoanBodiesAssumption that the checker lets run (pinned_by).
THEOREM PlaceTempsStayExact == Spec => []PlaceTempsAreExact
BY RunHolds, InvPlaceTemps, PTL
=============================================================================
