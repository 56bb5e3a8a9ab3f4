--------------------------- MODULE Debuggee_proofs ---------------------------
(***************************************************************************)
(* Proofs about the resume loop, for any program (any set of points), any  *)
(* breakpoints and any bound on the stack and on the calls.                *)
(*                                                                         *)
(* Everything rests on the serials: along the stack they grow, and neither *)
(* the record nor the ghost has heard of one the machine has not handed    *)
(* out.  A reused stack index therefore never passes for its new frame.    *)
(***************************************************************************)
EXTENDS Debuggee, SequenceTheorems, TLAPS

\* The positions frame instance `serial` was looked at.
Been(serial) == {s[2] : s \in {t \in seen : t[1] = serial}}

StackInv ==
  /\ frames \in Seq(LiveFrame)
  /\ next_serial \in Nat
  /\ \A i \in 1..Len(frames) : frames[i].serial \in 1..next_serial
  /\ \A i, j \in 1..Len(frames) : i < j => frames[i].serial < frames[j].serial
  /\ phase # "over" => frames # <<>>

RecordInv ==
  /\ sat_at \in Seq(Record)
  /\ \A k \in 1..Len(sat_at) : sat_at[k].serial <= next_serial
  /\ seen \subseteq (1..next_serial) \X (Nat \X Nat)
  /\ HistoryLosesNothing

CountInv ==
  /\ breakpoints \in Seq(Installed)
  /\ arrivals \in Seq(Nat)
  /\ Len(arrivals) = Len(breakpoints)
  /\ HitsNeverDrift

IInv == StackInv /\ RecordInv /\ CountInv

LEMMA TableIsSeq ==
  ASSUME NEW n \in Nat, NEW S, NEW f \in [1..n -> S]
  PROVE  f \in Seq(S) /\ Len(f) = n /\ DOMAIN f = 1..n
BY LenProperties

LEMMA InitEstablishes == Init => IInv
<1> SUFFICES ASSUME Init PROVE IInv
  OBVIOUS
<1>1. PICK p \in EntryPoint : frames = <<[serial |-> 1, at |-> p]>>
  BY Zenon DEF Init
<1>2. /\ next_serial = 1 /\ phase = "paused"
      /\ sat_at = <<>> /\ seen = {} /\ breakpoints = <<>> /\ arrivals = <<>>
  BY Zenon DEF Init
<1>3. /\ frames \in Seq(LiveFrame) /\ Len(frames) = 1 /\ frames # <<>>
      /\ frames[1].serial = 1
  <2>1. [serial |-> 1, at |-> p] \in LiveFrame
    BY PointsAssumption DEF LiveFrame
  <2> QED  BY <1>1, <2>1
<1>4. StackInv
  <2>1. \A i \in 1..Len(frames) : i = 1
    BY <1>3
  <2>2. \A i \in 1..Len(frames) : frames[i].serial \in 1..next_serial
    BY <1>2, <1>3, <2>1
  <2>3. \A i, j \in 1..Len(frames) : ~(i < j)
    BY <2>1
  <2> QED  BY <1>2, <1>3, <2>2, <2>3 DEF StackInv
<1>5. RecordInv
  <2>1. sat_at \in Seq(Record) /\ Len(sat_at) = 0
    BY <1>2
  <2>2. \A i \in 1..Len(frames) : i = 1 /\ ~(i <= Len(sat_at))
    BY <1>3, <2>1
  <2>3. \A i \in 1..Len(frames) : History(i).serial # frames[i].serial
    BY <1>3, <2>2 DEF History, NoHistory
  <2>4. HistoryLosesNothing
    BY <1>2, <2>3, Zenon DEF HistoryLosesNothing, Depth
  <2> QED  BY <1>2, <2>1, <2>4 DEF RecordInv
<1>6. CountInv
  <2>1. /\ breakpoints \in Seq(Installed) /\ arrivals \in Seq(Nat)
        /\ DOMAIN breakpoints = {} /\ Len(arrivals) = Len(breakpoints)
    BY <1>2
  <2> QED  BY <2>1 DEF CountInv, HitsNeverDrift
<1> QED  BY <1>4, <1>5, <1>6 DEF IInv

\* What the record says of the top frame is where that frame has been.
LEMMA KnownIsBeen ==
  ASSUME StackInv, RecordInv, frames # <<>>
  PROVE  /\ Top \in LiveFrame /\ Depth \in Nat \ {0}
         /\ Top.serial \in 1..next_serial
         /\ Known = Been(Top.serial)
         /\ Known \subseteq Nat \X Nat
<1>1. /\ frames \in Seq(LiveFrame) /\ Depth \in Nat \ {0} /\ Depth \in 1..Depth
  BY EmptySeq, LenProperties DEF StackInv, Depth
<1>2. Top \in LiveFrame /\ Top.serial \in 1..next_serial
  BY <1>1, ElementOfSeq DEF StackInv, Depth, Top
<1>3. IF History(Depth).serial = Top.serial
        THEN History(Depth).positions = Been(Top.serial)
        ELSE Been(Top.serial) = {}
  BY <1>1 DEF RecordInv, HistoryLosesNothing, Been, Top
<1>4. Known = Been(Top.serial)
  BY <1>3 DEF Known
<1>5. Been(Top.serial) \subseteq Nat \X Nat
  BY DEF RecordInv, Been
<1> QED  BY <1>1, <1>2, <1>4, <1>5

\* The code's test for an arrival at a place the record does not know is the
\* test for the frame's first time there.
LEMMA ArrivesIsFirstTime ==
  ASSUME NEW s \in Breakpoint, NEW position \in Nat \X Nat,
         NEW been \in SUBSET (Nat \X Nat)
  PROVE  Arrives(s, position, been) <=> FirstTime(s, position, been)
<1>1. s.line \in Nat /\ s.column \in Nat
  BY DEF Breakpoint
<1>2. /\ position = <<position[1], position[2]>>
      /\ \A p \in been : p = <<p[1], p[2]>>
  OBVIOUS
<1>3. CASE s.column = 0
  BY <1>1, <1>2, <1>3 DEF Arrives, FirstTime, Lines
<1>4. CASE s.column # 0
  <2>1. \A p \in been : p = position <=> p[1] = position[1] /\ p[2] = position[2]
    BY <1>2
  <2> QED  BY <1>1, <1>4, <2>1 DEF Arrives, FirstTime
<1> QED  BY <1>3, <1>4

\* Looking adds one position to the top frame's record and to its ghost, and
\* leaves every other frame's alone.
LEMMA LookRecords ==
  ASSUME IInv, frames # <<>>, NEW position \in Nat \X Nat,
         UNCHANGED <<frames, next_serial>>,
         sat_at' = Recorded(position),
         seen' = seen \cup {<<Top.serial, position>>}
  PROVE  RecordInv'
<1>1. /\ Top \in LiveFrame /\ Depth \in Nat \ {0}
      /\ Top.serial \in 1..next_serial
      /\ Known = Been(Top.serial) /\ Known \subseteq Nat \X Nat
  BY KnownIsBeen DEF IInv
<1>2. \A i \in Nat \ {0} : History(i) \in Record /\ History(i).serial <= next_serial
  <2> TAKE i \in Nat \ {0}
  <2>1. sat_at \in Seq(Record) /\ next_serial \in Nat /\ Len(sat_at) \in Nat
    BY LenProperties DEF IInv, StackInv, RecordInv
  <2>2. CASE i <= Len(sat_at)
    <3>1. i \in 1..Len(sat_at)
      BY <2>1, <2>2
    <3> QED  BY <2>1, <2>2, <3>1, ElementOfSeq DEF History, IInv, RecordInv
  <2>3. CASE ~(i <= Len(sat_at))
    BY <2>1, <2>3 DEF History, NoHistory, Record
  <2> QED  BY <2>2, <2>3
<1> DEFINE newest == [serial |-> Top.serial, positions |-> Known \cup {position}]
<1>3. newest \in Record /\ newest.serial <= next_serial
  BY <1>1 DEF LiveFrame, Record
<1>4. /\ sat_at' \in Seq(Record) /\ Len(sat_at') = Depth
      /\ \A i \in 1..Depth : sat_at'[i] = IF i < Depth THEN History(i) ELSE newest
  <2>1. sat_at' = [i \in 1..Depth |-> IF i < Depth THEN History(i) ELSE newest]
    BY DEF Recorded
  <2> HIDE DEF newest
  <2>2. \A i \in 1..Depth :
          (IF i < Depth THEN History(i) ELSE newest) \in Record
    BY <1>1, <1>2, <1>3
  <2> QED  BY <1>1, <2>1, <2>2, LenProperties
<1>5. seen' \subseteq (1..next_serial) \X (Nat \X Nat)
  BY <1>1 DEF IInv, RecordInv
<1> DEFINE BeenAfter(x) == {s[2] : s \in {t \in seen' : t[1] = x}}
<1>6. /\ BeenAfter(Top.serial) = Been(Top.serial) \cup {position}
      /\ \A x : x # Top.serial => BeenAfter(x) = Been(x)
  <2>1. \A x : BeenAfter(x) = IF x = Top.serial THEN Been(x) \cup {position}
                             ELSE Been(x)
    <3> TAKE x
    <3>1. CASE x = Top.serial
      <4>1. <<x, position>>[1] = x /\ <<x, position>>[2] = position
        OBVIOUS
      <4>2. {t \in seen' : t[1] = x} =
              {t \in seen : t[1] = x} \cup {<<x, position>>}
        BY <3>1, <4>1, Zenon
      <4>3. BeenAfter(x) = Been(x) \cup {<<x, position>>[2]}
        BY <4>2, Zenon DEF Been
      <4> QED  BY <4>1, <4>3, <3>1
    <3>2. CASE x # Top.serial
      <4>1. \A t : t \in seen' /\ t[1] = x <=> t \in seen /\ t[1] = x
        BY <3>2
      <4> QED  BY <4>1, <3>2 DEF Been
    <3> QED  BY <3>1, <3>2
  <2> QED  BY <2>1
<1> HIDE DEF BeenAfter, newest
<1>7. ASSUME NEW i \in 1..Depth
      PROVE  IF sat_at'[i].serial = frames[i].serial
               THEN sat_at'[i].positions = BeenAfter(frames[i].serial)
               ELSE BeenAfter(frames[i].serial) = {}
  <2>1. CASE i = Depth
    <3>1. frames[i].serial = Top.serial /\ sat_at'[i] = newest
      BY <2>1, <1>1, <1>4 DEF Top
    <3> QED  BY <3>1, <1>1, <1>6 DEF newest
  <2>2. CASE i # Depth
    <3>1. i < Depth /\ Depth \in 1..Depth
      BY <2>2, <1>1
    <3>2. frames[i].serial # Top.serial
      <4>1. /\ frames[i].serial < Top.serial
            /\ frames[i].serial \in 1..next_serial /\ next_serial \in Nat
        BY <3>1 DEF IInv, StackInv, Top, Depth
      <4> QED  BY <4>1, <1>1
    <3>3. sat_at'[i] = History(i) /\ BeenAfter(frames[i].serial) = Been(frames[i].serial)
      BY <3>1, <3>2, <1>4, <1>6
    <3> QED  BY <3>3 DEF IInv, RecordInv, HistoryLosesNothing, Been
  <2> QED  BY <2>1, <2>2
<1>8. HistoryLosesNothing'
  <2>1. Depth' = Depth /\ \A i \in 1..Depth : History(i)' = sat_at'[i]
    BY <1>1, <1>4 DEF Depth, History
  <2> QED  BY <1>7, <2>1, ZenonT(40) DEF HistoryLosesNothing, BeenAfter
<1> QED  BY <1>2, <1>3, <1>4, <1>5, <1>8, <1>1 DEF RecordInv

\* Looking counts an arrival exactly when it is the frame's first time there,
\* for the first breakpoint, and only then for the others.
LEMMA LookCounts ==
  ASSUME IInv, frames # <<>>, NEW position \in Nat \X Nat,
         NEW arrived, NEW counted, NEW been,
         been = Been(Top.serial),
         arrived = {i \in DOMAIN breakpoints :
                      Arrives(breakpoints[i].spec, position, Known)},
         counted \subseteq arrived,
         1 \in arrived => 1 \in counted,
         breakpoints' = [i \in DOMAIN breakpoints |->
                           IF i \in counted
                             THEN [breakpoints[i] EXCEPT !.hits = @ + 1]
                             ELSE breakpoints[i]],
         arrivals' = [i \in DOMAIN breakpoints |->
                        IF FirstTime(breakpoints[i].spec, position, been)
                          THEN arrivals[i] + 1 ELSE arrivals[i]]
  PROVE  CountInv'
<1> DEFINE n == Len(breakpoints)
<1>1. /\ breakpoints \in Seq(Installed) /\ arrivals \in Seq(Nat)
      /\ n \in Nat /\ Len(arrivals) = n
      /\ DOMAIN breakpoints = 1..n /\ DOMAIN arrivals = 1..n
  BY LenProperties DEF IInv, CountInv
<1>2. \A i \in 1..n : /\ breakpoints[i] \in Installed /\ arrivals[i] \in Nat
                      /\ breakpoints[i].spec \in Breakpoint
                      /\ breakpoints[i].hits \in Nat
  <2> TAKE i \in 1..n
  <2>1. breakpoints[i] \in Installed /\ arrivals[i] \in Nat
    BY <1>1, ElementOfSeq
  <2> QED  BY <2>1, SpecsAssumption DEF Installed
<1>3. been = Known /\ been \in SUBSET (Nat \X Nat)
  BY KnownIsBeen DEF IInv
<1>4. \A i \in 1..n :
        i \in arrived <=> FirstTime(breakpoints[i].spec, position, been)
  BY <1>1, <1>2, <1>3, ArrivesIsFirstTime
<1> HIDE DEF n
<1>5. ASSUME NEW i \in 1..n
      PROVE  /\ breakpoints'[i] \in Installed /\ arrivals'[i] \in Nat
             /\ breakpoints'[i].hits <= arrivals'[i]
             /\ i = 1 => breakpoints'[i].hits = arrivals'[i]
  <2>1. /\ breakpoints[i] \in Installed /\ arrivals[i] \in Nat
        /\ breakpoints[i].hits \in Nat
        /\ breakpoints[i].hits <= arrivals[i]
        /\ i = 1 => breakpoints[i].hits = arrivals[i]
    BY <1>1, <1>2 DEF IInv, CountInv, HitsNeverDrift
  <2>2. arrivals'[i] = IF i \in arrived THEN arrivals[i] + 1 ELSE arrivals[i]
    BY <1>1, <1>4
  <2>3. CASE i \in counted
    <3>1. breakpoints'[i] = [breakpoints[i] EXCEPT !.hits = @ + 1] /\ i \in arrived
      BY <1>1, <2>3
    <3>2. /\ [breakpoints[i] EXCEPT !.hits = @ + 1] \in Installed
          /\ [breakpoints[i] EXCEPT !.hits = @ + 1].hits = breakpoints[i].hits + 1
      BY <2>1 DEF Installed
    <3> QED  BY <3>1, <3>2, <2>1, <2>2
  <2>4. CASE i \notin counted
    <3>1. breakpoints'[i] = breakpoints[i] /\ (i = 1 => i \notin arrived)
      BY <1>1, <2>4
    <3> QED  BY <3>1, <2>1, <2>2
  <2> QED  BY <2>3, <2>4
<1>6. /\ breakpoints' \in Seq(Installed) /\ Len(breakpoints') = n
      /\ arrivals' \in Seq(Nat) /\ Len(arrivals') = n
      /\ DOMAIN breakpoints' = 1..n
  <2>1. /\ breakpoints' = [i \in 1..n |-> breakpoints'[i]]
        /\ arrivals' = [i \in 1..n |-> arrivals'[i]]
    BY <1>1
  <2>2. n \in Nat
    BY <1>1 DEF n
  <2>3. breakpoints' \in [1..n -> Installed] /\ arrivals' \in [1..n -> Nat]
    BY <2>1, <1>5
  <2> QED  BY <2>2, <2>3, TableIsSeq
<1> QED  BY <1>5, <1>6 DEF CountInv, HitsNeverDrift

LEMMA LookKeeps ==
  ASSUME IInv, Look
  PROVE  IInv'
<1> DEFINE position == Where[Top.at]
<1>1. /\ frames # <<>> /\ UNCHANGED <<frames, next_serial>>
      /\ phase' # "over" /\ Positioned(Top.at)
  BY DEF Look, Stopped, IInv, StackInv
<1>2. position \in Nat \X Nat
  <2>1. Top.at \in Point
    BY <1>1, KnownIsBeen DEF IInv, LiveFrame
  <2>2. Top.at \in Point \ EntryPoint
    BY <2>1, <1>1 DEF Positioned
  <2> QED  BY <2>2, PointsAssumption
<1> DEFINE arrived == {i \in DOMAIN breakpoints :
                         Arrives(breakpoints[i].spec, position, Known)}
           stopping(h) == {i \in arrived : Halts(i, i \in h)}
           counted(h) == {i \in arrived : \A j \in stopping(h) : i <= j}
<1>3. PICK h \in SUBSET DOMAIN breakpoints :
        /\ sat_at' = Recorded(position)
        /\ seen' = seen \cup {<<Top.serial, position>>}
        /\ breakpoints' = [i \in DOMAIN breakpoints |->
                             IF i \in counted(h)
                               THEN [breakpoints[i] EXCEPT !.hits = @ + 1]
                               ELSE breakpoints[i]]
        /\ arrivals' = [i \in DOMAIN breakpoints |->
                          IF FirstTime(breakpoints[i].spec, position, Been(Top.serial))
                            THEN arrivals[i] + 1 ELSE arrivals[i]]
  BY Zenon DEF Look, Been
<1>4. StackInv'
  BY <1>1 DEF IInv, StackInv
<1>5. RecordInv'
  BY <1>1, <1>2, <1>3, LookRecords
<1>6. CountInv'
  <2>1. \A j \in DOMAIN breakpoints : 1 <= j
    BY LenProperties DEF IInv, CountInv
  <2>2. counted(h) \subseteq arrived /\ (1 \in arrived => 1 \in counted(h))
    BY <2>1
  <2> HIDE DEF counted, position
  <2> QED  BY <1>1, <1>2, <1>3, <2>2, LookCounts
<1> QED  BY <1>4, <1>5, <1>6 DEF IInv

\* Frames that move, or go, take their serials along: nothing recorded is
\* touched.  Every action but Look, Call and SetBreakpoints is of this kind.
LEMMA MoveKeeps ==
  ASSUME IInv, frames' \in Seq(LiveFrame), Len(frames') <= Len(frames),
         \A i \in 1..Len(frames') : frames'[i].serial = frames[i].serial,
         phase' # "over" => frames' # <<>>,
         UNCHANGED <<next_serial, sat_at, seen, breakpoints, arrivals>>
  PROVE  IInv'
<1>1. \A i \in 1..Len(frames') : i \in 1..Len(frames)
  BY LenProperties DEF IInv, StackInv
<1>2. StackInv'
  BY <1>1 DEF IInv, StackInv
<1>3. HistoryLosesNothing'
  <2>1. \A i : History(i)' = History(i)
    BY DEF History
  <2>2. ASSUME NEW i \in 1..Len(frames')
        PROVE  IF History(i).serial = frames[i].serial
                 THEN History(i).positions = Been(frames[i].serial)
                 ELSE Been(frames[i].serial) = {}
    BY <1>1, <2>2, ZenonT(40) DEF IInv, RecordInv, HistoryLosesNothing, Depth, Been
  <2>3. ASSUME NEW i \in 1..Len(frames')
        PROVE  frames'[i].serial = frames[i].serial
    BY <2>3
  <2> QED  BY <2>1, <2>2, <2>3, ZenonT(40) DEF HistoryLosesNothing, Depth, Been
<1>4. RecordInv'
  BY <1>3 DEF IInv, RecordInv
<1>5. CountInv'
  BY DEF IInv, CountInv, HitsNeverDrift
<1> QED  BY <1>2, <1>4, <1>5 DEF IInv

\* A called frame's serial is new to the record and to the ghost, whatever
\* its stack index held before.
LEMMA CallKeeps ==
  ASSUME IInv, Call
  PROVE  IInv'
<1> DEFINE n == Len(frames)
<1>1. /\ phase' # "over" /\ next_serial' = next_serial + 1
      /\ UNCHANGED <<breakpoints, sat_at, seen, arrivals>>
  BY DEF Call, Progress
<1>2. PICK p \in Point : frames' = Append(frames, [serial |-> next_serial + 1, at |-> p])
  BY <1>1 DEF Call
<1>3. /\ frames \in Seq(LiveFrame) /\ n \in Nat /\ next_serial \in Nat
      /\ [serial |-> next_serial + 1, at |-> p] \in LiveFrame
  BY LenProperties DEF IInv, StackInv, LiveFrame
<1>4. /\ frames' \in Seq(LiveFrame) /\ Len(frames') = n + 1
      /\ frames'[n + 1].serial = next_serial + 1
      /\ \A i \in 1..n : frames'[i] = frames[i]
  BY <1>2, <1>3, AppendProperties
<1>5. \A i \in 1..n : frames[i].serial \in 1..next_serial
  BY DEF IInv, StackInv
<1>6. \A i \in 1..(n + 1) : i \in 1..n \/ i = n + 1
  BY <1>3
<1>7. StackInv'
  <2>1. \A i \in 1..(n + 1) : frames'[i].serial \in 1..(next_serial + 1)
    BY <1>3, <1>4, <1>5, <1>6
  <2>2. ASSUME NEW i \in 1..(n + 1), NEW j \in 1..(n + 1), i < j
        PROVE  frames'[i].serial < frames'[j].serial
    <3>1. i \in 1..n
      BY <2>2, <1>3
    <3>2. CASE j \in 1..n
      BY <2>2, <3>1, <3>2, <1>4 DEF IInv, StackInv
    <3>3. CASE j = n + 1
      BY <3>1, <3>3, <1>3, <1>4, <1>5
    <3> QED  BY <3>2, <3>3, <1>6
  <2>3. frames' # <<>>
    BY <1>3, <1>4, EmptySeq
  <2> QED  BY <1>1, <1>3, <1>4, <2>1, <2>2, <2>3 DEF StackInv
<1>8. HistoryLosesNothing'
  <2>1. Depth' = n + 1 /\ \A i : History(i)' = History(i)
    BY <1>1, <1>4 DEF Depth, History
  <2>2. ASSUME NEW i \in 1..(n + 1)
        PROVE  IF History(i).serial = frames'[i].serial
                 THEN History(i).positions = Been(frames'[i].serial)
                 ELSE Been(frames'[i].serial) = {}
    <3>1. CASE i \in 1..n
      BY <3>1, <1>4, ZenonT(40) DEF IInv, RecordInv, HistoryLosesNothing, Depth, Been
    <3>2. CASE i = n + 1
      <4>1. History(i).serial # next_serial + 1
        <5>1. sat_at \in Seq(Record) /\ Len(sat_at) \in Nat
          BY LenProperties DEF IInv, RecordInv
        <5>2. CASE i <= Len(sat_at)
          <6>1. i \in 1..Len(sat_at)
            BY <5>1, <5>2, <3>2, <1>3
          <6>2. sat_at[i].serial \in Nat /\ sat_at[i].serial <= next_serial
            <7>1. sat_at[i] \in Record
              BY <6>1, <5>1, ElementOfSeq
            <7>2. \A k \in 1..Len(sat_at) : sat_at[k].serial <= next_serial
              BY DEF IInv, RecordInv
            <7> QED  BY <7>1, <7>2, <6>1 DEF Record
          <6> QED  BY <6>2, <5>2, <1>3 DEF History
        <5>3. CASE ~(i <= Len(sat_at))
          BY <5>3, <1>3 DEF History, NoHistory
        <5> QED  BY <5>2, <5>3
      <4>2. Been(next_serial + 1) = {}
        <5>1. seen \subseteq (1..next_serial) \X (Nat \X Nat)
          BY DEF IInv, RecordInv
        <5>2. \A t \in seen : t[1] \in 1..next_serial
          BY <5>1
        <5>3. \A k \in 1..next_serial : k # next_serial + 1
          BY <1>3
        <5>4. \A t \in seen : t[1] # next_serial + 1
          BY <5>2, <5>3
        <5> QED  BY <5>4 DEF Been
      <4> QED  BY <4>1, <4>2, <3>2, <1>4
    <3> QED  BY <3>1, <3>2, <1>6
  <2> QED  BY <1>1, <2>1, <2>2 DEF HistoryLosesNothing, Been
<1>9. RecordInv'
  <2>1. /\ \A k \in 1..Len(sat_at) : sat_at[k].serial <= next_serial + 1
        /\ 1..next_serial \subseteq 1..(next_serial + 1)
    <3>1. \A k \in 1..Len(sat_at) : sat_at[k] \in Record
      BY ElementOfSeq DEF IInv, RecordInv
    <3>2. \A k \in 1..Len(sat_at) :
            sat_at[k].serial \in Nat /\ sat_at[k].serial <= next_serial
      BY <3>1 DEF IInv, RecordInv, Record
    <3>3. \A k \in Nat : k <= next_serial => k <= next_serial + 1
      BY <1>3
    <3>4. 1..next_serial \subseteq 1..(next_serial + 1)
      BY <1>3
    <3> QED  BY <3>2, <3>3, <3>4
  <2> QED  BY <1>1, <1>8, <2>1 DEF IInv, RecordInv
<1>10. CountInv'
  BY <1>1 DEF IInv, CountInv, HitsNeverDrift
<1> QED  BY <1>7, <1>9, <1>10 DEF IInv

LEMMA AdvanceStack ==
  ASSUME IInv, Advance
  PROVE  /\ frames' \in Seq(LiveFrame) /\ Len(frames') = Len(frames) /\ frames' # <<>>
         /\ \A i \in 1..Len(frames) : frames'[i].serial = frames[i].serial
<1>1. phase = "step" /\ frames # <<>>
  BY DEF Advance, Progress, IInv, StackInv
<1>2. PICK p \in Point : frames' = [frames EXCEPT ![Depth].at = p]
  BY DEF Advance
<1>3. /\ frames \in Seq(LiveFrame) /\ Top \in LiveFrame
      /\ Depth \in 1..Len(frames) /\ Top = frames[Depth]
  BY <1>1, KnownIsBeen DEF IInv, StackInv, Depth, Top
<1> DEFINE moved == [Top EXCEPT !.at = p]
<1>4. moved \in LiveFrame /\ moved.serial = Top.serial
  BY <1>3 DEF LiveFrame
<1>5. frames' = [frames EXCEPT ![Depth] = moved]
  BY <1>2, <1>3
<1> HIDE DEF moved
<1>6. /\ frames' \in Seq(LiveFrame) /\ Len(frames') = Len(frames)
      /\ \A i \in 1..Len(frames) :
           frames'[i] = IF i = Depth THEN moved ELSE frames[i]
  BY <1>3, <1>4, <1>5, ExceptSeq
<1>7. \A i \in 1..Len(frames) : frames'[i].serial = frames[i].serial
  BY <1>3, <1>4, <1>6
<1>8. frames' # <<>>
  BY <1>1, <1>3, <1>6, EmptySeq, LenProperties
<1> QED  BY <1>6, <1>7, <1>8

LEMMA AdvanceKeeps ==
  ASSUME IInv, Advance
  PROVE  IInv'
<1>1. UNCHANGED <<next_serial, sat_at, seen, breakpoints, arrivals>>
  BY DEF Advance, Progress
<1>2. Len(frames) \in Nat
  BY LenProperties DEF IInv, StackInv
<1> QED  BY <1>1, <1>2, AdvanceStack, MoveKeeps

LEMMA ReturnStack ==
  ASSUME IInv, Return
  PROVE  /\ frames' \in Seq(LiveFrame) /\ Len(frames') <= Len(frames) /\ frames' # <<>>
         /\ \A i \in 1..Len(frames') : frames'[i].serial = frames[i].serial
<1> DEFINE m == Len(frames) - 1
           rest == SubSeq(frames, 1, m)
<1>2. PICK p \in Point : frames' = [rest EXCEPT ![m].at = p]
  BY DEF Return, Depth
<1>3. /\ frames \in Seq(LiveFrame) /\ Len(frames) \in Nat
      /\ Len(frames) > 1 /\ m \in Nat \ {0}
  BY LenProperties DEF Return, Depth, IInv, StackInv
<1>4. \A i \in 1..m : frames[i] \in LiveFrame
  BY <1>3, ElementOfSeq
<1>5. /\ rest \in Seq(LiveFrame) /\ Len(rest) = m
      /\ \A i \in 1..m : rest[i] = frames[i]
  <2> HIDE DEF m
  <2>1. /\ rest \in Seq(LiveFrame)
        /\ Len(rest) = IF 1 <= m THEN m - 1 + 1 ELSE 0
        /\ \A i \in 1..(m - 1 + 1) : rest[i] = frames[1 + i - 1]
    BY <1>3, <1>4, SubSeqProperties
  <2>2. \A i \in 1..m : 1 + i - 1 = i
    OBVIOUS
  <2> HIDE DEF rest
  <2> QED  BY <1>3, <2>1, <2>2
<1> HIDE DEF rest, m
<1> DEFINE moved == [rest[m] EXCEPT !.at = p]
<1>6. m \in 1..m /\ moved \in LiveFrame /\ moved.serial = rest[m].serial
  <2>1. m \in 1..m
    BY <1>3
  <2>2. rest[m] \in LiveFrame
    BY <2>1, <1>4, <1>5
  <2> QED  BY <2>1, <2>2 DEF LiveFrame
<1>7. frames' = [rest EXCEPT ![m] = moved]
  BY <1>2
<1> HIDE DEF moved
<1>8. /\ frames' \in Seq(LiveFrame) /\ Len(frames') = m
      /\ \A i \in 1..m : frames'[i] = IF i = m THEN moved ELSE rest[i]
  BY <1>5, <1>6, <1>7, ExceptSeq
<1>9. \A i \in 1..m : frames'[i].serial = frames[i].serial
  BY <1>5, <1>6, <1>8
<1>10. m <= Len(frames) /\ frames' # <<>>
  <2>1. m <= Len(frames)
    BY <1>3 DEF m
  <2> QED  BY <2>1, <1>3, <1>8, EmptySeq
<1> QED  BY <1>8, <1>9, <1>10

LEMMA ReturnKeeps ==
  ASSUME IInv, Return
  PROVE  IInv'
<1>1. UNCHANGED <<next_serial, sat_at, seen, breakpoints, arrivals>>
  BY DEF Return, Progress
<1> QED  BY <1>1, ReturnStack, MoveKeeps

LEMMA SetBreakpointsKeeps ==
  ASSUME IInv, SetBreakpoints
  PROVE  IInv'
<1>1. UNCHANGED <<frames, next_serial, sat_at, phase, seen>>
  BY DEF SetBreakpoints
<1>a. PICK n \in 0..MaxBreakpoints : \E specs \in [1..n -> Specs] :
        /\ breakpoints' = [i \in 1..n |-> [spec |-> specs[i], hits |-> 0]]
        /\ arrivals' = [i \in 1..n |-> 0]
  BY DEF SetBreakpoints
<1>2. PICK specs \in [1..n -> Specs] :
        /\ breakpoints' = [i \in 1..n |-> [spec |-> specs[i], hits |-> 0]]
        /\ arrivals' = [i \in 1..n |-> 0]
  BY <1>a
<1>3. n \in Nat
  BY BoundsAssumption
<1>4. \A i \in 1..n : [spec |-> specs[i], hits |-> 0] \in Installed
  BY DEF Installed
<1>5. breakpoints' \in [1..n -> Installed] /\ arrivals' \in [1..n -> Nat]
  BY <1>2, <1>4
<1>6. /\ breakpoints' \in Seq(Installed) /\ arrivals' \in Seq(Nat)
      /\ Len(arrivals') = Len(breakpoints') /\ DOMAIN breakpoints' = 1..n
  BY <1>3, <1>5, TableIsSeq
<1>7. \A i \in 1..n : breakpoints'[i].hits = 0 /\ arrivals'[i] = 0
  BY <1>2
<1>8. CountInv'
  BY <1>6, <1>7 DEF CountInv, HitsNeverDrift
<1>9. StackInv'
  BY <1>1 DEF IInv, StackInv
<1>10. RecordInv'
  <2>1. \A i : History(i)' = History(i)
    BY <1>1 DEF History
  <2> QED  BY <1>1, <2>1 DEF IInv, RecordInv, HistoryLosesNothing, Depth
<1> QED  BY <1>8, <1>9, <1>10 DEF IInv

LEMMA NextKeeps ==
  ASSUME IInv, [Next]_vars
  PROVE  IInv'
<1>1. frames \in Seq(LiveFrame) /\ Len(frames) \in Nat
  BY LenProperties DEF IInv, StackInv
<1>2. ASSUME UNCHANGED frames,
             UNCHANGED <<next_serial, sat_at, seen, breakpoints, arrivals>>,
             phase' # "over" => frames # <<>>
      PROVE  IInv'
  BY <1>1, <1>2, MoveKeeps
<1>3. CASE SetBreakpoints
  BY <1>3, SetBreakpointsKeeps
<1>4. ASSUME NEW mode, NEW fine, Resume(mode, fine) PROVE IInv'
  BY <1>2, <1>4 DEF Resume, IInv, StackInv
<1>5. CASE Look
  BY <1>5, LookKeeps
<1>6. CASE LookNowhere
  BY <1>2, <1>6 DEF LookNowhere, IInv, StackInv
<1>7. CASE Advance
  BY <1>7, AdvanceKeeps
<1>8. CASE Call
  BY <1>8, CallKeeps
<1>9. CASE Return
  BY <1>9, ReturnKeeps
<1>10. CASE Finish
  <2>1. /\ frames' = <<>> /\ phase' = "over"
        /\ UNCHANGED <<next_serial, sat_at, seen, breakpoints, arrivals>>
    <3>1. phase' = "over" /\ frames' = <<>>
      BY <1>10 DEF Finish
    <3>2. UNCHANGED <<next_serial, sat_at, breakpoints, arrivals, seen>>
      BY <1>10 DEF Finish
    <3> QED  BY <3>1, <3>2
  <2>2. frames' \in Seq(LiveFrame) /\ Len(frames') = 0 /\ 1..Len(frames') = {}
    BY <2>1
  <2> QED  BY <1>1, <2>1, <2>2, MoveKeeps
<1>11. CASE Crash
  BY <1>2, <1>11 DEF Crash
<1>12. CASE UNCHANGED vars
  BY <1>2, <1>12 DEF vars, IInv, StackInv
<1> QED  BY <1>3, <1>4, <1>5, <1>6, <1>7, <1>8, <1>9, <1>10, <1>11, <1>12
         DEF Next, InLoop

LEMMA Inductive == Spec => []IInv
<1>1. IInv /\ [Next]_vars => IInv'
  BY NextKeeps
<1> QED  BY InitEstablishes, <1>1, PTL DEF Spec
-----------------------------------------------------------------------------
(* The theorems.                                                            *)

\* The machine's stack, the record and the counters keep their types.
THEOREM TypeCorrect == Spec => []TypeOK
<1>1. IInv => TypeOK
  BY DEF IInv, StackInv, RecordInv, CountInv, TypeOK
<1> QED  BY Inductive, <1>1, PTL

\* Whatever calls come and go, for every live frame the record says exactly
\* where that frame has been: cutting it to the live stack loses nothing.
THEOREM RecordIsWhole == Spec => []HistoryLosesNothing
<1>1. IInv => HistoryLosesNothing
  BY DEF IInv, RecordInv
<1> QED  BY Inductive, <1>1, PTL

\* No breakpoint is counted twice for a frame instance, and the first one in
\* the list is counted each time a frame first comes to it.
THEOREM HitsAreArrivals == Spec => []HitsNeverDrift
<1>1. IInv => HitsNeverDrift
  BY DEF IInv, CountInv
<1> QED  BY Inductive, <1>1, PTL
-----------------------------------------------------------------------------
(* What a step promises.  The frame a resume began in is known by its serial: *)
(* no other frame can have it, so that frame is alive exactly when it is at   *)
(* the depth the resume began at.                                             *)

Begun ==
  phase \in {"look", "step"} =>
    /\ resumed.serial \in 1..next_serial
    /\ \A i \in 1..Len(frames) : frames[i].serial = resumed.serial => i = resumed.depth

\* The stop rule keeps the promise wherever it lets a resume stop.
LEMMA StopKeepsPromise ==
  ASSUME IInv, Begun, Look
  PROVE  StepsKeepTheirPromise'
<1> SUFFICES ASSUME StoppedBy("step")'
             PROVE  LET alive == \E i \in DOMAIN frames : frames[i].serial = resumed.serial
                    IN  /\ ~(Top.serial = resumed.serial /\ Top.at = resumed.at)
                        /\ resumed.mode = "StepOver" /\ alive => Top.serial = resumed.serial
                        /\ resumed.mode = "StepOut" => ~alive
                        /\ resumed.mode # "Continue"
  BY DEF Look, StepsKeepTheirPromise, Top, Depth
<1>1. /\ phase = "look" /\ frames \in Seq(LiveFrame) /\ frames # <<>>
      /\ \A i \in 1..Len(frames) : frames[i].serial = resumed.serial => i = resumed.depth
  BY DEF Look, IInv, StackInv, Begun
<1>2. /\ DOMAIN frames = 1..Len(frames) /\ Len(frames) \in Nat /\ Depth \in 1..Len(frames)
      /\ Depth = Len(frames)
  BY <1>1, EmptySeq, LenProperties DEF Depth
<1>3. /\ resumed.mode # "Continue" /\ resumed.mode # "Entry" /\ StopRule(Moved)
  BY DEF Look, StoppedBy, Stopped
<1>4. Top.serial = resumed.serial => Depth = resumed.depth
  BY <1>1, <1>2 DEF Top
<1>5. Depth = resumed.depth /\ Moved => Top.at # resumed.at
  BY DEF Moved
<1>6. \/ resumed.mode = "StepOver" /\ (Depth < resumed.depth \/ (Depth = resumed.depth /\ Moved))
      \/ resumed.mode = "StepIn" /\ (Moved \/ Depth # resumed.depth)
      \/ resumed.mode = "StepOut" /\ Depth < resumed.depth
  BY <1>3 DEF StopRule
<1>7. ASSUME NEW i \in DOMAIN frames, frames[i].serial = resumed.serial
      PROVE  i = resumed.depth /\ i <= Depth /\ resumed.depth \in Nat
  BY <1>1, <1>2, <1>7
<1>8. ~(Top.serial = resumed.serial /\ Top.at = resumed.at)
  <2>1. Depth < resumed.depth => Depth # resumed.depth
    BY <1>2
  <2> QED  BY <1>4, <1>5, <1>6, <2>1
<1>9. ASSUME NEW i \in DOMAIN frames, frames[i].serial = resumed.serial
      PROVE  ~(Depth < resumed.depth)
  BY <1>2, <1>7, <1>9
<1>10. ASSUME resumed.mode = "StepOver", NEW i \in DOMAIN frames,
              frames[i].serial = resumed.serial
       PROVE  Top.serial = resumed.serial
  <2>1. Depth = resumed.depth
    BY <1>6, <1>9, <1>10
  <2> QED  BY <1>7, <1>10, <2>1 DEF Top
<1>11. ASSUME resumed.mode = "StepOut", NEW i \in DOMAIN frames,
              frames[i].serial = resumed.serial
       PROVE  FALSE
  BY <1>6, <1>9, <1>11
<1> QED  BY <1>3, <1>8, <1>10, <1>11

LEMMA PromiseNext ==
  ASSUME IInv, Begun, StepsKeepTheirPromise, [Next]_vars
  PROVE  Begun' /\ StepsKeepTheirPromise'
<1>t. frames \in Seq(LiveFrame) /\ Len(frames) \in Nat /\ next_serial \in Nat
  BY LenProperties DEF IInv, StackInv
\* Steps after which the loop is not left at a stop.
<1>m. ASSUME phase' # "paused" PROVE StepsKeepTheirPromise'
  BY <1>m DEF StepsKeepTheirPromise, StoppedBy
\* Steps of the machine that only drop frames.
<1>d. ASSUME phase = "step", Len(frames') \in Nat, Len(frames') <= Len(frames),
             \A i \in 1..Len(frames') : frames'[i].serial = frames[i].serial,
             UNCHANGED <<next_serial, resumed>>
      PROVE  Begun'
  <2>1. \A i \in 1..Len(frames') : i \in 1..Len(frames)
    BY <1>t, <1>d
  <2> QED  BY <1>d, <2>1 DEF Begun
<1>1. CASE SetBreakpoints
  BY <1>1 DEF SetBreakpoints, Begun, StepsKeepTheirPromise, StoppedBy, Top, Depth
<1>2. ASSUME NEW mode, NEW fine, Resume(mode, fine) PROVE Begun' /\ StepsKeepTheirPromise'
  <2>1. /\ phase = "paused" /\ phase' = "look"
        /\ resumed' = [mode |-> mode, fine |-> fine, depth |-> Depth, at |-> Top.at,
                       serial |-> Top.serial]
        /\ UNCHANGED <<frames, next_serial>>
    BY <1>2 DEF Resume
  <2>2. /\ frames # <<>> /\ Depth \in 1..Len(frames)
        /\ \A i \in 1..Len(frames) : frames[i].serial \in 1..next_serial
        /\ \A i, j \in 1..Len(frames) : i < j => frames[i].serial < frames[j].serial
    BY <1>t, <2>1, EmptySeq DEF IInv, StackInv, Depth
  <2>3. resumed'.serial = frames[Depth].serial /\ resumed'.depth = Depth
    BY <2>1 DEF Top
  <2>4. ASSUME NEW i \in 1..Len(frames), frames[i].serial = frames[Depth].serial
        PROVE  i = Depth
    <3>1. frames[i].serial \in Nat /\ frames[Depth].serial \in Nat /\ i \in Nat /\ Depth \in Nat
      BY <1>t, <2>2
    <3>2. ~(i < Depth) /\ ~(Depth < i)
      <4>1. i < Depth => frames[i].serial < frames[Depth].serial
        BY <2>2
      <4>2. Depth < i => frames[Depth].serial < frames[i].serial
        BY <2>2
      <4> QED  BY <2>4, <3>1, <4>1, <4>2
    <3> QED  BY <3>1, <3>2
  <2>5. Begun'
    BY <2>1, <2>2, <2>3, <2>4 DEF Begun
  <2> QED  BY <1>m, <2>1, <2>5
<1>3. CASE Look
  <2>1. Begun'
    BY <1>3 DEF Look, Begun
  <2> QED  BY <1>3, <2>1, StopKeepsPromise
<1>4. CASE LookNowhere
  BY <1>m, <1>4 DEF LookNowhere, Begun
<1>5. CASE Advance
  <2>1. phase = "step" /\ phase' = "look" /\ UNCHANGED <<next_serial, resumed>>
    BY <1>5 DEF Advance, Progress
  <2> QED  BY <1>d, <1>m, <1>t, <1>5, <2>1, AdvanceStack
<1>6. CASE Call
  <2>1. /\ phase = "step" /\ phase' = "look" /\ next_serial' = next_serial + 1
        /\ UNCHANGED resumed
    BY <1>6 DEF Call, Progress
  <2>2. PICK p \in Point : frames' = Append(frames, [serial |-> next_serial + 1, at |-> p])
    BY <1>6, <2>1 DEF Call
  <2>3. /\ Len(frames') = Len(frames) + 1 /\ frames'[Len(frames) + 1].serial = next_serial + 1
        /\ \A i \in 1..Len(frames) : frames'[i] = frames[i]
    BY <1>t, <2>2, AppendProperties
  <2>4. resumed.serial \in 1..next_serial
    BY <2>1 DEF Begun
  <2>5. ASSUME NEW i \in 1..Len(frames'), frames'[i].serial = resumed.serial
        PROVE  i = resumed.depth
    <3>1. i # Len(frames) + 1
      BY <1>t, <2>3, <2>4, <2>5
    <3>2. i \in 1..Len(frames)
      BY <1>t, <2>3, <3>1
    <3> QED  BY <2>1, <2>3, <2>5, <3>2 DEF Begun
  <2>6. resumed.serial \in 1..(next_serial + 1)
    BY <1>t, <2>4
  <2>7. Begun'
    BY <2>1, <2>5, <2>6 DEF Begun
  <2> QED  BY <1>m, <2>1, <2>7
<1>7. CASE Return
  <2>1. phase = "step" /\ phase' = "look" /\ UNCHANGED <<next_serial, resumed>>
    BY <1>7 DEF Return, Progress
  <2>2. /\ frames' \in Seq(LiveFrame) /\ Len(frames') <= Len(frames)
        /\ \A i \in 1..Len(frames') : frames'[i].serial = frames[i].serial
    BY <1>7, ReturnStack
  <2>3. Len(frames') \in Nat
    BY <2>2, LenProperties
  <2> QED  BY <1>d, <1>m, <2>1, <2>2, <2>3
<1>8. CASE Finish \/ Crash
  <2>1. phase' = "over"
    BY <1>8 DEF Finish, Crash
  <2> QED  BY <1>m, <2>1 DEF Begun
<1>9. CASE UNCHANGED vars
  BY <1>9 DEF vars, Begun, StepsKeepTheirPromise, StoppedBy, Top, Depth
<1> QED  BY <1>1, <1>2, <1>3, <1>4, <1>5, <1>6, <1>7, <1>8, <1>9 DEF Next, InLoop

\* A resume that stops has got somewhere: a step ends at another place than it
\* began, `next` never in a call its frame made, `stepOut` only when that frame
\* is gone, however deep calls recurse and whichever serials come after.
THEOREM StepsEndElsewhere == Spec => []StepsKeepTheirPromise
<1>1. Init => Begun /\ StepsKeepTheirPromise
  <2> SUFFICES ASSUME Init PROVE Begun /\ StepsKeepTheirPromise
    OBVIOUS
  <2>1. phase = "paused" /\ resumed.serial = 0
    BY DEF Init
  <2> QED  BY <2>1 DEF Begun, StepsKeepTheirPromise
<1>2. IInv /\ Begun /\ StepsKeepTheirPromise /\ [Next]_vars
        => Begun' /\ StepsKeepTheirPromise'
  BY PromiseNext
<1> QED  BY Inductive, <1>1, <1>2, PTL DEF Spec
=============================================================================
