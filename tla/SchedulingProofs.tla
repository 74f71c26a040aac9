-------------------------- MODULE SchedulingProofs --------------------------
(***************************************************************************)
(* Proofs about where a request may run: when a node counts as available   *)
(* (Availability), for every timeout and every bound, and the plan made on *)
(* the nodes that do (Scheduler), for every number of nodes, every kind of *)
(* machine, and every round trip, queue depth and length of prompt.        *)
(*                                                                         *)
(* The scheduler is written with folds over sequences.  Induction over     *)
(* them is by Climb, from the well-foundedness of < on the naturals; a     *)
(* fold is taken apart by FoldExists and FoldPartial, once for each        *)
(* operator it defines, because a lemma about every step function of the   *)
(* library's FoldLeft would have an operator for a parameter.              *)
(***************************************************************************)
EXTENDS Availability, Scheduler, FiniteSetTheorems, WellFoundedInduction, TLAPS

(***************************************************************************)
(* Part 1: Availability.                                                   *)
(***************************************************************************)
-----------------------------------------------------------------------------
LEMMA Constants ==
  /\ Timeout \in Nat \ {0} /\ Interval \in Nat \ {0} /\ MaxPost \in Nat \ {0}
  /\ MaxStarts \in Nat /\ MaxFaults \in Nat /\ MaxSwaps \in Nat
BY AvailabilityAssumption

\* The time of so many turns of the loop.
Turns(m) == m * (Interval + MaxPost)

LEMMA TurnsAdd ==
  ASSUME NEW m \in Nat
  PROVE  /\ Turns(m) \in Nat /\ Turns(m + 1) = Turns(m) + Interval + MaxPost
         /\ m <= Turns(m)
<1>1. PICK p \in Nat : p = Interval + MaxPost /\ p >= 1 BY Constants
<1>2. m * p \in Nat /\ (m + 1) * p = m * p + p BY <1>1
<1>3. m * p = m + m * (p - 1) BY <1>1
<1>4. m * (p - 1) \in Nat
  <2>1. p - 1 \in Nat BY <1>1
  <2> QED BY <2>1
<1> QED BY <1>1, <1>2, <1>3, <1>4, Constants DEF Turns

\* What a tick of the controller leaves well typed.
LEMMA TickType ==
  ASSUME TypeOK, NEW state, NEW bar \in BOOLEAN, NEW shut \in BOOLEAN,
         TickFrom(state, bar, shut)
  PROVE  /\ gate' \in {"active", "paused"} /\ idled' \in BOOLEAN /\ closed' \in BOOLEAN
         /\ silent' \in 0 .. Long
<1>1. gate' \in {"active", "paused"} BY DEF TickFrom, GateAfter
<1>2. IsIdle(TRUE) \in BOOLEAN BY DEF IsIdle, TypeOK
<1>3. idled' \in BOOLEAN /\ closed' \in BOOLEAN BY <1>2 DEF TickFrom
<1>4. silent' \in 0 .. Long BY Constants DEF TickFrom, TypeOK, Long
<1> QED BY <1>1, <1>3, <1>4

\* The variables by what they are about, for the proof of TypeOK.
MachineOK ==
  /\ policy \in [idle_only : BOOLEAN, pause_on_user_activity : BOOLEAN]
  /\ machine \in [calm : BOOLEAN, quiet : BOOLEAN]
  /\ gate \in {"active", "paused"} /\ idled \in BOOLEAN /\ closed \in BOOLEAN

FlagsOK == updating \in BOOLEAN /\ up \in BOOLEAN /\ row \in BOOLEAN

NodeOK ==
  /\ proc \in {"off", "starting", "registered", "solo", "up"}
  /\ loop \in {"off", "due", "posting", "landed", "asleep", "dead"}
  /\ clock \in 0 .. Interval + MaxPost
  /\ flying \subseteq 0 .. MaxPost
  /\ loop = "asleep" => clock < Interval

RowOK ==
  /\ age \in 0 .. Expired /\ lead \in 0 .. Expired
  /\ touch \in {"registration", "heartbeat"}
  /\ missed \in 0 .. Timeout /\ silent \in 0 .. Long
  /\ starts \in 0 .. MaxStarts /\ faults \in 0 .. MaxFaults /\ swaps \in 0 .. MaxSwaps

Typed == MachineOK /\ FlagsOK /\ NodeOK /\ RowOK

LEMMA TypedIs == Typed => TypeOK
BY DEF Typed, MachineOK, FlagsOK, NodeOK, RowOK, TypeOK

LEMMA FlagsStep ==
  ASSUME Typed, [Next]_vars PROVE FlagsOK'
<1>0. updating \in BOOLEAN /\ up \in BOOLEAN /\ row \in BOOLEAN
  BY Zenon DEF Typed, FlagsOK
<1> USE <1>0 DEF FlagsOK, nodeVars, rowVars
<1>1. CASE Mood \/ Poll \/ UNCHANGED vars BY <1>1, Zenon DEF Mood, Poll, vars
<1>2. CASE Start \/ Register \/ RegisterFails
  BY <1>2, Zenon DEF Start, Register, RegisterFails, Upsert
<1>3. CASE Join \/ JoinFails \/ Stop BY <1>3, Zenon DEF Join, JoinFails, Stop, Ends
<1>4. CASE SwapBegins \/ SwapEnds BY <1>4, Zenon DEF SwapBegins, SwapEnds
<1>5. CASE Decide \/ Answered \/ Lost \/ LoopDies
  BY <1>5, Zenon DEF Decide, DecideOn, Answered, Lost, LoopDies
<1>6. CASE Tick BY <1>6, Zenon DEF Tick
<1>7. ASSUME NEW a \in 0 .. MaxPost, Lands(a) \/ Vanishes(a) PROVE FlagsOK'
  BY <1>7, Zenon DEF Lands, Vanishes
<1>8. CASE Outage \/ Recover \/ Wipe BY <1>8, Zenon DEF Outage, Recover, Wipe
<1> QED BY <1>1, <1>2, <1>3, <1>4, <1>5, <1>6, <1>7, <1>8 DEF Next

LEMMA MachineStep ==
  ASSUME Typed, [Next]_vars PROVE MachineOK'
<1> USE DEF Typed, MachineOK
<1>1. CASE Poll \/ Start
  <2>1. TickFrom(gate, idled, closed) \/ TickFrom("active", FALSE, FALSE)
    BY <1>1 DEF Poll, Start
  <2>2. /\ gate' \in {"active", "paused"} /\ idled' \in BOOLEAN /\ closed' \in BOOLEAN
    BY <2>1, TickType, TypedIs
  <2> QED BY <1>1, <2>2 DEF Poll, Start, machineVars
<1>2. CASE Mood BY <1>2 DEF Mood, gateVars
<1>3. CASE JoinFails \/ Stop BY <1>3 DEF JoinFails, Stop, Ends, machineVars
<1>4. CASE ~ (Poll \/ Start \/ Mood \/ JoinFails \/ Stop)
  <2>1. UNCHANGED <<policy, machine, gate, idled, closed>>
    BY <1>4 DEF Next, vars, machineVars, gateVars, Register, RegisterFails, Join, SwapBegins,
                SwapEnds, Decide, DecideOn, Answered, Lost, LoopDies, Tick, Lands, Vanishes,
                Outage, Recover, Wipe
  <2> QED BY <2>1
<1> QED BY <1>1, <1>2, <1>3, <1>4

LEMMA NodeStep ==
  ASSUME Typed, [Next]_vars PROVE NodeOK'
<1> USE Constants DEF Typed, NodeOK, nodeVars, loopVars
<1>0. {0} \subseteq 0 .. MaxPost /\ 0 \in 0 .. Interval + MaxPost /\ 0 < Interval
  OBVIOUS
<1>1. CASE Tick
  <2>1. clock' \in 0 .. Interval + MaxPost /\ (loop' = "asleep" => clock' < Interval)
    BY <1>1 DEF Tick
  <2>2. flying' \subseteq 0 .. MaxPost
    BY <1>1 DEF Tick
  <2> QED BY <1>1, <2>1, <2>2 DEF Tick
<1>2. CASE Decide
  <2>1. flying' \in {flying, flying \cup {0}} BY <1>2 DEF Decide, DecideOn
  <2>2. flying' \subseteq 0 .. MaxPost BY <1>0, <2>1
  <2> QED BY <1>0, <1>2, <2>2 DEF Decide, DecideOn
<1>3. CASE Answered \/ Lost \/ LoopDies
  <2>1. flying' \subseteq flying BY <1>3 DEF Answered, Lost, LoopDies
  <2> QED BY <1>0, <1>3, <2>1 DEF Answered, Lost, LoopDies
<1>4. ASSUME NEW a \in 0 .. MaxPost, Lands(a) \/ Vanishes(a) PROVE NodeOK'
  BY <1>4 DEF Lands, Vanishes
<1>5. CASE Start \/ Register \/ RegisterFails
  BY <1>5 DEF Start, Register, RegisterFails
<1>8. CASE Join \/ JoinFails \/ Stop
  BY <1>0, <1>8 DEF Join, JoinFails, Stop, Ends
<1>6. CASE SwapBegins \/ SwapEnds BY <1>6 DEF SwapBegins, SwapEnds
<1>7. CASE Mood \/ Poll \/ Outage \/ Recover \/ Wipe \/ UNCHANGED vars
  BY <1>7 DEF Mood, Poll, Outage, Recover, Wipe, vars
<1> QED BY <1>1, <1>2, <1>3, <1>4, <1>5, <1>6, <1>7, <1>8 DEF Next

LEMMA MissesType ==
  ASSUME RowOK, Misses PROVE missed' \in 0 .. Timeout /\ lead' \in 0 .. Expired
<1>1. missed + 1 \in Nat /\ missed + 1 <= Turns(missed + 1) /\ Turns(missed + 1) \in Nat
  BY TurnsAdd, Constants DEF RowOK
<1>2. ~ Explain(missed + 1) => missed + 1 <= Timeout
  BY <1>1, Constants DEF Explain, Turns
<1> QED BY <1>2, Constants DEF RowOK, Misses

LEMMA RowStep ==
  ASSUME Typed, [Next]_vars PROVE RowOK'
<1> USE Constants DEF RowOK, rowVars, history, counters, Expired, Long
<1> USE DEF Typed
<1>1. CASE Tick BY <1>1 DEF Tick, AtMost
<1>2. CASE Decide
  <2>1. missed' \in 0 .. Timeout /\ lead' \in 0 .. Expired
    BY <1>2, MissesType DEF Decide, DecideOn
  <2> QED BY <1>2, <2>1 DEF Decide, DecideOn
<1>3. CASE Lost
  <2>1. missed' \in 0 .. Timeout /\ lead' \in 0 .. Expired
    BY <1>3, MissesType DEF Lost
  <2> QED BY <1>3, <2>1 DEF Lost
<1>4. CASE Answered \/ LoopDies BY <1>4 DEF Answered, LoopDies
<1>5. ASSUME NEW a \in 0 .. MaxPost, Lands(a) \/ Vanishes(a) PROVE RowOK'
  BY <1>5 DEF Lands, Vanishes
<1>6. CASE Poll \/ Start
  <2>1. TickFrom(gate, idled, closed) \/ TickFrom("active", FALSE, FALSE)
    BY <1>6 DEF Poll, Start
  <2>2. silent' \in 0 .. Long
    <3>1. idled \in BOOLEAN /\ closed \in BOOLEAN BY DEF MachineOK
    <3> QED BY <2>1, <3>1, TickType, TypedIs
  <2>3. starts' \in 0 .. MaxStarts /\ UNCHANGED <<age, touch, missed, lead, faults, swaps>>
    <3>1. CASE Poll BY <3>1 DEF Poll
    <3>2. CASE Start BY <3>2 DEF Start
    <3> QED BY <1>6, <3>1, <3>2
  <2> QED BY <2>2, <2>3
<1>7. CASE Register BY <1>7 DEF Register, Upsert
<1>12. CASE RegisterFails
  <2>1. UNCHANGED rowVars \/ Upsert BY <1>12 DEF RegisterFails
  <2>2. age' \in 0 .. Timeout + 1 /\ touch' \in {"registration", "heartbeat"}
    BY <2>1 DEF Upsert
  <2> QED BY <1>12, <2>2 DEF RegisterFails
<1>13. CASE Join BY <1>13 DEF Join
<1>8. CASE JoinFails \/ Stop BY <1>8 DEF JoinFails, Stop, Ends
<1>9. CASE SwapBegins \/ SwapEnds BY <1>9 DEF SwapBegins, SwapEnds
<1>10. CASE Mood \/ UNCHANGED vars BY <1>10 DEF Mood, vars
<1>11. CASE Outage
  <2>1. faults' \in 0 .. MaxFaults BY <1>11 DEF Outage
  <2>2. UNCHANGED <<age, lead, touch, missed, silent, starts, swaps>> BY <1>11 DEF Outage
  <2> QED BY <2>1, <2>2
<1>14. CASE Recover
  <2>1. UNCHANGED <<age, lead, touch, missed, silent, starts, faults, swaps>>
    BY <1>14 DEF Recover
  <2> QED BY <2>1
<1>15. CASE Wipe
  <2>1. /\ faults' \in 0 .. MaxFaults /\ age' \in 0 .. Timeout + 1 /\ touch' = "registration"
        /\ UNCHANGED <<lead, missed, silent, starts, swaps>>
    BY <1>15 DEF Wipe
  <2> QED BY <2>1
<1> QED
  BY <1>1, <1>2, <1>3, <1>4, <1>5, <1>6, <1>7, <1>8, <1>9, <1>10, <1>11, <1>12, <1>13,
     <1>14, <1>15 DEF Next

LEMMA AlwaysTyped == Spec => []Typed
<1>1. Init => Typed
  <2> SUFFICES ASSUME Init PROVE Typed OBVIOUS
  <2>1. FlagsOK BY Zenon DEF Init, FlagsOK
  <2>2. MachineOK BY DEF Init, MachineOK
  <2>3. NodeOK BY Constants DEF Init, NodeOK
  <2>4. RowOK BY Constants DEF Init, RowOK, Expired, Long
  <2> QED BY <2>1, <2>2, <2>3, <2>4 DEF Typed
<1>2. Typed /\ [Next]_vars => Typed'
  BY MachineStep, FlagsStep, NodeStep, RowStep DEF Typed
<1> QED BY <1>1, <1>2, PTL DEF Spec

\* Every reachable state of the node and of its row is well typed.
THEOREM TypeCorrect == Spec => []TypeOK
BY AlwaysTyped, TypedIs, PTL

-----------------------------------------------------------------------------
\* A tick opens the gate at the full idle bar, or leaves it open as the policy
\* and the history allow.
LEMMA TickResumes ==
  ASSUME TypeOK, UNCHANGED policy, NEW state \in {"active", "paused"},
         NEW bar \in BOOLEAN, NEW shut \in BOOLEAN, TickFrom(state, bar, shut),
         policy.idle_only /\ state = "active" /\ (shut \/ policy.pause_on_user_activity) => bar
  PROVE  (/\ policy'.idle_only /\ gate' = "active"
          /\ closed' \/ policy'.pause_on_user_activity) => idled'
<1> SUFFICES ASSUME policy.idle_only, gate' = "active", ~idled',
                    closed' \/ policy.pause_on_user_activity
             PROVE  FALSE
  BY DEF TypeOK
<1>1. ~IsIdle(TRUE) /\ ~bar
  BY DEF TickFrom
<1>2. IsIdle(state = "paused" \/ policy.pause_on_user_activity)
  BY DEF TickFrom, GateAfter
<1>3. state = "active" /\ ~policy.pause_on_user_activity
  BY <1>1, <1>2 DEF IsIdle
<1>4. shut
  BY <1>3 DEF TickFrom
<1> QED BY <1>1, <1>3, <1>4

LEMMA ResumesStep ==
  ASSUME TypeOK, ResumesOnlyAfterIdle, [Next]_vars PROVE ResumesOnlyAfterIdle'
<1> USE DEF vars, machineVars, gateVars, nodeVars, rowVars, counters
<1>1. CASE Poll
  <2>1. TickFrom(gate, idled, closed) /\ UNCHANGED <<policy, proc>> /\ proc # "off"
    BY <1>1 DEF Poll
  <2>2. idled \in BOOLEAN /\ closed \in BOOLEAN /\ gate \in {"active", "paused"}
    BY DEF TypeOK
  <2>3. policy.idle_only /\ gate = "active" /\ (closed \/ policy.pause_on_user_activity)
          => idled
    BY <2>1 DEF ResumesOnlyAfterIdle
  <2> QED BY <2>1, <2>2, <2>3, TickResumes DEF ResumesOnlyAfterIdle
<1>2. CASE Start
  <2>1. TickFrom("active", FALSE, FALSE) /\ UNCHANGED policy
    BY <1>2 DEF Start
  <2>2. policy.pause_on_user_activity => IsIdle(TRUE) \/ gate' = "paused" \/ ~policy.idle_only
    BY <2>1 DEF TickFrom, GateAfter, IsIdle
  <2> QED BY <2>1, <2>2 DEF ResumesOnlyAfterIdle, TickFrom, GateAfter
<1>3. CASE JoinFails \/ Stop
  BY <1>3 DEF JoinFails, Stop, Ends, ResumesOnlyAfterIdle
<1>4. CASE ~ (Poll \/ Start \/ JoinFails \/ Stop)
  <2>1. UNCHANGED <<policy, gate, idled, closed>>
    BY <1>4 DEF Next, Mood, Register, RegisterFails, Join, SwapBegins, SwapEnds, Decide,
                DecideOn, Answered, Lost, LoopDies, Tick, Lands, Vanishes, Outage, Recover, Wipe
  <2>2. proc = "off" => proc' = "off"
    BY <1>4 DEF Next, Mood, Register, RegisterFails, Join, SwapBegins, SwapEnds, Decide,
                DecideOn, Answered, Lost, LoopDies, Tick, Lands, Vanishes, Outage, Recover, Wipe
  <2> QED BY <2>1, <2>2 DEF ResumesOnlyAfterIdle
<1> QED BY <1>1, <1>2, <1>3, <1>4

\* An idle_only node that was closed once, or pauses for its user, contributes
\* again only after the machine met the full idle bar.
THEOREM Resumes == Spec => []ResumesOnlyAfterIdle
<1>1. Init => ResumesOnlyAfterIdle BY DEF Init, ResumesOnlyAfterIdle
<1>2. TypeOK /\ ResumesOnlyAfterIdle /\ [Next]_vars => ResumesOnlyAfterIdle'
  BY ResumesStep
<1> QED BY <1>1, <1>2, TypeCorrect, PTL DEF Spec

-----------------------------------------------------------------------------
\* How old the row of a node that is up may be at each place of its loop.
Paced ==
  /\ loop = "due" => age <= lead + Turns(missed + 1)
  /\ loop = "posting" => age <= lead + Turns(missed + 1) + clock
  /\ loop = "landed" => age <= clock
  /\ loop = "asleep" => age <= lead + Turns(missed) + MaxPost + clock

\* The turns that passed are counted until they explain enough.
AgeCounted ==
  /\ loop # "off" <=> proc = "up"
  /\ loop \in {"posting", "landed"} => clock <= MaxPost
  /\ proc = "up" /\ loop # "dead" /\ row => Explain(missed + 1) \/ Paced

\* What the proofs below need of the types.
LEMMA Numbers ==
  ASSUME Typed
  PROVE  /\ age \in Nat /\ lead \in Nat /\ clock \in Nat /\ missed \in Nat /\ silent \in Nat
         /\ age <= Expired
BY Constants DEF Typed, NodeOK, RowOK, Expired, Long

\* A turn that goes by without a heartbeat.
LEMMA MissCounted ==
  ASSUME Typed, Misses, loop' = "asleep", clock' = 0, age' = age,
         Explain(missed + 1) \/ age <= lead + Turns(missed + 1) + MaxPost
  PROVE  (Explain(missed + 1) \/ Paced)'
<1>1. CASE Explain(missed + 1) BY <1>1 DEF Misses, Explain
<1>2. CASE ~ Explain(missed + 1)
  <2>1. missed' = missed + 1 /\ lead' = lead BY <1>2 DEF Misses
  <2>2. Turns(missed') \in Nat BY <2>1, Numbers, TurnsAdd
  <2> QED BY <1>2, <2>1, <2>2, Numbers, Constants DEF Paced, Turns
<1> QED BY <1>1, <1>2

LEMMA AgeStep ==
  ASSUME Typed, AgeCounted, [Next]_vars PROVE AgeCounted'
<1>a. /\ Turns(missed) \in Nat /\ Turns(missed + 1) \in Nat
      /\ Turns(missed + 1) = Turns(missed) + Interval + MaxPost
  BY Numbers, TurnsAdd
<1>b. /\ MaxPost \in Nat \ {0} /\ Interval \in Nat \ {0}
      /\ age \in Nat /\ lead \in Nat /\ clock \in Nat
  BY Numbers, Constants
<1>1. CASE Tick
  <2>1. /\ UNCHANGED <<proc, row, missed, lead>> /\ age' \in Nat /\ age' <= age + 1
        /\ loop # "due" /\ (loop \in {"posting", "landed"} => clock < MaxPost)
    BY <1>1, <1>b, Constants DEF Tick, AtMost, Expired
  <2>2. CASE loop = "asleep" /\ clock + 1 = Interval
    <3>1. loop' = "due" /\ clock' = 0 BY <1>1, <2>2 DEF Tick
    <3> QED BY <1>a, <1>b, <2>1, <2>2, <3>1 DEF AgeCounted, Paced, Explain, Turns
  <2>3. CASE ~ (loop = "asleep" /\ clock + 1 = Interval)
    <3>1. loop' = loop /\ clock' = IF loop \in {"off", "dead"} THEN clock ELSE clock + 1
      BY <1>1, <2>3 DEF Tick
    <3> QED BY <1>a, <1>b, <2>1, <2>3, <3>1 DEF AgeCounted, Paced, Explain, Turns
  <2> QED BY <2>2, <2>3
<1>2. CASE Decide
  <2>1. loop = "due" /\ clock' = 0 /\ UNCHANGED <<proc, age, row>>
    BY <1>2 DEF Decide, DecideOn, rowVars
  <2>2. CASE Available
    <3>1. loop' = "posting" /\ UNCHANGED <<missed, lead>>
      BY <1>2, <2>2 DEF Decide, DecideOn
    <3> QED BY <1>a, <1>b, <2>1, <3>1 DEF AgeCounted, Paced, Explain, Turns
  <2>3. CASE ~ Available
    <3>1. loop' = "asleep" /\ Misses BY <1>2, <2>3 DEF Decide, DecideOn
    <3>2. proc = "up" /\ row => (Explain(missed + 1) \/ Paced)'
      BY <1>a, <1>b, <2>1, <3>1, MissCounted DEF AgeCounted, Paced
    <3> QED BY <2>1, <3>1, <3>2 DEF AgeCounted
  <2> QED BY <2>2, <2>3
<1>3. CASE Lost
  <2>1. /\ loop = "posting" /\ loop' = "asleep" /\ clock' = 0 /\ UNCHANGED <<proc, age, row>>
        /\ Misses
    BY <1>3 DEF Lost, rowVars
  <2>2. proc = "up" /\ row => (Explain(missed + 1) \/ Paced)'
    BY <1>a, <1>b, <2>1, MissCounted DEF AgeCounted, Paced
  <2> QED BY <2>1, <2>2 DEF AgeCounted
<1>4. CASE Answered
  <2>1. /\ loop = "landed" /\ loop' = "asleep" /\ clock' = 0
        /\ UNCHANGED <<proc, age, row, missed, lead>>
    BY <1>4 DEF Answered, rowVars, history
  <2> QED BY <1>a, <1>b, <2>1 DEF AgeCounted, Paced, Explain, Turns
<1>5. ASSUME NEW a \in 0 .. MaxPost, Lands(a) PROVE AgeCounted'
  <2>1. /\ UNCHANGED <<proc, clock, row>>
        /\ loop' \in {loop, "landed"} /\ (loop' # loop => loop = "posting")
        /\ row => age' = 0 /\ missed' = 0 /\ lead' = 0
    BY <1>5 DEF Lands, Awaited
  <2>2. Turns(0) \in Nat /\ Turns(0 + 1) \in Nat BY TurnsAdd
  <2>3. row => Paced'
    BY <1>b, <2>1, <2>2 DEF Paced, Turns
  <2> QED BY <2>1, <2>3 DEF AgeCounted
<1>6. CASE Join
  <2>1. /\ loop' = "due" /\ clock' = 0 /\ lead' = age /\ age' = age /\ missed' = 0
        /\ proc' = "up"
    BY <1>6 DEF Join, rowVars
  <2>2. Turns(0 + 1) \in Nat BY TurnsAdd
  <2> QED BY <1>b, <2>1, <2>2 DEF AgeCounted, Paced, Turns
<1>7. CASE LoopDies
  BY <1>7 DEF LoopDies, AgeCounted, rowVars, history
<1>8. CASE Start \/ Register \/ RegisterFails
  BY <1>8 DEF Start, Register, RegisterFails, AgeCounted, loopVars
<1>9. CASE JoinFails \/ Stop
  BY <1>9 DEF JoinFails, Stop, Ends, AgeCounted
<1>10. CASE Wipe
  BY <1>10 DEF Wipe, AgeCounted, nodeVars, loopVars
<1>11. ASSUME UNCHANGED <<proc, loop, clock, row, age, missed, lead>> PROVE AgeCounted'
  BY <1>11 DEF AgeCounted, Paced, Explain, Turns
<1>12. ASSUME NEW a \in 0 .. MaxPost, Vanishes(a) PROVE AgeCounted'
  BY <1>11, <1>12 DEF Vanishes, rowVars, history
<1>13. CASE Mood \/ Poll \/ SwapBegins \/ SwapEnds \/ Outage \/ Recover \/ UNCHANGED vars
  BY <1>11, <1>13 DEF Mood, Poll, SwapBegins, SwapEnds, Outage, Recover, vars, nodeVars,
                      loopVars, rowVars, history
<1> QED
  BY <1>1, <1>2, <1>3, <1>4, <1>5, <1>6, <1>7, <1>8, <1>9, <1>10, <1>12, <1>13 DEF Next

\* A node that is up and whose loop runs is off the list only after enough
\* turns without a heartbeat, whatever the time a POST takes.
THEOREM Explained == Spec => []AbsenceExplained
<1>1. Init => AgeCounted BY DEF Init, AgeCounted
<1>2. Typed /\ AgeCounted /\ [Next]_vars => AgeCounted' BY AgeStep
<1>3. Typed /\ AgeCounted => AbsenceExplained
  <2> SUFFICES ASSUME Typed, AgeCounted, proc = "up", loop # "dead", row, ~Listed
               PROVE  lead + MaxPost + (missed + 1) * (Interval + MaxPost) > Timeout
    BY DEF AbsenceExplained
  <2>1. /\ Turns(missed) \in Nat /\ Turns(missed + 1) \in Nat
        /\ Turns(missed + 1) = Turns(missed) + Interval + MaxPost
    BY Numbers, TurnsAdd
  <2>2. age > Timeout BY Numbers, Constants DEF Listed
  <2>3. lead + MaxPost + Turns(missed + 1) > Timeout
    <3>1. CASE Explain(missed + 1)
      <4>1. Turns(missed + 1) > Timeout BY <3>1 DEF Explain, Turns
      <4> QED BY <2>1, <4>1, Numbers, Constants
    <3>2. CASE Paced
      <4>1. /\ loop \in {"due", "posting", "landed", "asleep"}
            /\ loop = "asleep" => clock < Interval
        BY <3>2 DEF AgeCounted, Typed, NodeOK
      <4> QED BY <2>1, <2>2, <3>2, <4>1, Numbers, Constants DEF Paced, AgeCounted
    <3> QED BY <3>1, <3>2 DEF AgeCounted
  <2> QED BY <2>3 DEF Turns
<1> QED BY <1>1, <1>2, <1>3, AlwaysTyped, PTL DEF Spec

-----------------------------------------------------------------------------
\* Silence is no older than a request under way, nor, by more than the time of
\* a POST, than a row that a heartbeat touched: both were decided on while the
\* node was available.
OlderThanSilence ==
  /\ loop # "off" \/ updating => proc = "up"
  /\ Available => silent = 0
  /\ \A a \in flying : silent <= a
  /\ row /\ touch = "heartbeat" => silent <= age + MaxPost

LEMMA SilenceStep ==
  ASSUME Typed, OlderThanSilence, [Next]_vars PROVE OlderThanSilence'
<1> USE DEF OlderThanSilence
<1>a. /\ age \in Nat /\ silent \in Nat /\ MaxPost \in Nat /\ Timeout \in Nat
      /\ flying \subseteq 0 .. MaxPost /\ age <= Timeout + 1
  BY Numbers, Constants DEF Typed, NodeOK, Expired
<1>1. CASE Poll
  <2>1. /\ UNCHANGED <<proc, updating, loop, flying, row, age, touch>>
        /\ silent' = IF proc = "up" /\ gate' = "active" /\ ~updating THEN 0 ELSE silent
    BY <1>1 DEF Poll, TickFrom, nodeVars, loopVars, rowVars
  <2> QED BY <1>a, <2>1 DEF Available
<1>13. CASE Start
  <2>1. /\ UNCHANGED <<loop, flying, row, age, touch>>
        /\ proc = "off" /\ proc' = "starting" /\ updating' = FALSE
    BY <1>13 DEF Start, loopVars, rowVars
  <2>2. silent' = silent
    BY <1>13, <2>1 DEF Start, TickFrom
  <2> QED BY <2>1, <2>2 DEF Available
<1>2. CASE Tick
  <2>1. /\ UNCHANGED <<proc, updating, gate, row, touch>>
        /\ age' = AtMost(age + 1, Timeout + 1)
        /\ flying' = {a + 1 : a \in flying}
        /\ silent' = (IF Available THEN 0 ELSE AtMost(silent + 1, Timeout + MaxPost + 1))
        /\ loop' # "off" => loop # "off"
    BY <1>2 DEF Tick, Expired, Long, gateVars
  <2>2. silent' \in Nat /\ silent' <= silent + 1 /\ silent' <= Timeout + MaxPost + 1
    BY <1>a, <2>1 DEF AtMost
  <2>3. ASSUME NEW a \in flying' PROVE silent' <= a
    <3>1. PICK b \in flying : a = b + 1 BY <2>1
    <3>2. silent <= b /\ b \in Nat BY <1>a
    <3> QED BY <1>a, <2>2, <3>1, <3>2
  <2>4. (row /\ touch = "heartbeat")' => silent' <= age' + MaxPost
    BY <1>a, <2>1, <2>2 DEF AtMost
  <2>5. Available' => silent' = 0
    BY <2>1 DEF Available
  <2> QED BY <2>1, <2>3, <2>4, <2>5
<1>3. CASE Decide
  <2>1. /\ UNCHANGED <<proc, updating, gate, row, age, touch, silent>>
        /\ loop = "due" /\ flying' \in {flying, flying \cup {0}}
        /\ flying' # flying => Available
    BY <1>3 DEF Decide, DecideOn, gateVars, rowVars
  <2> QED BY <1>a, <2>1 DEF Available
<1>4. ASSUME NEW a \in 0 .. MaxPost, Lands(a) PROVE OlderThanSilence'
  <2>1. /\ UNCHANGED <<proc, updating, gate, row, silent>> /\ a \in flying
        /\ flying' = flying \ {a} /\ (loop' # "off" => loop # "off")
        /\ row => age' = 0
    BY <1>4 DEF Lands, Awaited, gateVars
  <2>2. silent <= a /\ a <= MaxPost BY <2>1
  <2> QED BY <1>a, <2>1, <2>2 DEF Available
<1>5. CASE Register \/ RegisterFails
  <2>1. /\ UNCHANGED <<updating, loop, flying, silent>>
        /\ proc = "starting" /\ proc' \in {"registered", "solo"}
        /\ touch' = "registration" \/ UNCHANGED <<row, age, touch>>
    BY <1>5 DEF Register, RegisterFails, Upsert, loopVars, history, rowVars
  <2> QED BY <2>1 DEF Available
<1>6. CASE Join
  <2>1. /\ UNCHANGED <<updating, gate, flying, row, age, touch>> /\ proc' = "up"
        /\ silent' = IF gate = "active" THEN 0 ELSE silent
    BY <1>6 DEF Join, gateVars, rowVars
  <2> QED BY <1>a, <2>1 DEF Available
<1>7. CASE JoinFails \/ Stop
  <2>1. /\ proc' = "off" /\ ~updating' /\ loop' = "off"
        /\ UNCHANGED <<flying, row, age, touch, silent>>
    BY <1>7 DEF JoinFails, Stop, Ends, rowVars
  <2> QED BY <2>1 DEF Available
<1>8. CASE SwapBegins \/ SwapEnds
  <2>1. /\ UNCHANGED <<proc, gate, loop, flying, row, age, touch>> /\ updating' \in BOOLEAN
        /\ SwapBegins => updating' /\ proc = "up" /\ silent' = silent
        /\ SwapEnds => updating /\ ~updating'
        /\ SwapEnds => silent' = IF gate = "active" THEN 0 ELSE silent
    BY <1>8 DEF SwapBegins, SwapEnds, gateVars, loopVars, rowVars, history
  <2> QED BY <1>8, <1>a, <2>1 DEF Available
<1>9. CASE Answered \/ Lost \/ LoopDies
  <2>1. /\ UNCHANGED <<proc, updating, gate, row, age, touch, silent>>
        /\ flying' \subseteq flying /\ loop # "off"
    BY <1>9 DEF Answered, Lost, LoopDies, gateVars, rowVars, history
  <2> QED BY <2>1 DEF Available
<1>10. ASSUME NEW a \in 0 .. MaxPost, Vanishes(a) PROVE OlderThanSilence'
  <2>1. /\ UNCHANGED <<proc, updating, gate, loop, row, age, touch, silent>>
        /\ flying' \subseteq flying
    BY <1>10 DEF Vanishes, gateVars, rowVars, history
  <2> QED BY <2>1 DEF Available
<1>11. CASE Mood \/ Outage \/ Recover \/ UNCHANGED vars
  <2>1. UNCHANGED <<proc, updating, gate, loop, flying, row, age, touch, silent>>
    BY <1>11 DEF Mood, Outage, Recover, vars, gateVars, nodeVars, loopVars, rowVars, history
  <2> QED BY <2>1 DEF Available
<1>12. CASE Wipe
  <2>1. /\ UNCHANGED <<proc, updating, gate, loop, flying, silent>>
        /\ touch' = "registration"
    BY <1>12 DEF Wipe, gateVars, nodeVars, loopVars, history
  <2> QED BY <2>1 DEF Available
<1> QED
  BY <1>1, <1>2, <1>3, <1>4, <1>5, <1>6, <1>7, <1>8, <1>9, <1>10, <1>11, <1>12,
     <1>13 DEF Next

\* A node that has been unavailable for the timeout and the time of a POST is
\* not listed, unless by its registration, although nothing withdraws it and a
\* heartbeat may land after it paused, updated or ended.
THEOREM Fades == Spec => []FadesInTime
<1>1. Init => OlderThanSilence BY DEF Init, OlderThanSilence, Available
<1>2. Typed /\ OlderThanSilence /\ [Next]_vars => OlderThanSilence' BY SilenceStep
<1>3. Typed /\ OlderThanSilence => FadesInTime
  <2>1. Typed => touch \in {"registration", "heartbeat"} BY DEF Typed, RowOK
  <2> QED BY <2>1, Numbers, Constants DEF OlderThanSilence, FadesInTime, Listed
<1> QED BY <1>1, <1>2, <1>3, AlwaysTyped, PTL DEF Spec

(***************************************************************************)
(* Part 2: Scheduler.  Ranges of positions, and folds.                     *)
(***************************************************************************)
\* A set of numbers has a least member.
LEMMA LeastMember ==
  ASSUME NEW S \in SUBSET Nat, S # {}
  PROVE  \E m \in S : \A k \in S : m <= k
<1> DEFINE R == OpToRel(<, Nat)
<1>1. IsWellFoundedOn(R, Nat)
  BY NatLessThanWellFounded
<1>2. \A k, m \in Nat : k < m => <<k, m>> \in R
  BY DEF OpToRel
<1> HIDE DEF R
<1>3. PICK m \in S : \A k \in S : ~ (<<k, m>> \in R)
  BY <1>1, WFMin, Zenon
<1>4. \A k \in S : ~ (k < m)
  BY <1>2, <1>3, Zenon
<1>5. \A k \in S : m <= k
  BY <1>4
<1> QED  BY <1>5

\* What holds at 0 and passes from a number to the next holds at every number
\* of a range; S is the set of numbers where it holds.
LEMMA Climb ==
  ASSUME NEW n \in Nat, NEW S, 0 \in S, \A k \in 0 .. n - 1 : k \in S => k + 1 \in S
  PROVE  0 .. n \subseteq S
<1> DEFINE T == {k \in 0 .. n : k \notin S}
<1> SUFFICES ASSUME T # {} PROVE FALSE
  OBVIOUS
<1>0. T \in SUBSET Nat
  OBVIOUS
<1> HIDE DEF T
<1>1. PICK m \in T : \A k \in T : m <= k
  BY <1>0, LeastMember
<1> USE DEF T
<1>2. m - 1 \in 0 .. n - 1 /\ m - 1 \notin T
  BY <1>1
<1> QED  BY <1>1, <1>2

\* The greatest of a nonempty range of positions is one of them.
LEMMA Greatest ==
  ASSUME NEW n \in Nat, NEW S \in SUBSET (1 .. n), S # {}
  PROVE  Max(S) \in S /\ \A k \in S : Max(S) >= k
<1> DEFINE T == {n - k : k \in S}
<1>0. T \in SUBSET Nat /\ T # {}
  <2>1. \A k \in S : n - k \in Nat
    OBVIOUS
  <2> QED  BY <2>1
<1> HIDE DEF T
<1>1. PICK t \in T : \A u \in T : t <= u
  BY <1>0, LeastMember
<1> USE DEF T
<1>2. PICK m \in S : t = n - m
  BY <1>1
<1>3. \A k \in S : m >= k
  BY <1>1, <1>2
<1> QED  BY <1>3 DEF Max


\* A range of positions and the one above it.
LEMMA Prefix ==
  ASSUME NEW n \in Nat, NEW k \in 0 .. n - 1
  PROVE  /\ 1 .. k \in SUBSET (1 .. n) /\ 1 .. k + 1 \in SUBSET (1 .. n) /\ 1 .. k + 1 # {}
         /\ Max(1 .. k + 1) = k + 1
         /\ (1 .. k + 1) \ {k + 1} = 1 .. k
<1>1. 1 .. k \in SUBSET (1 .. n) /\ 1 .. k + 1 \in SUBSET (1 .. n) /\ k + 1 \in 1 .. k + 1
  OBVIOUS
<1> DEFINE m == Max(1 .. k + 1)
<1>2. m \in 1 .. k + 1 /\ \A j \in 1 .. k + 1 : m >= j
  BY <1>1, Greatest
<1> HIDE DEF m
<1>3. m = k + 1
  BY <1>1, <1>2
<1>4. (1 .. k + 1) \ {k + 1} = 1 .. k
  OBVIOUS
<1> QED  BY <1>1, <1>3, <1>4 DEF m

(* FoldLeft, for a step f[k] that the k-th element of a sequence takes on a *)
(* set A of accumulators: the function it is defined by exists.             *)
Steps(n, A, f) == \A k \in 1 .. n : \A a \in A : f[k][a] \in A

IsFold(g, n, base, A, f) ==
  /\ g \in [SUBSET (1 .. n) -> A]
  /\ \A s \in SUBSET (1 .. n) : g[s] = IF s = {} THEN base ELSE f[Max(s)][g[s \ {Max(s)}]]

\* A function that folds as the steps of f do exists.
LEMMA FoldExists ==
  ASSUME NEW n \in Nat, NEW A, NEW base \in A, NEW f, Steps(n, A, f)
  PROVE  \E g : IsFold(g, n, base, A, f)
<1> USE DEF Steps
<1> DEFINE S == {k \in Nat : k <= n => \E g : IsFold(g, k, base, A, f)}
<1>1. 0 \in S
  <2> DEFINE g == [s \in SUBSET (1 .. 0) |-> base]
  <2>1. SUBSET (1 .. 0) = {{}}
    OBVIOUS
  <2>2. IsFold(g, 0, base, A, f)
    BY <2>1 DEF IsFold
  <2> QED  BY <2>2
<1>2. ASSUME NEW k \in 0 .. n - 1, k \in S
      PROVE  k + 1 \in S
  <2>1. PICK g : IsFold(g, k, base, A, f)
    BY <1>2
  <2> DEFINE h == [s \in SUBSET (1 .. k + 1) |->
                     IF k + 1 \in s THEN f[k + 1][g[s \ {k + 1}]] ELSE g[s]]
  <2>2. ASSUME NEW s \in SUBSET (1 .. k + 1)
        PROVE  h[s] \in A /\ h[s] = IF s = {} THEN base ELSE f[Max(s)][h[s \ {Max(s)}]]
    <3>1. CASE s = {}
      <4>1. s \in SUBSET (1 .. k) /\ k + 1 \notin s
        BY <3>1
      <4>2. g[s] = base
        BY <2>1, <3>1, <4>1 DEF IsFold
      <4> QED  BY <3>1, <4>1, <4>2
    <3>2. CASE s # {} /\ k + 1 \notin s
      <4>1. s \in SUBSET (1 .. k)
        BY <3>2
      <4>2. s \ {Max(s)} \in SUBSET (1 .. k) /\ k + 1 \notin s \ {Max(s)}
        BY <3>2, <4>1
      <4>3. s \ {Max(s)} \in SUBSET (1 .. k + 1)
        OBVIOUS
      <4>4. h[s] = g[s] /\ h[s \ {Max(s)}] = g[s \ {Max(s)}]
        BY <3>2, <4>1, <4>2, <4>3
      <4>5. g[s] \in A /\ g[s] = f[Max(s)][g[s \ {Max(s)}]]
        BY <2>1, <3>2, <4>1 DEF IsFold
      <4> QED  BY <3>2, <4>4, <4>5
    <3>3. CASE k + 1 \in s
      <4>1. Max(s) = k + 1
        <5>1. Max(s) \in s /\ \A j \in s : Max(s) >= j
          BY <3>3, Greatest, k + 1 \in Nat
        <5> DEFINE m == Max(s)
        <5>2. m \in s /\ m >= k + 1
          BY <3>3, <5>1
        <5> HIDE DEF m
        <5>3. m \in Int /\ m <= k + 1
          BY <5>2
        <5>4. m = k + 1
          BY <5>2, <5>3
        <5> QED  BY <5>4 DEF m
      <4>2. s \ {k + 1} \in SUBSET (1 .. k) /\ s \ {k + 1} \in SUBSET (1 .. k + 1)
        OBVIOUS
      <4>3. h[s] = f[k + 1][g[s \ {k + 1}]] /\ h[s \ {k + 1}] = g[s \ {k + 1}]
        BY <3>3, <4>2
      <4>4. g[s \ {k + 1}] \in A /\ k + 1 \in 1 .. n
        BY <2>1, <4>2 DEF IsFold
      <4> QED  BY <3>3, <4>1, <4>3, <4>4
    <3> QED  BY <3>1, <3>2, <3>3
  <2>3. IsFold(h, k + 1, base, A, f)
    <3> HIDE DEF h
    <3>1. h = [s \in SUBSET (1 .. k + 1) |-> h[s]]
      BY DEF h
    <3>2. h \in [SUBSET (1 .. k + 1) -> A]
      BY <2>2, <3>1
    <3> QED  BY <2>2, <3>2 DEF IsFold
  <2> QED  BY <2>3
<1> HIDE DEF S
<1>3. n \in S
  <2>1. \A k \in 0 .. n - 1 : k \in S => k + 1 \in S
    BY <1>2, Zenon
  <2>2. 0 .. n \subseteq S
    BY <1>1, <2>1, Climb, Zenon
  <2> QED  BY <2>2
<1> QED  BY <1>3 DEF S

(* What a function g that folds as f does has after each element, as long  *)
(* as the accumulator stays in A.                                          *)
FoldsAs(g, n, base, A, f) ==
  \A s \in SUBSET (1 .. n) :
    /\ s = {} => g[s] = base
    /\ s # {} /\ g[s \ {Max(s)}] \in A => g[s] = f[Max(s)][g[s \ {Max(s)}]]

Partial(h, g, n, base, A, f) ==
  /\ h \in [0 .. n -> A]
  /\ h[0] = base
  /\ h[n] = g[1 .. n]
  /\ \A k \in 0 .. n - 1 : h[k + 1] = f[k + 1][h[k]]

\* From the value on sets of positions to the values on prefixes.
LEMMA FoldPartial ==
  ASSUME NEW n \in Nat, NEW A, NEW base \in A, NEW f, NEW g, Steps(n, A, f),
         FoldsAs(g, n, base, A, f)
  PROVE  \E h : Partial(h, g, n, base, A, f)
<1> USE DEF Steps
<1> DEFINE h == [k \in 0 .. n |-> g[1 .. k]]
           S == {k \in Nat : k <= n => g[1 .. k] \in A}
<1>1. g[1 .. 0] = base
  <2>1. 1 .. 0 = {} /\ 1 .. 0 \in SUBSET (1 .. n)
    OBVIOUS
  <2> QED  BY <2>1 DEF FoldsAs
<1>2. ASSUME NEW k \in 0 .. n - 1, g[1 .. k] \in A
      PROVE  g[1 .. k + 1] = f[k + 1][g[1 .. k]] /\ g[1 .. k + 1] \in A
  <2>1. g[1 .. k + 1] = f[k + 1][g[1 .. k]]
    <3> DEFINE t == 1 .. k + 1
    <3>1. t \in SUBSET (1 .. n) /\ t # {} /\ Max(t) = k + 1 /\ t \ {k + 1} = 1 .. k
      BY Prefix
    <3> HIDE DEF t
    <3>2. g[t \ {Max(t)}] \in A
      BY <1>2, <3>1
    <3>3. g[t] = f[Max(t)][g[t \ {Max(t)}]]
      BY <3>1, <3>2 DEF FoldsAs
    <3> QED  BY <3>1, <3>3 DEF t
  <2>2. k + 1 \in 1 .. n
    OBVIOUS
  <2> QED  BY <1>2, <2>1, <2>2
<1>3. 0 .. n \subseteq S
  <2>1. 0 \in S
    BY <1>1
  <2>2. ASSUME NEW k \in 0 .. n - 1, k \in S PROVE k + 1 \in S
    BY <1>2, <2>2
  <2> HIDE DEF S
  <2>3. \A k \in 0 .. n - 1 : k \in S => k + 1 \in S
    BY <2>2, Zenon
  <2> QED  BY <2>1, <2>3, Climb, Zenon
<1>4. \A k \in 0 .. n : g[1 .. k] \in A
  BY <1>3
<1>5. h \in [0 .. n -> A] /\ h[0] = base /\ h[n] = g[1 .. n]
  BY <1>1, <1>4
<1>6. \A k \in 0 .. n - 1 : h[k + 1] = f[k + 1][h[k]]
  <2> SUFFICES ASSUME NEW k \in 0 .. n - 1 PROVE h[k + 1] = f[k + 1][h[k]]
    OBVIOUS
  <2>1. k \in 0 .. n /\ k + 1 \in 0 .. n
    OBVIOUS
  <2>2. h[k] = g[1 .. k] /\ h[k + 1] = g[1 .. k + 1]
    BY <2>1
  <2> HIDE DEF h
  <2> QED  BY <1>2, <1>4, <2>1, <2>2
<1> HIDE DEF h
<1> QED  BY <1>5, <1>6 DEF Partial

\* h[k] is the sum of the first k elements of s.
Sums(h, n, s) ==
  /\ h \in [0 .. n -> Nat] /\ h[0] = 0 /\ h[n] = Sum(s)
  /\ \A k \in 0 .. n - 1 : h[k + 1] = h[k] + s[k + 1]

\* The sum of a sequence of naturals, element by element.
LEMMA SumFold ==
  ASSUME NEW s, NEW n \in Nat, DOMAIN s = 1 .. n, \A i \in 1 .. n : s[i] \in Nat
  PROVE  \E h : Sums(h, n, s)
<1> DEFINE Step(a, k) == a + s[k]
           f == [k \in 1 .. n |-> [a \in Nat |-> Step(a, k)]]
           After(g, t) == IF t = {} THEN 0 ELSE Step(g[t \ {Max(t)}], Max(t))
           Is(g) == g = [t \in SUBSET (1 .. n) |-> After(g, t)]
<1>1. Sum(s) = (CHOOSE g : Is(g))[1 .. n]
  BY DEF Sum, FoldLeft, MapThenFoldSet
<1>2. \A k \in 1 .. n : \A a \in Nat : f[k][a] = Step(a, k)
  OBVIOUS
<1>3. 0 \in Nat /\ Steps(n, Nat, f)
  BY <1>2 DEF Steps
<1> HIDE DEF f
<1>4. \A t \in SUBSET (1 .. n) : t # {} => Max(t) \in 1 .. n
  BY Greatest
<1>5. \E g : Is(g)
  <2>1. PICK g : IsFold(g, n, 0, Nat, f)
    BY <1>3, FoldExists, Zenon
  <2>2. g = [t \in SUBSET (1 .. n) |-> g[t]]
    BY <2>1 DEF IsFold
  <2>3. ASSUME NEW t \in SUBSET (1 .. n)
        PROVE  g[t] = After(g, t)
    <3>1. t \ {Max(t)} \in SUBSET (1 .. n)
      OBVIOUS
    <3>2. t # {} => /\ g[t] = f[Max(t)][g[t \ {Max(t)}]] /\ g[t \ {Max(t)}] \in Nat
                    /\ Max(t) \in 1 .. n
      BY <1>4, <2>1, <3>1 DEF IsFold
    <3>3. t # {} => g[t] = Step(g[t \ {Max(t)}], Max(t))
      BY <1>2, <3>2, Zenon
    <3>4. t = {} => g[t] = 0
      BY <2>1 DEF IsFold
    <3> QED  BY <3>3, <3>4, Zenon
  <2> QED  BY <2>2, <2>3, Zenon
<1>6. PICK g : Is(g) /\ Sum(s) = g[1 .. n]
  BY <1>1, <1>5, Zenon
<1>7. FoldsAs(g, n, 0, Nat, f)
  <2>1. \A t \in SUBSET (1 .. n) : g[t] = After(g, t)
    BY <1>6
  <2> QED  BY <1>2, <1>4, <2>1 DEF FoldsAs
<1>8. PICK h : Partial(h, g, n, 0, Nat, f)
  BY <1>3, <1>7, FoldPartial, Zenon
<1>9. /\ h \in [0 .. n -> Nat] /\ h[0] = 0
      /\ \A k \in 0 .. n - 1 : h[k + 1] = f[k + 1][h[k]]
  BY <1>8 DEF Partial
<1>10. ASSUME NEW k \in 0 .. n - 1 PROVE h[k + 1] = Step(h[k], k + 1)
  <2>1. h[k] \in Nat /\ k + 1 \in 1 .. n
    BY <1>9
  <2> QED  BY <1>2, <1>9, <2>1
<1>11. h[n] = Sum(s)
  BY <1>6, <1>8 DEF Partial
<1> QED  BY <1>9, <1>10, <1>11, Zenon DEF Sums

\* h[k] is what the first k rows give to the row of a set of nodes.
Collects(h, n, S) ==
  /\ h \in [0 .. n -> Seq(Nodes)] /\ h[0] = <<>> /\ h[n] = Row(S)
  /\ \A k \in 0 .. n - 1 : h[k + 1] = IF Rows[k + 1] \in S
                                         THEN Append(h[k], Rows[k + 1]) ELSE h[k]

\* The nodes of a set, collected row by row.
LEMMA RowFold ==
  ASSUME NEW S, NEW n \in Nat, DOMAIN Rows = 1 .. n
  PROVE  \E h : Collects(h, n, S)
<1> DEFINE Step(a, k) == IF Rows[k] \in S THEN Append(a, Rows[k]) ELSE a
           f == [k \in 1 .. n |-> [a \in Seq(Nodes) |-> Step(a, k)]]
           After(g, t) == IF t = {} THEN <<>> ELSE Step(g[t \ {Max(t)}], Max(t))
           Is(g) == g = [t \in SUBSET (1 .. n) |-> After(g, t)]
<1>1. Row(S) = (CHOOSE g : Is(g))[1 .. n]
  BY DEF Row, FoldLeft, MapThenFoldSet
<1>2. \A k \in 1 .. n : \A a \in Seq(Nodes) : f[k][a] = Step(a, k)
  OBVIOUS
<1>3. <<>> \in Seq(Nodes) /\ Steps(n, Seq(Nodes), f)
  <2>1. \A k \in 1 .. n : Rows[k] \in Nodes
    BY SchedulerAssumption DEF SchedulerAssumption
  <2> QED  BY <1>2, <2>1 DEF Steps
<1> HIDE DEF f
<1>4. \A t \in SUBSET (1 .. n) : t # {} => Max(t) \in 1 .. n
  BY Greatest
<1>5. \E g : Is(g)
  <2>1. PICK g : IsFold(g, n, <<>>, Seq(Nodes), f)
    BY <1>3, FoldExists, Zenon
  <2>2. g = [t \in SUBSET (1 .. n) |-> g[t]]
    BY <2>1 DEF IsFold
  <2>3. ASSUME NEW t \in SUBSET (1 .. n)
        PROVE  g[t] = After(g, t)
    <3>1. t \ {Max(t)} \in SUBSET (1 .. n)
      OBVIOUS
    <3>2. t # {} => /\ g[t] = f[Max(t)][g[t \ {Max(t)}]] /\ g[t \ {Max(t)}] \in Seq(Nodes)
                    /\ Max(t) \in 1 .. n
      BY <1>4, <2>1, <3>1 DEF IsFold
    <3>3. t # {} => g[t] = Step(g[t \ {Max(t)}], Max(t))
      BY <1>2, <3>2, Zenon
    <3>4. t = {} => g[t] = <<>>
      BY <2>1 DEF IsFold
    <3> QED  BY <3>3, <3>4, Zenon
  <2> QED  BY <2>2, <2>3, Zenon
<1>6. PICK g : Is(g) /\ Row(S) = g[1 .. n]
  BY <1>1, <1>5, Zenon
<1>7. FoldsAs(g, n, <<>>, Seq(Nodes), f)
  <2>1. \A t \in SUBSET (1 .. n) : g[t] = After(g, t)
    BY <1>6
  <2> QED  BY <1>2, <1>4, <2>1 DEF FoldsAs
<1>8. PICK h : Partial(h, g, n, <<>>, Seq(Nodes), f)
  BY <1>3, <1>7, FoldPartial, Zenon
<1>9. /\ h \in [0 .. n -> Seq(Nodes)] /\ h[0] = <<>>
      /\ \A k \in 0 .. n - 1 : h[k + 1] = f[k + 1][h[k]]
  BY <1>8 DEF Partial
<1>10. ASSUME NEW k \in 0 .. n - 1 PROVE h[k + 1] = Step(h[k], k + 1)
  <2>1. h[k] \in Seq(Nodes) /\ k + 1 \in 1 .. n
    BY <1>9
  <2> QED  BY <1>2, <1>9, <2>1
<1>11. h[n] = Row(S)
  BY <1>6, <1>8 DEF Partial
<1> QED  BY <1>9, <1>10, <1>11, Zenon DEF Collects

Sample == [a : Nodes, b : Nodes, rtt : RTTs]

\* h[k] is the samples of the first k rows.
Gathers(h, n, N) ==
  /\ h \in [0 .. n -> Seq(Sample)] /\ h[0] = <<>> /\ h[n] = Samples(N)
  /\ \A k \in 0 .. n - 1 : h[k + 1] = h[k] \o SamplesOf(Rows[k + 1], N)

\* The samples of a request, collected row by row.
LEMMA SamplesFold ==
  ASSUME NEW N, NEW n \in Nat, DOMAIN Rows = 1 .. n,
         \A k \in 1 .. n : SamplesOf(Rows[k], N) \in Seq(Sample)
  PROVE  \E h : Gathers(h, n, N)
<1> DEFINE Step(a, k) == a \o SamplesOf(Rows[k], N)
           f == [k \in 1 .. n |-> [a \in Seq(Sample) |-> Step(a, k)]]
           After(g, t) == IF t = {} THEN <<>> ELSE Step(g[t \ {Max(t)}], Max(t))
           Is(g) == g = [t \in SUBSET (1 .. n) |-> After(g, t)]
<1>1. Samples(N) = (CHOOSE g : Is(g))[1 .. n]
  BY DEF Samples, FoldLeft, MapThenFoldSet
<1>2. \A k \in 1 .. n : \A a \in Seq(Sample) : f[k][a] = Step(a, k)
  OBVIOUS
<1>3. <<>> \in Seq(Sample) /\ Steps(n, Seq(Sample), f)
  BY <1>2 DEF Steps
<1> HIDE DEF f
<1>4. \A t \in SUBSET (1 .. n) : t # {} => Max(t) \in 1 .. n
  BY Greatest
<1>5. \E g : Is(g)
  <2>1. PICK g : IsFold(g, n, <<>>, Seq(Sample), f)
    BY <1>3, FoldExists, Zenon
  <2>2. g = [t \in SUBSET (1 .. n) |-> g[t]]
    BY <2>1 DEF IsFold
  <2>3. ASSUME NEW t \in SUBSET (1 .. n)
        PROVE  g[t] = After(g, t)
    <3>1. t \ {Max(t)} \in SUBSET (1 .. n)
      OBVIOUS
    <3>2. t # {} => /\ g[t] = f[Max(t)][g[t \ {Max(t)}]] /\ g[t \ {Max(t)}] \in Seq(Sample)
                    /\ Max(t) \in 1 .. n
      BY <1>4, <2>1, <3>1 DEF IsFold
    <3>3. t # {} => g[t] = Step(g[t \ {Max(t)}], Max(t))
      BY <1>2, <3>2, Zenon
    <3>4. t = {} => g[t] = <<>>
      BY <2>1 DEF IsFold
    <3> QED  BY <3>3, <3>4, Zenon
  <2> QED  BY <2>2, <2>3, Zenon
<1>6. PICK g : Is(g) /\ Samples(N) = g[1 .. n]
  BY <1>1, <1>5, Zenon
<1>7. FoldsAs(g, n, <<>>, Seq(Sample), f)
  <2>1. \A t \in SUBSET (1 .. n) : g[t] = After(g, t)
    BY <1>6
  <2> QED  BY <1>2, <1>4, <2>1 DEF FoldsAs
<1>8. PICK h : Partial(h, g, n, <<>>, Seq(Sample), f)
  BY <1>3, <1>7, FoldPartial, Zenon
<1>9. /\ h \in [0 .. n -> Seq(Sample)] /\ h[0] = <<>>
      /\ \A k \in 0 .. n - 1 : h[k + 1] = f[k + 1][h[k]]
  BY <1>8 DEF Partial
<1>10. ASSUME NEW k \in 0 .. n - 1 PROVE h[k + 1] = Step(h[k], k + 1)
  <2>1. h[k] \in Seq(Sample) /\ k + 1 \in 1 .. n
    BY <1>9
  <2> QED  BY <1>2, <1>9, <2>1
<1>11. h[n] = Samples(N)
  BY <1>6, <1>8 DEF Partial
<1> QED  BY <1>9, <1>10, <1>11, Zenon DEF Gathers

Links == {None} \cup {Direct(r) : r \in RTTs}
Grid == [Nodes -> [Nodes -> Links]]
Blank == [a \in Nodes |-> [b \in Nodes |-> None]]

\* Setting a link keeps the graph a table of links.
LEMMA SetLinkType ==
  ASSUME NEW g \in Grid, NEW e \in Sample
  PROVE  SetLink(g, e) \in Grid
BY DEF SetLink, SetLinkOf, Grid, Links, Sample

\* h[k] is the graph after the first k samples.
Draws(h, n, N) ==
  /\ h \in [0 .. n -> Grid] /\ h[0] = Blank /\ h[n] = Graph(N)
  /\ \A k \in 0 .. n - 1 : h[k + 1] = SetLink(h[k], Samples(N)[k + 1])

\* The graph, sample by sample.
LEMMA GraphFold ==
  ASSUME NEW N, NEW n \in Nat, DOMAIN Samples(N) = 1 .. n,
         \A k \in 1 .. n : Samples(N)[k] \in Sample
  PROVE  \E h : Draws(h, n, N)
<1> DEFINE Step(a, k) == SetLink(a, Samples(N)[k])
           f == [k \in 1 .. n |-> [a \in Grid |-> Step(a, k)]]
           After(g, t) == IF t = {} THEN Blank ELSE Step(g[t \ {Max(t)}], Max(t))
           Is(g) == g = [t \in SUBSET (1 .. n) |-> After(g, t)]
<1>1. Graph(N) = (CHOOSE g : Is(g))[1 .. n]
  BY DEF Graph, Blank, FoldLeft, MapThenFoldSet
<1>2. \A k \in 1 .. n : \A a \in Grid : f[k][a] = Step(a, k)
  OBVIOUS
<1>3. Blank \in Grid /\ Steps(n, Grid, f)
  <2>1. Blank \in Grid
    BY DEF Blank, Grid, Links
  <2> QED  BY <1>2, <2>1, SetLinkType DEF Steps
<1> HIDE DEF f
<1>4. \A t \in SUBSET (1 .. n) : t # {} => Max(t) \in 1 .. n
  BY Greatest
<1>5. \E g : Is(g)
  <2>1. PICK g : IsFold(g, n, Blank, Grid, f)
    BY <1>3, FoldExists, Zenon
  <2>2. g = [t \in SUBSET (1 .. n) |-> g[t]]
    BY <2>1 DEF IsFold
  <2>3. ASSUME NEW t \in SUBSET (1 .. n)
        PROVE  g[t] = After(g, t)
    <3>1. t \ {Max(t)} \in SUBSET (1 .. n)
      OBVIOUS
    <3>2. t # {} => /\ g[t] = f[Max(t)][g[t \ {Max(t)}]] /\ g[t \ {Max(t)}] \in Grid
                    /\ Max(t) \in 1 .. n
      BY <1>4, <2>1, <3>1 DEF IsFold
    <3>3. t # {} => g[t] = Step(g[t \ {Max(t)}], Max(t))
      BY <1>2, <3>2, Zenon
    <3>4. t = {} => g[t] = Blank
      BY <2>1 DEF IsFold
    <3> QED  BY <3>3, <3>4, Zenon
  <2> QED  BY <2>2, <2>3, Zenon
<1>6. PICK g : Is(g) /\ Graph(N) = g[1 .. n]
  BY <1>1, <1>5, Zenon
<1>7. FoldsAs(g, n, Blank, Grid, f)
  <2>1. \A t \in SUBSET (1 .. n) : g[t] = After(g, t)
    BY <1>6
  <2> QED  BY <1>2, <1>4, <2>1 DEF FoldsAs
<1>8. PICK h : Partial(h, g, n, Blank, Grid, f)
  BY <1>3, <1>7, FoldPartial, Zenon
<1>9. /\ h \in [0 .. n -> Grid] /\ h[0] = Blank
      /\ \A k \in 0 .. n - 1 : h[k + 1] = f[k + 1][h[k]]
  BY <1>8 DEF Partial
<1>10. ASSUME NEW k \in 0 .. n - 1 PROVE h[k + 1] = Step(h[k], k + 1)
  <2>1. h[k] \in Grid /\ k + 1 \in 1 .. n
    BY <1>9
  <2> QED  BY <1>2, <1>9, <2>1
<1>11. h[n] = Graph(N)
  BY <1>6, <1>8 DEF Partial
<1> QED  BY <1>9, <1>10, <1>11, Zenon DEF Draws

\* h[k] is the worst of the first k links of a chain.
Compares(h, n, grid, chain) ==
  /\ h \in [0 .. n -> LinkMetrics] /\ h[0] = Loopback /\ h[n] = WorstLink(grid, chain)
  /\ \A k \in 0 .. n - 1 : h[k + 1] = LET l == Hops(grid, chain)[k + 1]
                                         IN  IF l.rtt > h[k].rtt THEN l ELSE h[k]

\* The worst link of a chain, hop by hop.
LEMMA WorstFold ==
  ASSUME NEW grid, NEW chain, NEW n \in Nat, DOMAIN Hops(grid, chain) = 1 .. n,
         \A k \in 1 .. n : Hops(grid, chain)[k] \in LinkMetrics
  PROVE  \E h : Compares(h, n, grid, chain)
<1> DEFINE Step(a, k) == LET l == Hops(grid, chain)[k] IN IF l.rtt > a.rtt THEN l ELSE a
           f == [k \in 1 .. n |-> [a \in LinkMetrics |-> Step(a, k)]]
           After(g, t) == IF t = {} THEN Loopback ELSE Step(g[t \ {Max(t)}], Max(t))
           Is(g) == g = [t \in SUBSET (1 .. n) |-> After(g, t)]
<1>1. WorstLink(grid, chain) = (CHOOSE g : Is(g))[1 .. n]
  BY DEF WorstLink, FoldLeft, MapThenFoldSet
<1>2. \A k \in 1 .. n : \A a \in LinkMetrics : f[k][a] = Step(a, k)
  OBVIOUS
<1>3. Loopback \in LinkMetrics /\ Steps(n, LinkMetrics, f)
  <2>1. Loopback \in LinkMetrics
    BY DEF Loopback, LinkMetrics
  <2> QED  BY <1>2, <2>1 DEF Steps
<1> HIDE DEF f
<1>4. \A t \in SUBSET (1 .. n) : t # {} => Max(t) \in 1 .. n
  BY Greatest
<1>5. \E g : Is(g)
  <2>1. PICK g : IsFold(g, n, Loopback, LinkMetrics, f)
    BY <1>3, FoldExists, Zenon
  <2>2. g = [t \in SUBSET (1 .. n) |-> g[t]]
    BY <2>1 DEF IsFold
  <2>3. ASSUME NEW t \in SUBSET (1 .. n)
        PROVE  g[t] = After(g, t)
    <3>1. t \ {Max(t)} \in SUBSET (1 .. n)
      OBVIOUS
    <3>2. t # {} => /\ g[t] = f[Max(t)][g[t \ {Max(t)}]] /\ g[t \ {Max(t)}] \in LinkMetrics
                    /\ Max(t) \in 1 .. n
      BY <1>4, <2>1, <3>1 DEF IsFold
    <3>3. t # {} => g[t] = Step(g[t \ {Max(t)}], Max(t))
      BY <1>2, <3>2, Zenon
    <3>4. t = {} => g[t] = Loopback
      BY <2>1 DEF IsFold
    <3> QED  BY <3>3, <3>4, Zenon
  <2> QED  BY <2>2, <2>3, Zenon
<1>6. PICK g : Is(g) /\ WorstLink(grid, chain) = g[1 .. n]
  BY <1>1, <1>5, Zenon
<1>7. FoldsAs(g, n, Loopback, LinkMetrics, f)
  <2>1. \A t \in SUBSET (1 .. n) : g[t] = After(g, t)
    BY <1>6
  <2> QED  BY <1>2, <1>4, <2>1 DEF FoldsAs
<1>8. PICK h : Partial(h, g, n, Loopback, LinkMetrics, f)
  BY <1>3, <1>7, FoldPartial, Zenon
<1>9. /\ h \in [0 .. n -> LinkMetrics] /\ h[0] = Loopback
      /\ \A k \in 0 .. n - 1 : h[k + 1] = f[k + 1][h[k]]
  BY <1>8 DEF Partial
<1>10. ASSUME NEW k \in 0 .. n - 1 PROVE h[k + 1] = Step(h[k], k + 1)
  <2>1. h[k] \in LinkMetrics /\ k + 1 \in 1 .. n
    BY <1>9
  <2> QED  BY <1>2, <1>9, <2>1
<1>11. h[n] = WorstLink(grid, chain)
  BY <1>6, <1>8 DEF Partial
<1> QED  BY <1>9, <1>10, <1>11, Zenon DEF Compares

\* The rows are in positions 1 to n, and every node is in one of them.
LEMMA RowsType == /\ Len(Rows) \in Nat /\ DOMAIN Rows = 1 .. Len(Rows)
                  /\ \A k \in 1 .. Len(Rows) : Rows[k] \in Nodes
                  /\ \A m \in Nodes : \E k \in 1 .. Len(Rows) : Rows[k] = m
BY SchedulerAssumption DEF SchedulerAssumption, Nodes, ToSet

\* A row of a set of nodes lists exactly the nodes of the set.
LEMMA RowIs ==
  ASSUME NEW S
  PROVE  /\ Row(S) \in Seq(Nodes)
         /\ \A m : (\E i \in 1 .. Len(Row(S)) : Row(S)[i] = m) <=> m \in S /\ m \in Nodes
<1> DEFINE n == Len(Rows)
<1>1. n \in Nat /\ DOMAIN Rows = 1 .. n /\ \A k \in 1 .. n : Rows[k] \in Nodes
  BY RowsType
<1> HIDE DEF n
<1>2. PICK h : Collects(h, n, S)
  BY <1>1, RowFold, Zenon
<1> USE DEF Collects
<1> DEFINE Found(k, m) == \E i \in 1 .. Len(h[k]) : h[k][i] = m
           Met(k, m) == m \in S /\ \E j \in 1 .. k : Rows[j] = m
           T == {k \in 0 .. n : \A m : Found(k, m) <=> Met(k, m)}
<1>3. 0 \in T
  BY <1>1, <1>2
<1>4. ASSUME NEW k \in 0 .. n - 1, k \in T
      PROVE  k + 1 \in T
  <2>1. k + 1 \in 0 .. n /\ h[k] \in Seq(Nodes) /\ Rows[k + 1] \in Nodes
    BY <1>1, <1>2
  <2>2. \A m : Met(k + 1, m) <=> Met(k, m) \/ (m \in S /\ m = Rows[k + 1])
    OBVIOUS
  <2>3. CASE Rows[k + 1] \in S
    <3>1. h[k + 1] = Append(h[k], Rows[k + 1])
      BY <1>2, <2>3
    <3>2. Len(h[k + 1]) = Len(h[k]) + 1 /\ h[k + 1][Len(h[k]) + 1] = Rows[k + 1]
          /\ \A i \in 1 .. Len(h[k]) : h[k + 1][i] = h[k][i]
      BY <2>1, <3>1
    <3>3. \A m : Found(k + 1, m) <=> Found(k, m) \/ m = Rows[k + 1]
      <4>1. 1 .. Len(h[k + 1]) = (1 .. Len(h[k])) \cup {Len(h[k]) + 1}
        BY <2>1, <3>2
      <4> QED  BY <3>2, <4>1
    <3>4. \A m : Found(k + 1, m) <=> Met(k + 1, m)
      <4> HIDE DEF Found, Met
      <4> QED  BY <1>4, <2>2, <2>3, <3>3
    <3> QED  BY <2>1, <3>4
  <2>4. CASE Rows[k + 1] \notin S
    <3>1. h[k + 1] = h[k]
      BY <1>2, <2>4
    <3>2. \A m : Found(k + 1, m) <=> Met(k + 1, m)
      <4>1. \A m : Found(k + 1, m) <=> Found(k, m)
        BY <3>1
      <4> HIDE DEF Found, Met
      <4> QED  BY <1>4, <2>2, <2>4, <4>1
    <3> QED  BY <2>1, <3>2
  <2> QED  BY <2>3, <2>4
<1> HIDE DEF T
<1>5. n \in T
  <2>1. \A k \in 0 .. n - 1 : k \in T => k + 1 \in T
    BY <1>4, Zenon
  <2>2. 0 .. n \subseteq T
    BY <1>1, <1>3, <2>1, Climb, Zenon
  <2> QED  BY <1>1, <2>2
<1>6. \A m : m \in Nodes <=> \E j \in 1 .. n : Rows[j] = m
  BY RowsType DEF n
<1> USE DEF T
<1>7. h[n] \in Seq(Nodes) /\ \A m : Found(n, m) <=> Met(n, m)
  BY <1>1, <1>2, <1>5
<1> QED  BY <1>2, <1>6, <1>7

\* Sums of naturals are natural.
LEMMA SumType ==
  ASSUME NEW s, NEW n \in Nat, DOMAIN s = 1 .. n, \A i \in 1 .. n : s[i] \in Nat
  PROVE  Sum(s) \in Nat
<1>1. PICK h : Sums(h, n, s)
  BY SumFold, Zenon
<1> QED  BY <1>1 DEF Sums

\* Element-wise smaller sequences have smaller sums.
LEMMA SumSmaller ==
  ASSUME NEW s, NEW u, NEW n \in Nat, DOMAIN s = 1 .. n, DOMAIN u = 1 .. n,
         \A i \in 1 .. n : s[i] \in Nat /\ u[i] \in Nat /\ s[i] <= u[i]
  PROVE  Sum(s) \in Nat /\ Sum(u) \in Nat /\ Sum(s) <= Sum(u)
<1>1. PICK g : Sums(g, n, s)
  <2>1. \A i \in 1 .. n : s[i] \in Nat
    OBVIOUS
  <2> QED  BY <2>1, SumFold, Zenon
<1>2. PICK h : Sums(h, n, u)
  <2>1. \A i \in 1 .. n : u[i] \in Nat
    OBVIOUS
  <2> QED  BY <2>1, SumFold, Zenon
<1> USE DEF Sums
<1> DEFINE T == {k \in 0 .. n : g[k] <= h[k]}
<1>3. 0 \in T
  BY <1>1, <1>2
<1>4. ASSUME NEW k \in 0 .. n - 1, k \in T
      PROVE  k + 1 \in T
  <2>1. k + 1 \in 1 .. n /\ k + 1 \in 0 .. n /\ k \in 0 .. n
    OBVIOUS
  <2>2. g[k] \in Nat /\ h[k] \in Nat /\ g[k] <= h[k]
    BY <1>1, <1>2, <1>4, <2>1
  <2>3. s[k + 1] \in Nat /\ u[k + 1] \in Nat /\ s[k + 1] <= u[k + 1]
    BY <2>1
  <2>4. g[k + 1] = g[k] + s[k + 1] /\ h[k + 1] = h[k] + u[k + 1]
    BY <1>1, <1>2
  <2> QED  BY <2>1, <2>2, <2>3, <2>4
<1> HIDE DEF T
<1>5. n \in T
  <2>1. \A k \in 0 .. n - 1 : k \in T => k + 1 \in T
    BY <1>4, Zenon
  <2>2. 0 .. n \subseteq T
    BY <1>3, <2>1, Climb, Zenon
  <2> QED  BY <2>2
<1> QED  BY <1>1, <1>2, <1>5 DEF T

\* A nonempty sum of positive numbers is positive.
LEMMA SumPositive ==
  ASSUME NEW s, NEW n \in Nat, n > 0, DOMAIN s = 1 .. n, \A i \in 1 .. n : s[i] \in Nat \ {0}
  PROVE  Sum(s) \in Nat \ {0}
<1>1. PICK h : Sums(h, n, s)
  <2>1. \A i \in 1 .. n : s[i] \in Nat
    OBVIOUS
  <2> QED  BY <2>1, SumFold, Zenon
<1> USE DEF Sums
<1>2. n - 1 \in 0 .. n - 1 /\ n - 1 \in 0 .. n /\ n \in 1 .. n
  OBVIOUS
<1>3. h[n] = h[n - 1] + s[n]
  BY <1>1, <1>2
<1> QED  BY <1>1, <1>2, <1>3

\* The sum of one number.
LEMMA SumOne ==
  ASSUME NEW s, DOMAIN s = 1 .. 1, s[1] \in Nat
  PROVE  Sum(s) = s[1]
<1>1. \A i \in 1 .. 1 : s[i] \in Nat
  OBVIOUS
<1>2. PICK h : Sums(h, 1, s)
  BY <1>1, SumFold, 1 \in Nat
<1> USE DEF Sums
<1>3. h[0 + 1] = h[0] + s[0 + 1]
  BY <1>2
<1> QED  BY <1>2, <1>3

\* The sum of no numbers.
LEMMA SumNone ==
  ASSUME NEW s, DOMAIN s = 1 .. 0
  PROVE  Sum(s) = 0
<1>1. PICK h : h[0] = 0 /\ h[0] = Sum(s)
  <2>1. \A i \in 1 .. 0 : s[i] \in Nat
    OBVIOUS
  <2>2. \E h : Sums(h, 0, s)
    BY <2>1, SumFold, 0 \in Nat
  <2> QED  BY <2>2 DEF Sums
<1> QED  BY <1>1

\* A finite choice of integers has a first least one.
LEMMA FirstLeastIs ==
  ASSUME NEW n \in Nat, NEW v, DOMAIN v \in SUBSET (1 .. n), DOMAIN v # {},
         \A i \in DOMAIN v : v[i] \in Int
  PROVE  FirstLeast(v) \in DOMAIN v /\ \A j \in DOMAIN v : v[FirstLeast(v)] <= v[j]
<1> DEFINE D(k) == DOMAIN v \cap (1 .. k)
           Best(i, k) == i \in D(k) /\ \A j \in D(k) : v[i] < v[j] \/ (v[i] = v[j] /\ i <= j)
           T == {k \in 0 .. n : D(k) # {} => \E i \in D(k) : Best(i, k)}
<1>1. 0 \in T
  OBVIOUS
<1>2. ASSUME NEW k \in 0 .. n - 1, k \in T
      PROVE  k + 1 \in T
  <2>1. k + 1 \in 0 .. n
    OBVIOUS
  <2>2. CASE k + 1 \notin DOMAIN v
    <3>1. D(k + 1) = D(k)
      BY <2>2
    <3> QED  BY <1>2, <2>1, <3>1
  <2>3. CASE k + 1 \in DOMAIN v
    <3>1. D(k + 1) = D(k) \cup {k + 1} /\ v[k + 1] \in Int
      BY <2>3
    <3>2. CASE D(k) = {}
      <4>1. Best(k + 1, k + 1)
        BY <3>1, <3>2
      <4> QED  BY <2>1, <3>1, <4>1
    <3>3. CASE D(k) # {}
      <4>1. PICK i \in D(k) : Best(i, k)
        BY <1>2, <3>3
      <4>2. CASE v[i] <= v[k + 1]
        <5>1. Best(i, k + 1)
          BY <3>1, <4>1, <4>2
        <5> QED  BY <2>1, <5>1
      <4>3. CASE v[k + 1] < v[i]
        <5>1. Best(k + 1, k + 1)
          BY <3>1, <4>1, <4>3
        <5> QED  BY <2>1, <5>1
      <4>4. v[i] \in Int
        OBVIOUS
      <4> QED  BY <3>1, <4>2, <4>3, <4>4
    <3> QED  BY <3>2, <3>3
  <2> QED  BY <2>2, <2>3
<1> HIDE DEF T
<1>3. n \in T
  <2>1. \A k \in 0 .. n - 1 : k \in T => k + 1 \in T
    BY <1>2, Zenon
  <2>2. 0 .. n \subseteq T
    BY <1>1, <2>1, Climb, Zenon
  <2> QED  BY <2>2
<1>4. D(n) = DOMAIN v
  OBVIOUS
<1>5. \E i \in DOMAIN v : \A j \in DOMAIN v : v[i] < v[j] \/ (v[i] = v[j] /\ i <= j)
  BY <1>3, <1>4 DEF T
<1>6. /\ FirstLeast(v) \in DOMAIN v
      /\ \A j \in DOMAIN v : \/ v[FirstLeast(v)] < v[j]
                             \/ v[FirstLeast(v)] = v[j] /\ FirstLeast(v) <= j
  BY <1>5 DEF FirstLeast
<1>7. \A j \in DOMAIN v : v[FirstLeast(v)] \in Int /\ v[j] \in Int
  BY <1>6
<1> QED  BY <1>6, <1>7

\* Integers listed by position have a greatest.
LEMMA MaxOfIs ==
  ASSUME NEW n \in Nat, n > 0, NEW v, \A i \in 1 .. n : v[i] \in Int
  PROVE  MaxOf({v[i] : i \in 1 .. n}) \in {v[i] : i \in 1 .. n}
<1> DEFINE w == [i \in 1 .. n |-> - v[i]]
           b == FirstLeast(w)
<1>1. DOMAIN w = 1 .. n /\ DOMAIN w # {} /\ \A i \in DOMAIN w : w[i] \in Int /\ w[i] = - v[i]
  BY 1 \in 1 .. n
<1>2. b \in 1 .. n /\ \A j \in 1 .. n : w[b] <= w[j]
  <2> HIDE DEF w
  <2> QED  BY <1>1, FirstLeastIs
<1> HIDE DEF b
<1>3. \A j \in 1 .. n : v[j] <= v[b]
  BY <1>2
<1>4. \E x \in {v[i] : i \in 1 .. n} : \A y \in {v[i] : i \in 1 .. n} : y <= x
  BY <1>2, <1>3
<1> QED  BY <1>4 DEF MaxOf

\* What a box can be advertised with: no more free VRAM than there is, and, of
\* a single card that the daemon manages, no more than the owner's share.
LEMMA CapabilityIs ==
  ASSUME NEW box \in Boxes
  PROVE  LET c == Capability(box)
         IN  /\ c # None /\ c.box = box /\ c.speed \in Nat /\ c.ram \in Nat /\ c.total \in Nat
             /\ c.free \in 0 .. c.total
             /\ box.managed /\ Len(box.cards) <= 1 /\ c.free # 0 =>
                  c.free * 100 <= c.total * box.share
<1> DEFINE n == Len(box.cards)
           total == Sum(box.cards)
           now == FreeNow(box, box.managed)
           budget == (total * box.share) \div 100
           shown == Advertised(box, now)
<1>1. /\ n \in Nat /\ DOMAIN box.cards = 1 .. n /\ \A i \in 1 .. n : box.cards[i] \in Nat \ {0}
      /\ box.speed \in Nat /\ box.ram \in Nat /\ box.share \in 0 .. 100
      /\ box.managed \in BOOLEAN /\ ModelGB \in Nat
  BY SchedulerAssumption DEF SchedulerAssumption
<1>0. box.share \in Nat
  <2>1. \A k \in 0 .. 100 : k \in Nat
    OBVIOUS
  <2> QED  BY <1>1, <2>1, Zenon
<1>2. total \in Nat /\ (n > 0 => total \in Nat \ {0})
  <2>1. \A i \in 1 .. n : box.cards[i] \in Nat
    BY <1>1
  <2> HIDE DEF n
  <2>2. total \in Nat
    BY <1>1, <2>1, SumType
  <2>3. n > 0 => total \in Nat \ {0}
    BY <1>1, SumPositive
  <2> QED  BY <2>2, <2>3
<1>3. DOMAIN now = 1 .. n /\ \A i \in 1 .. n : now[i] \in Nat /\ now[i] <= box.cards[i]
  <2>1. DOMAIN now = 1 .. n
    BY DEF FreeNow
  <2>2. ASSUME NEW i \in 1 .. n PROVE now[i] \in Nat /\ now[i] <= box.cards[i]
    <3> DEFINE used == IF box.managed THEN (ModelGB * box.cards[i]) \div total ELSE 0
    <3>1. now[i] = box.cards[i] - (IF used <= box.cards[i] THEN used ELSE box.cards[i])
      BY DEF FreeNow, Least
    <3>2. box.cards[i] \in Nat /\ total \in Nat \ {0}
      BY <1>1, <1>2
    <3>3. ModelGB * box.cards[i] \in Nat
      BY <1>1, <3>2
    <3>4. used \in Nat
      <4> HIDE DEF total
      <4>1. \A x \in Nat, y \in Nat \ {0} : x \div y \in Nat
        OBVIOUS
      <4> QED  BY <3>2, <3>3, <4>1
    <3> HIDE DEF used, now
    <3> QED  BY <3>1, <3>2, <3>4
  <2> QED  BY <2>1, <2>2
<1>4. budget \in Nat /\ budget * 100 <= total * box.share
  <2> HIDE DEF total
  <2>1. total * box.share \in Nat
    <3>1. \A x, y \in Nat : x * y \in Nat
      OBVIOUS
    <3> QED  BY <1>0, <1>2, <3>1
  <2> DEFINE x == total * box.share
  <2>2. x \in Nat
    BY <2>1
  <2> HIDE DEF x
  <2>3. x \div 100 \in Nat /\ (x \div 100) * 100 <= x
    BY <2>2
  <2> QED  BY <2>3 DEF x
<1> HIDE DEF now, budget
<1>5. Len(now) = n
  BY <1>3 DEF now, FreeNow
<1>6. /\ DOMAIN shown = 1 .. n
      /\ \A i \in 1 .. n : /\ shown[i] \in Nat /\ shown[i] <= box.cards[i]
                           /\ box.managed => shown[i] <= budget
  <2>1. CASE box.managed
    <3>1. shown = [i \in 1 .. n |-> Least(now[i], budget)]
      BY <1>5, <2>1 DEF Advertised, Capped, budget
    <3>2. ASSUME NEW i \in 1 .. n
          PROVE  shown[i] \in Nat /\ shown[i] <= box.cards[i] /\ shown[i] <= budget
      <4>1. shown[i] = Least(now[i], budget)
        BY <3>1
      <4>2. now[i] \in Nat /\ now[i] <= box.cards[i] /\ box.cards[i] \in Nat
        BY <1>1, <1>3
      <4> HIDE DEF shown
      <4> QED  BY <1>4, <4>1, <4>2 DEF Least
    <3>3. DOMAIN shown = 1 .. n
      BY <3>1
    <3> QED  BY <3>2, <3>3
  <2>2. CASE ~ box.managed
    <3>1. shown = now
      BY <2>2 DEF Advertised, Capped
    <3> QED  BY <1>3, <2>2, <3>1
  <2> QED  BY <2>1, <2>2
<1> HIDE DEF shown
<1>7. Sum(shown) \in 0 .. total
  <2>1. \A i \in 1 .. n : shown[i] \in Nat /\ box.cards[i] \in Nat /\ shown[i] <= box.cards[i]
    BY <1>1, <1>6
  <2> HIDE DEF n, total
  <2>2. Sum(shown) \in Nat /\ Sum(box.cards) \in Nat /\ Sum(shown) <= Sum(box.cards)
    BY <1>1, <1>6, <2>1, SumSmaller
  <2> QED  BY <2>2 DEF total
<1>8. ASSUME box.managed, n <= 1, Sum(shown) # 0
      PROVE  Sum(shown) * 100 <= total * box.share
  <2>1. n # 0
    <3> SUFFICES ASSUME n = 0 PROVE Sum(shown) = 0
      BY <1>8
    <3>1. DOMAIN shown = 1 .. 0
      BY <1>6
    <3> QED  BY <3>1, SumNone
  <2>2. n = 1
    <3> HIDE DEF n
    <3> QED  BY <1>1, <1>8, <2>1
  <2>3. DOMAIN shown = 1 .. 1 /\ shown[1] \in Nat /\ shown[1] <= budget
    BY <1>6, <1>8, <2>2
  <2>4. Sum(shown) = shown[1]
    BY <2>3, SumOne
  <2> HIDE DEF n, total
  <2> DEFINE x == total * box.share
  <2>5. x \in Int /\ budget * 100 <= x
    <3>1. \A k, l \in Int : k * l \in Int
      OBVIOUS
    <3>2. box.share \in Int /\ total \in Int
      BY <1>0, <1>2
    <3> QED  BY <1>4, <3>1, <3>2
  <2> HIDE DEF x
  <2>6. Sum(shown) * 100 <= x
    BY <1>4, <2>3, <2>4, <2>5
  <2> QED  BY <2>6 DEF x
<1> DEFINE c == Capability(box)
<1>9. /\ c.box = box /\ c.speed = box.speed /\ c.ram = box.ram /\ c.total = total
      /\ c.free = Sum(shown)
  BY DEF Capability, shown, now
<1>11. c # None
  <2>1. c = [box |-> box, total |-> total, speed |-> box.speed, ram |-> box.ram,
             free |-> Sum(shown)]
    BY DEF Capability, shown, now
  <2> HIDE DEF c, total, n
  <2>2. c \in CapabilityRecord
    BY <1>1, <1>2, <1>7, <2>1 DEF CapabilityRecord
  <2> QED  BY <2>2, SchedulerAssumption DEF SchedulerAssumption
<1> HIDE DEF c, total, n
<1>10. box.managed /\ n <= 1 /\ c.free # 0 => c.free * 100 <= c.total * box.share
  BY <1>8, <1>9
<1> QED  BY <1>1, <1>2, <1>7, <1>9, <1>10, <1>11 DEF c, n

(***************************************************************************)
(* Type correctness.                                                       *)
(***************************************************************************)
Posted == {Capability(box) : box \in Boxes}

BeatOK(n) ==
  /\ cap[n] # None /\ beat[n].queue \in Queues /\ beat[n].ram \in Rams
  /\ DOMAIN beat[n].rtts \subseteq Nodes \ {n}
  /\ \A p \in DOMAIN beat[n].rtts : beat[n].rtts[p] \in RTTs

SchedulerInv ==
  /\ cap \in [Nodes -> {None} \cup Posted]
  /\ DOMAIN beat = Nodes
  /\ \A n \in Nodes : beat[n] # None => BeatOK(n)

\* The same of the capability that a node posted last.
LEMMA CapIs ==
  ASSUME SchedulerInv, NEW n \in Nodes, cap[n] # None
  PROVE  /\ cap[n].box \in Boxes /\ cap[n].speed \in Nat /\ cap[n].ram \in Nat
         /\ cap[n].total \in Nat /\ cap[n].free \in 0 .. cap[n].total
         /\ cap[n].box.managed /\ Len(cap[n].box.cards) <= 1 /\ cap[n].free # 0 =>
              cap[n].free * 100 <= cap[n].total * cap[n].box.share
<1>1. PICK box \in Boxes : cap[n] = Capability(box)
  BY DEF SchedulerInv, Posted
<1>2. cap[n].box = box
  BY <1>1 DEF Capability
<1> QED  BY <1>1, <1>2, CapabilityIs

\* The inductive invariant of the scheduler: it holds at the start, ...
LEMMA SchedulerInitInv == SchedulerInit => SchedulerInv
BY DEF SchedulerInit, SchedulerInv

\* ... and every step keeps it.
LEMMA SchedulerStepInv == SchedulerInv /\ [SchedulerNext]_schedulerVars => SchedulerInv'
<1> SUFFICES ASSUME SchedulerInv, [SchedulerNext]_schedulerVars PROVE SchedulerInv'
  OBVIOUS
<1>1. ASSUME NEW n \in Nodes, NEW box \in Boxes, PostCapability(n, box) PROVE SchedulerInv'
  <2> DEFINE c == Capability(box)
  <2>1. c # None /\ c \in Posted
    BY CapabilityIs DEF Posted
  <2>2. cap' = [cap EXCEPT ![n] = c] /\ beat' = beat
    BY <1>1 DEF PostCapability
  <2> HIDE DEF c
  <2>3. cap' \in [Nodes -> {None} \cup Posted]
    BY <2>1, <2>2 DEF SchedulerInv
  <2>4. ASSUME NEW m \in Nodes, beat[m] # None PROVE BeatOK(m)'
    <3>1. BeatOK(m)
      BY <2>4 DEF SchedulerInv
    <3>2. cap'[m] # None
      BY <2>1, <2>2, <3>1 DEF SchedulerInv, BeatOK
    <3> QED  BY <2>2, <3>1, <3>2 DEF BeatOK
  <2> QED  BY <2>2, <2>3, <2>4 DEF SchedulerInv, Posted
<1>2. ASSUME NEW n \in Nodes, NEW queue \in Queues, NEW ram \in Rams,
             NEW rtts \in Measured(n), Heartbeat(n, queue, ram, rtts)
      PROVE  SchedulerInv'
  <2>1. PICK S \in SUBSET (Nodes \ {n}) : rtts \in [S -> RTTs]
    BY DEF Measured
  <2> DEFINE b == [queue |-> queue, ram |-> ram, rtts |-> rtts]
  <2>2. cap[n] # None /\ beat' = [beat EXCEPT ![n] = b] /\ cap' = cap
    BY <1>2 DEF Heartbeat
  <2>3. DOMAIN beat' = Nodes
    BY <2>2 DEF SchedulerInv
  <2>4. BeatOK(n)'
    <3>1. beat'[n] = b /\ b.queue = queue /\ b.ram = ram /\ b.rtts = rtts
      BY <2>2 DEF SchedulerInv
    <3> HIDE DEF b
    <3>2. DOMAIN rtts \subseteq Nodes \ {n} /\ \A p \in DOMAIN rtts : rtts[p] \in RTTs
      BY <2>1
    <3>3. beat'[n].queue = queue /\ beat'[n].ram = ram /\ beat'[n].rtts = rtts
      BY <3>1
    <3> QED  BY <2>2, <3>2, <3>3 DEF BeatOK
  <2>5. ASSUME NEW m \in Nodes \ {n}, beat'[m] # None PROVE BeatOK(m)'
    <3>1. beat'[m] = beat[m]
      BY <2>2
    <3> QED  BY <2>2, <2>5, <3>1 DEF SchedulerInv, BeatOK
  <2> QED  BY <2>2, <2>3, <2>4, <2>5 DEF SchedulerInv, Posted
<1>3. CASE Restart
  BY <1>3 DEF SchedulerInv, Restart, Posted
<1>4. CASE UNCHANGED schedulerVars
  BY <1>4 DEF SchedulerInv, schedulerVars, Posted, BeatOK
<1> QED  BY <1>1, <1>2, <1>3, <1>4 DEF SchedulerNext

\* Whatever machines nodes come up with and whatever they report, a node never
\* advertises more free VRAM than it has, and heartbeats come from nodes that
\* have posted a capability (measure_capability, _post_capability, heartbeat).
THEOREM SchedulerTypes == SchedulerSpec => []SchedulerTypeOK
<1>1. SchedulerInv => SchedulerTypeOK
  BY CapIs DEF SchedulerInv, BeatOK, SchedulerTypeOK
<1> QED  BY SchedulerInitInv, SchedulerStepInv, <1>1, PTL DEF SchedulerSpec

(***************************************************************************)
(* The graph.  After any prefix of the samples a direction has what its    *)
(* own end measured, once that sample has been met, and until then what    *)
(* the other end did.                                                      *)
(***************************************************************************)
\* A sequence lists an element.
Lists(s, e) == \E i \in 1 .. Len(s) : s[i] = e

Sampled(N, a, b) == a \in N /\ b \in N /\ beat[a] # None /\ b \in DOMAIN beat[a].rtts

SampleOf(a, b) == [a |-> a, b |-> b, rtt |-> beat[a].rtts[b]]

\* The samples of one node are exactly what it measured to nodes of the request.
LEMMA SamplesOfIs ==
  ASSUME SchedulerInv, NEW N \in SUBSET Nodes, NEW n \in Nodes
  PROVE  /\ SamplesOf(n, N) \in Seq(Sample)
         /\ \A e : Lists(SamplesOf(n, N), e) <=>
                     \E b \in Nodes : Sampled(N, n, b) /\ e = SampleOf(n, b)
<1>1. CASE n \notin N \/ beat[n] = None
  <2>1. SamplesOf(n, N) = <<>>
    BY <1>1 DEF SamplesOf
  <2> QED  BY <1>1, <2>1 DEF Sampled, Lists
<1>2. CASE n \in N /\ beat[n] # None
  <2> DEFINE peers == Row(DOMAIN beat[n].rtts \cap N)
             s == SamplesOf(n, N)
  <2>1. s = [i \in 1 .. Len(peers) |-> [a |-> n, b |-> peers[i], rtt |-> beat[n].rtts[peers[i]]]]
    BY <1>2 DEF SamplesOf
  <2>2. /\ peers \in Seq(Nodes)
        /\ \A m : (\E i \in 1 .. Len(peers) : peers[i] = m)
                  <=> m \in DOMAIN beat[n].rtts \cap N /\ m \in Nodes
    BY RowIs
  <2>3. BeatOK(n)
    BY <1>2 DEF SchedulerInv
  <2> HIDE DEF peers, s
  <2>4. \A i \in 1 .. Len(peers) : /\ peers[i] \in Nodes /\ Sampled(N, n, peers[i])
                                   /\ s[i] = SampleOf(n, peers[i])
    BY <1>2, <2>1, <2>2 DEF Sampled, SampleOf
  <2>5. \A b \in Nodes : Sampled(N, n, b) => beat[n].rtts[b] \in RTTs
    BY <2>3 DEF Sampled, BeatOK
  <2>6. \A i \in 1 .. Len(peers) : s[i] \in Sample
    <3>1. \A b \in Nodes : Sampled(N, n, b) => SampleOf(n, b) \in Sample
      BY <2>5 DEF SampleOf, Sample
    <3> QED  BY <2>4, <3>1, Zenon
  <2>7. s \in Seq(Sample) /\ Len(s) = Len(peers)
    <3>1. Len(peers) \in Nat
      BY <2>2
    <3> QED  BY <2>1, <2>6, <3>1
  <2>8. ASSUME NEW b \in Nodes, Sampled(N, n, b)
        PROVE  \E i \in 1 .. Len(s) : s[i] = SampleOf(n, b)
    <3>1. PICK i \in 1 .. Len(peers) : peers[i] = b
      BY <2>2, <2>8 DEF Sampled
    <3> QED  BY <2>4, <2>7, <3>1
  <2>9. \A e : (\E i \in 1 .. Len(s) : s[i] = e)
               <=> \E b \in Nodes : Sampled(N, n, b) /\ e = SampleOf(n, b)
    BY <2>4, <2>7, <2>8
  <2> QED  BY <2>7, <2>9 DEF s, Lists
<1> QED  BY <1>1, <1>2

\* What a concatenation lists.
LEMMA JoinIs ==
  ASSUME NEW T, NEW s \in Seq(T), NEW u \in Seq(T)
  PROVE  /\ s \o u \in Seq(T)
         /\ \A e : Lists(s \o u, e) <=> Lists(s, e) \/ Lists(u, e)
<1> DEFINE w == s \o u
<1>1. /\ w \in Seq(T) /\ Len(w) = Len(s) + Len(u) /\ Len(s) \in Nat /\ Len(u) \in Nat
      /\ \A i \in 1 .. Len(s) : w[i] = s[i]
      /\ \A i \in 1 .. Len(u) : w[Len(s) + i] = u[i]
  OBVIOUS
<1> HIDE DEF w
<1>2. \A i \in 1 .. Len(w) : i \in 1 .. Len(s) \/ \E j \in 1 .. Len(u) : i = Len(s) + j
  <2> SUFFICES ASSUME NEW i \in 1 .. Len(w), i \notin 1 .. Len(s)
               PROVE  \E j \in 1 .. Len(u) : i = Len(s) + j
    OBVIOUS
  <2>1. i - Len(s) \in 1 .. Len(u) /\ i = Len(s) + (i - Len(s))
    BY <1>1
  <2> QED  BY <2>1
<1>3. ASSUME NEW e, NEW i \in 1 .. Len(w), w[i] = e
      PROVE  (\E j \in 1 .. Len(s) : s[j] = e) \/ (\E j \in 1 .. Len(u) : u[j] = e)
  BY <1>1, <1>2, <1>3
<1>4. ASSUME NEW e, NEW i \in 1 .. Len(s), s[i] = e PROVE \E j \in 1 .. Len(w) : w[j] = e
  <2>1. i \in 1 .. Len(w)
    BY <1>1
  <2> QED  BY <1>1, <1>4, <2>1
<1>5. ASSUME NEW e, NEW i \in 1 .. Len(u), u[i] = e PROVE \E j \in 1 .. Len(w) : w[j] = e
  <2>1. Len(s) + i \in 1 .. Len(w)
    BY <1>1
  <2> QED  BY <1>1, <1>5, <2>1
<1>6. \A e : Lists(w, e) <=> Lists(s, e) \/ Lists(u, e)
  BY <1>3, <1>4, <1>5 DEF Lists
<1> QED  BY <1>1, <1>6 DEF w

\* The samples of a request are exactly those of its nodes.
LEMMA SamplesAre ==
  ASSUME SchedulerInv, NEW N \in SUBSET Nodes
  PROVE  /\ Samples(N) \in Seq(Sample)
         /\ \A e : Lists(Samples(N), e)
                   <=> \E a, b \in Nodes : Sampled(N, a, b) /\ e = SampleOf(a, b)
<1> DEFINE n == Len(Rows)
           of(k) == SamplesOf(Rows[k], N)
<1>1. n \in Nat /\ DOMAIN Rows = 1 .. n /\ \A k \in 1 .. n : Rows[k] \in Nodes
  BY RowsType
<1>2. \A k \in 1 .. n : of(k) \in Seq(Sample)
  BY <1>1, SamplesOfIs
<1> HIDE DEF n
<1>3. PICK h : Gathers(h, n, N)
  BY <1>1, <1>2, SamplesFold, Zenon
<1>4. /\ h \in [0 .. n -> Seq(Sample)] /\ h[0] = <<>> /\ h[n] = Samples(N)
      /\ \A k \in 0 .. n - 1 : h[k + 1] = h[k] \o of(k + 1)
  BY <1>3 DEF Gathers
<1> DEFINE Met(k, e) == \E j \in 1 .. k : Lists(of(j), e)
           T == {k \in 0 .. n : \A e : Lists(h[k], e) <=> Met(k, e)}
<1> HIDE DEF of
<1>5. 0 \in T
  BY <1>1, <1>4 DEF Lists
<1>6. ASSUME NEW k \in 0 .. n - 1, k \in T
      PROVE  k + 1 \in T
  <2>1. k + 1 \in 0 .. n /\ k + 1 \in 1 .. n /\ k \in 0 .. n
    BY <1>1
  <2>2. h[k] \in Seq(Sample) /\ of(k + 1) \in Seq(Sample)
    BY <1>2, <1>4, <2>1
  <2>3. \A e : Lists(h[k] \o of(k + 1), e) <=> Lists(h[k], e) \/ Lists(of(k + 1), e)
    BY <2>2, JoinIs, Zenon
  <2>4. h[k + 1] = h[k] \o of(k + 1)
    BY <1>4
  <2>5. \A e : Met(k + 1, e) <=> Met(k, e) \/ Lists(of(k + 1), e)
    <3>1. 1 .. k + 1 = (1 .. k) \cup {k + 1}
      BY <2>1
    <3> QED  BY <3>1
  <2>6. \A e : Lists(h[k], e) <=> Met(k, e)
    BY <1>6
  <2> HIDE DEF Met
  <2> QED  BY <2>1, <2>3, <2>4, <2>5, <2>6
<1> HIDE DEF T
<1>7. n \in T
  <2>1. \A k \in 0 .. n - 1 : k \in T => k + 1 \in T
    BY <1>6, Zenon
  <2>2. 0 .. n \subseteq T
    BY <1>1, <1>5, <2>1, Climb, Zenon
  <2> QED  BY <1>1, <2>2
<1>8. \A e : Lists(Samples(N), e) <=> Met(n, e)
  BY <1>4, <1>7 DEF T
<1>9. \A k \in 1 .. n : \A e :
        Lists(of(k), e) <=> \E b \in Nodes : Sampled(N, Rows[k], b) /\ e = SampleOf(Rows[k], b)
  BY <1>1, SamplesOfIs DEF of
<1>10. \A e : Met(n, e) <=> \E a, b \in Nodes : Sampled(N, a, b) /\ e = SampleOf(a, b)
  <2>1. \A m \in Nodes : \E k \in 1 .. n : Rows[k] = m
    BY RowsType DEF n
  <2> QED  BY <1>1, <1>9, <2>1
<1>11. Samples(N) \in Seq(Sample)
  BY <1>1, <1>4
<1> QED  BY <1>8, <1>10, <1>11

Own(a, b) == Direct(beat[a].rtts[b])

\* A measured link has the type of a link.
LEMMA DirectType ==
  ASSUME NEW r \in RTTs
  PROVE  Direct(r) # None /\ Direct(r) \in LinkMetrics
<1>1. r \in Nat
  BY SchedulerAssumption DEF SchedulerAssumption
<1>2. Direct(r) \in LinkMetrics
  BY <1>1 DEF Direct, LinkMetrics
<1> QED  BY <1>2, SchedulerAssumption DEF SchedulerAssumption

\* The graph as the property states it: the fold over the samples keeps, for
\* the samples met so far, what the property says of all of them.
LEMMA GraphIs ==
  ASSUME SchedulerInv, NEW N \in SUBSET Nodes
  PROVE  /\ Graph(N) \in Grid
         /\ \A a, b \in Nodes : a # b =>
              Graph(N)[a][b] = IF Sampled(N, a, b) THEN Own(a, b)
                               ELSE IF Sampled(N, b, a) THEN Own(b, a) ELSE None
<1> DEFINE s == Samples(N)
           n == Len(s)
<1>1. /\ s \in Seq(Sample) /\ n \in Nat /\ DOMAIN s = 1 .. n
      /\ \A e : (\E i \in 1 .. n : s[i] = e)
                <=> \E a, b \in Nodes : Sampled(N, a, b) /\ e = SampleOf(a, b)
  <2>1. s \in Seq(Sample)
    BY SamplesAre
  <2>2. \A e : (\E i \in 1 .. n : s[i] = e)
               <=> \E a, b \in Nodes : Sampled(N, a, b) /\ e = SampleOf(a, b)
    BY SamplesAre, Zenon DEF Lists
  <2> HIDE DEF s
  <2> QED  BY <2>1, <2>2
<1> HIDE DEF n
<1>2. \A k \in 1 .. n : s[k] \in Sample
  BY <1>1
<1>3. PICK h : Draws(h, n, N)
  BY <1>1, <1>2, GraphFold, Zenon
<1> HIDE DEF s
<1>4. /\ h \in [0 .. n -> Grid] /\ h[0] = Blank /\ h[n] = Graph(N)
      /\ \A k \in 0 .. n - 1 : h[k + 1] = SetLink(h[k], s[k + 1])
  BY <1>3 DEF Draws, s
<1> DEFINE Met(k, a, b) == \E j \in 1 .. k : s[j].a = a /\ s[j].b = b
           Value(k, a, b) == IF Met(k, a, b) THEN Own(a, b)
                             ELSE IF Met(k, b, a) THEN Own(b, a) ELSE None
           T == {k \in 0 .. n : \A a, b \in Nodes : a # b => h[k][a][b] = Value(k, a, b)}
<1>5. \A j \in 1 .. n : /\ s[j].a \in Nodes /\ s[j].b \in Nodes /\ s[j].a # s[j].b
                        /\ s[j].rtt = beat[s[j].a].rtts[s[j].b]
                        /\ s[j].rtt \in RTTs /\ Sampled(N, s[j].a, s[j].b)
  <2> SUFFICES ASSUME NEW j \in 1 .. n
               PROVE  /\ s[j].a \in Nodes /\ s[j].b \in Nodes /\ s[j].a # s[j].b
                      /\ s[j].rtt = beat[s[j].a].rtts[s[j].b]
                      /\ s[j].rtt \in RTTs /\ Sampled(N, s[j].a, s[j].b)
    OBVIOUS
  <2>1. PICK a, b \in Nodes : Sampled(N, a, b) /\ s[j] = SampleOf(a, b)
    BY <1>1
  <2>2. s[j].a = a /\ s[j].b = b /\ s[j].rtt = beat[a].rtts[b]
    BY <2>1 DEF SampleOf
  <2>3. BeatOK(a)
    BY <2>1 DEF SchedulerInv, Sampled
  <2> QED  BY <2>1, <2>2, <2>3 DEF BeatOK, Sampled
<1>6. 0 \in T
  <2>1. \A a, b : ~ Met(0, a, b)
    OBVIOUS
  <2>2. \A a, b \in Nodes : h[0][a][b] = None
    BY <1>4 DEF Blank
  <2> HIDE DEF Met
  <2> QED  BY <1>1, <2>1, <2>2
<1>7. ASSUME NEW k \in 0 .. n - 1, k \in T
      PROVE  k + 1 \in T
  <2> DEFINE e == s[k + 1]
             g == h[k]
             x == e.a
             y == e.b
  <2>1. k + 1 \in 0 .. n /\ k + 1 \in 1 .. n /\ k \in 0 .. n
    BY <1>1
  <2>2. x \in Nodes /\ y \in Nodes /\ x # y /\ Direct(e.rtt) = Own(x, y) /\ Own(x, y) # None
    BY <1>5, <2>1, DirectType DEF Own
  <2>3. g \in Grid
    BY <1>4, <2>1
  <2>4. \A a, b : Met(k + 1, a, b) <=> Met(k, a, b) \/ (a = x /\ b = y)
    <3>1. 1 .. k + 1 = (1 .. k) \cup {k + 1}
      BY <2>1
    <3> QED  BY <3>1
  <2>5. \A a, b \in Nodes : Met(k, a, b) => Own(a, b) # None
    <3> SUFFICES ASSUME NEW a \in Nodes, NEW b \in Nodes, Met(k, a, b) PROVE Own(a, b) # None
      OBVIOUS
    <3>1. PICK j \in 1 .. k : s[j].a = a /\ s[j].b = b
      OBVIOUS
    <3>2. j \in 1 .. n
      BY <1>1, <2>1
    <3>3. beat[a].rtts[b] \in RTTs
      BY <1>5, <3>1, <3>2
    <3> QED  BY <3>3, DirectType DEF Own
  <2>6. h[k + 1] = SetLink(g, e)
    BY <1>4
  <2>7. h[k + 1] = [g EXCEPT ![x][y] = Own(x, y), ![y][x] = IF @ = None THEN Own(x, y) ELSE @]
    BY <2>2, <2>6 DEF SetLink, SetLinkOf
  <2>8. \A a, b \in Nodes : a # b => g[a][b] = Value(k, a, b)
    BY <1>7
  <2> HIDE DEF g, x, y, e
  <2>9. /\ h[k + 1][x][y] = Own(x, y)
        /\ h[k + 1][y][x] = IF g[y][x] = None THEN Own(x, y) ELSE g[y][x]
        /\ \A a, b \in Nodes : ~ (a = x /\ b = y) /\ ~ (a = y /\ b = x) => h[k + 1][a][b] = g[a][b]
    <3>1. h[k + 1][x][y] = Own(x, y)
      BY <2>2, <2>3, <2>7 DEF Grid
    <3>2. h[k + 1][y][x] = IF g[y][x] = None THEN Own(x, y) ELSE g[y][x]
      BY <2>2, <2>3, <2>7 DEF Grid
    <3>3. ASSUME NEW a \in Nodes, NEW b \in Nodes, ~ (a = x /\ b = y), ~ (a = y /\ b = x)
          PROVE  h[k + 1][a][b] = g[a][b]
      <4>1. CASE a = x
        BY <2>2, <2>3, <2>7, <3>3, <4>1 DEF Grid
      <4>2. CASE a = y
        BY <2>2, <2>3, <2>7, <3>3, <4>2 DEF Grid
      <4>3. CASE a # x /\ a # y
        BY <2>2, <2>3, <2>7, <4>3 DEF Grid
      <4> QED  BY <4>1, <4>2, <4>3
    <3> QED  BY <3>1, <3>2, <3>3
  <2> HIDE DEF Met
  <2>10. ASSUME NEW a \in Nodes, NEW b \in Nodes, a # b
         PROVE  h[k + 1][a][b] = Value(k + 1, a, b)
    <3>1. CASE a = x /\ b = y
      BY <2>4, <2>9, <3>1
    <3>2. CASE a = y /\ b = x
      <4>1. Met(k + 1, b, a) /\ (Met(k + 1, a, b) <=> Met(k, a, b))
        BY <2>2, <2>4, <3>2
      <4>2. g[a][b] = Value(k, a, b)
        BY <2>8, <2>10
      <4>3. Met(k, b, a) => Own(b, a) # None
        BY <2>5
      <4>4. Met(k, a, b) => Own(a, b) # None
        BY <2>5
      <4> QED  BY <2>9, <3>2, <4>1, <4>2, <4>3, <4>4
    <3>3. CASE ~ (a = x /\ b = y) /\ ~ (a = y /\ b = x)
      <4>1. (Met(k + 1, a, b) <=> Met(k, a, b)) /\ (Met(k + 1, b, a) <=> Met(k, b, a))
        BY <2>4, <3>3
      <4>2. h[k + 1][a][b] = g[a][b]
        BY <2>9, <3>3
      <4> QED  BY <2>8, <2>10, <4>1, <4>2
    <3> QED  BY <3>1, <3>2, <3>3
  <2> QED  BY <2>1, <2>10
<1> HIDE DEF T
<1>8. n \in T
  <2>1. \A k \in 0 .. n - 1 : k \in T => k + 1 \in T
    BY <1>7, Zenon
  <2>2. 0 .. n \subseteq T
    BY <1>1, <1>6, <2>1, Climb, Zenon
  <2> QED  BY <1>1, <2>2
<1>9. \A a, b \in Nodes : Met(n, a, b) <=> Sampled(N, a, b)
  <2>1. \A a, b \in Nodes : Met(n, a, b) => Sampled(N, a, b)
    BY <1>5
  <2>2. \A a, b \in Nodes : Sampled(N, a, b) => Met(n, a, b)
    <3> SUFFICES ASSUME NEW a \in Nodes, NEW b \in Nodes, Sampled(N, a, b) PROVE Met(n, a, b)
      OBVIOUS
    <3>1. PICK j \in 1 .. n : s[j] = SampleOf(a, b)
      BY <1>1
    <3>2. s[j].a = a /\ s[j].b = b
      BY <3>1 DEF SampleOf
    <3> QED  BY <3>2
  <2> QED  BY <2>1, <2>2
<1>10. \A a, b \in Nodes : a # b => h[n][a][b] = Value(n, a, b)
  BY <1>8 DEF T
<1>11. h[n] \in Grid
  BY <1>1, <1>4
<1> HIDE DEF Met
<1> QED  BY <1>4, <1>9, <1>10, <1>11

\* For every number of nodes and in whatever order the rows come: a direction
\* of the graph has what its own end measured, else what the other end did
\* (POST /schedule, TopologyGraph.set_link).
THEOREM LinksMeasured == SchedulerSpec => []LinksAsMeasured
<1>1. SchedulerInv => LinksAsMeasured
  <2> SUFFICES ASSUME SchedulerInv PROVE LinksAsMeasured
    OBVIOUS
  <2>1. Known \in SUBSET Nodes
    BY DEF Known
  <2> QED  BY <2>1, GraphIs DEF LinksAsMeasured, Sampled, Own
<1> QED  BY SchedulerInitInv, SchedulerStepInv, <1>1, PTL DEF SchedulerSpec

(***************************************************************************)
(* What the parts of a cost are.                                           *)
(***************************************************************************)

\* Naturals are closed under these operations.
LEMMA Arithmetic == /\ \A x, y \in Nat : x * y \in Nat /\ x + y \in Nat
                    /\ \A x \in Nat, y \in Nat \ {0} : x \div y \in Nat
                    /\ \A x, y \in Nat \ {0} : x * y \in Nat \ {0}
<1>1. \A x, y \in Nat : x * y \in Nat /\ x + y \in Nat
  OBVIOUS
<1>2. \A x \in Nat, y \in Nat \ {0} : x \div y \in Nat
  OBVIOUS
<1>3. \A x, y \in Nat \ {0} : x * y \in Nat \ {0}
  OBVIOUS
<1> QED  BY <1>1, <1>2, <1>3

\* The memory a model needs is a natural number.
LEMMA NeedType == Need \in Nat
<1>1. ModelGB \in Nat /\ Context \in Nat
  BY SchedulerAssumption DEF SchedulerAssumption
<1>2. AtLeast1(Context) \in Nat
  BY <1>1 DEF AtLeast1
<1> DEFINE x == ModelGB * 20 * AtLeast1(Context)
<1>3. x \in Nat
  <2>1. ModelGB * 20 \in Nat
    BY <1>1
  <2> QED  BY <1>2, <2>1, Arithmetic
<1>4. KvAllowance = x \div (100 * 32768)
  BY DEF KvAllowance
<1> HIDE DEF x
<1>5. KvAllowance \in Nat
  BY <1>3, <1>4
<1> QED  BY <1>1, <1>5 DEF Need

\* So is the time to read the prompt.
LEMMA PrefillType ==
  ASSUME NEW k \in Nat \ {0}, NEW p \in Nat \ {0}
  PROVE  PrefillMs(k, p) \in Nat
<1>1. Prompt \in Nat
  BY SchedulerAssumption DEF SchedulerAssumption
<1> DEFINE x == Prompt * 1000 * 100
           y == 400 * k * p
<1>2. x \in Nat
  BY <1>1
<1>3. y \in Nat \ {0}
  <2>1. 400 * k \in Nat \ {0}
    OBVIOUS
  <2> QED  BY <2>1, Arithmetic
<1>4. PrefillMs(k, p) = x \div y
  BY DEF PrefillMs
<1> HIDE DEF x, y
<1> QED  BY <1>2, <1>3, <1>4, Arithmetic

\* What a cost takes from one node, and the costs of plans that run on one.
LEMMA NodeType ==
  ASSUME SchedulerInv, NEW n \in Known
  PROVE  /\ n \in Nodes /\ Usable(n) \in Nat /\ DecodeMs(n) \in Nat /\ Depth(n) \in Nat
         /\ ClientLink(n).rtt \in Nat /\ SingleMs(n) \in Int /\ SpeculativeMs(n) \in Int
<1>1. n \in Nodes /\ cap[n] # None
  BY DEF Known
<1>2. Usable(n) \in Nat /\ DecodeMs(n) \in Nat
  <2>1. Rams \subseteq Nat
    BY SchedulerAssumption DEF SchedulerAssumption
  <2>2. RamOf(n) \in Nat
    BY <1>1, <2>1, CapIs DEF RamOf, SchedulerInv, BeatOK
  <2> QED  BY <1>1, <2>2, CapIs DEF Usable, DecodeMs
<1>3. Depth(n) \in Nat
  <2>1. Queues \subseteq Nat
    BY SchedulerAssumption DEF SchedulerAssumption
  <2> QED  BY <1>1, <2>1 DEF Depth, SchedulerInv, BeatOK
<1>4. ClientLink(n).rtt \in Nat
  BY <1>1, SchedulerAssumption DEF SchedulerAssumption, ClientLink, UnknownLink, Direct
<1>5. PrefillMs(1, 100) \in Nat
  BY PrefillType
<1> DEFINE d == DecodeMs(n)
           q == Depth(n)
           e == (d * 10) \div 16
<1>6. q * d \in Nat
  BY <1>2, <1>3, Arithmetic
<1>7. e \in Nat
  BY <1>2
<1>8. q * e \in Nat
  <2> HIDE DEF e
  <2> QED  BY <1>3, <1>7, Arithmetic
<1>9. SingleMs(n) = q * d + PrefillMs(1, 100) + ClientLink(n).rtt + d
  BY DEF SingleMs, WithQueue
<1>10. SpeculativeMs(n) = q * e + PrefillMs(1, 100) + ClientLink(n).rtt + e
  BY DEF SpeculativeMs
<1> HIDE DEF d, q, e
<1>11. d \in Nat
  BY <1>2 DEF d
<1>12. SingleMs(n) \in Int
  <2> DEFINE x == q * d
  <2>1. x \in Nat
    BY <1>6
  <2> HIDE DEF x
  <2>2. SingleMs(n) = x + PrefillMs(1, 100) + ClientLink(n).rtt + d
    BY <1>9 DEF x
  <2> QED  BY <1>4, <1>5, <1>11, <2>1, <2>2
<1>13. SpeculativeMs(n) \in Int
  <2> DEFINE x == q * e
  <2>1. x \in Nat
    BY <1>8
  <2> HIDE DEF x
  <2>2. SpeculativeMs(n) = x + PrefillMs(1, 100) + ClientLink(n).rtt + e
    BY <1>10 DEF x
  <2> QED  BY <1>4, <1>5, <1>7, <2>1, <2>2
<1> QED  BY <1>1, <1>2, <1>3, <1>4, <1>12, <1>13

\* Every link of the graph is one: measured, unknown, or to itself.
LEMMA LinkType ==
  ASSUME SchedulerInv, NEW N \in SUBSET Nodes, NEW a \in Nodes, NEW b \in Nodes
  PROVE  Link(Graph(N), a, b) \in LinkMetrics
<1>1. Graph(N)[a][b] \in Links
  BY GraphIs DEF Grid
<1>2. \A l \in Links : l # None => l \in LinkMetrics
  BY DirectType DEF Links
<1>3. Loopback \in LinkMetrics /\ UnknownLink \in LinkMetrics
  BY DEF Loopback, UnknownLink, LinkMetrics
<1> QED  BY <1>1, <1>2, <1>3 DEF Link

\* The worst link of a chain is a link.
LEMMA WorstType ==
  ASSUME SchedulerInv, NEW N \in SUBSET Nodes, NEW chain \in Seq(Nodes), Len(chain) > 0
  PROVE  WorstLink(Graph(N), chain) \in LinkMetrics
<1> DEFINE n == Len(chain) - 1
           g == Graph(N)
<1>1. n \in Nat /\ DOMAIN Hops(g, chain) = 1 .. n
  BY DEF Hops
<1>2. ASSUME NEW k \in 1 .. n PROVE Hops(g, chain)[k] \in LinkMetrics
  <2>1. chain[k] \in Nodes /\ chain[k + 1] \in Nodes
    OBVIOUS
  <2>2. Hops(g, chain)[k] = Link(g, chain[k], chain[k + 1])
    BY DEF Hops
  <2> QED  BY <2>1, <2>2, LinkType
<1> HIDE DEF n, g
<1>3. PICK h : Compares(h, n, g, chain)
  BY <1>1, <1>2, WorstFold, Zenon
<1> QED  BY <1>1, <1>3 DEF Compares, g

\* The slowest and the busiest member of a chain have their types.
LEMMA SlowestType ==
  ASSUME SchedulerInv, NEW chain \in Seq(Known), Len(chain) > 0
  PROVE  /\ MaxOf({DecodeMs(m) : m \in ToSet(chain)}) \in Nat
         /\ MaxOf({Depth(m) : m \in ToSet(chain)}) \in Nat
<1> DEFINE n == Len(chain)
           v == [i \in 1 .. n |-> DecodeMs(chain[i])]
           w == [i \in 1 .. n |-> Depth(chain[i])]
<1>1. n \in Nat /\ n > 0 /\ DOMAIN chain = 1 .. n /\ \A i \in 1 .. n : chain[i] \in Known
  OBVIOUS
<1> HIDE DEF n
<1>2. \A i \in 1 .. n : v[i] \in Nat /\ w[i] \in Nat
  BY <1>1, NodeType
<1>3. {DecodeMs(m) : m \in ToSet(chain)} = {v[i] : i \in 1 .. n}
  BY <1>1 DEF ToSet
<1>4. {Depth(m) : m \in ToSet(chain)} = {w[i] : i \in 1 .. n}
  BY <1>1 DEF ToSet
<1> HIDE DEF v, w
<1>5. \A i \in 1 .. n : v[i] \in Int /\ w[i] \in Int
  BY <1>2
<1>6. MaxOf({v[i] : i \in 1 .. n}) \in {v[i] : i \in 1 .. n}
  BY <1>1, <1>5, MaxOfIs
<1>7. MaxOf({w[i] : i \in 1 .. n}) \in {w[i] : i \in 1 .. n}
  BY <1>1, <1>5, MaxOfIs
<1>8. MaxOf({DecodeMs(m) : m \in ToSet(chain)}) \in Nat
  BY <1>2, <1>3, <1>6
<1>9. MaxOf({Depth(m) : m \in ToSet(chain)}) \in Nat
  BY <1>2, <1>4, <1>7
<1> QED  BY <1>8, <1>9

\* The cost of a pipeline is a number.
LEMMA PipelineType ==
  ASSUME SchedulerInv, NEW N \in SUBSET Nodes, NEW chain \in Seq(Known), Len(chain) > 0
  PROVE  PipelineMs(Graph(N), chain) \in Int
<1> DEFINE l == WorstLink(Graph(N), chain)
           hops == Len(chain) - 1
           slowest == MaxOf({DecodeMs(n) : n \in ToSet(chain)})
           m == ClientLink(chain[1]).rtt
<1>1. chain \in Seq(Nodes)
  BY DEF Known
<1>2. l \in LinkMetrics
  BY <1>1, WorstType
<1>3. slowest \in Nat
  BY SlowestType
<1>4. hops \in Nat /\ m \in Nat
  BY NodeType
<1>5. PipelineMs(Graph(N), chain) =
        PrefillMs(1, 100) + m + (slowest * 100) \div 65 + 257 * hops * l.rtt
        + (257 * hops * 96) \div l.mbps + 80 * l.unstable
  BY DEF PipelineMs
<1>6. PrefillMs(1, 100) \in Nat
  BY PrefillType
<1> HIDE DEF l, hops, slowest, m
<1>7. l.rtt \in Nat /\ l.mbps \in Nat \ {0} /\ l.unstable \in Nat
  BY <1>2 DEF LinkMetrics
<1> DEFINE x == (slowest * 100) \div 65
           y == 257 * hops * l.rtt
           z == (257 * hops * 96) \div l.mbps
           w == 80 * l.unstable
<1>8. x \in Nat /\ w \in Nat
  BY <1>3, <1>7
<1>9. y \in Nat
  <2>1. 257 * hops \in Nat
    BY <1>4
  <2> QED  BY <1>7, <2>1, Arithmetic
<1>10. z \in Nat
  <2>1. 257 * hops * 96 \in Nat
    BY <1>4
  <2> QED  BY <1>7, <2>1, Arithmetic
<1>11. PipelineMs(Graph(N), chain) = PrefillMs(1, 100) + m + x + y + z + w
  BY <1>5
<1> HIDE DEF x, y, z, w
<1> QED  BY <1>4, <1>6, <1>8, <1>9, <1>10, <1>11

\* The cost of a tensor pod is a number.
LEMMA TensorType ==
  ASSUME SchedulerInv, NEW N \in SUBSET Nodes, NEW chain \in Seq(Known), Len(chain) > 0
  PROVE  TensorMs(Graph(N), chain) \in Int
<1> DEFINE l == WorstLink(Graph(N), chain)
           k == Len(chain)
           slowest == MaxOf({DecodeMs(n) : n \in ToSet(chain)})
           depth == MaxOf({Depth(n) : n \in ToSet(chain)})
           m == ClientLink(chain[1]).rtt
           e == (slowest * 100) \div (100 + 85 * (k - 1))
<1>1. chain \in Seq(Nodes)
  BY DEF Known
<1>2. l \in LinkMetrics
  BY <1>1, WorstType
<1>3. slowest \in Nat /\ depth \in Nat
  BY SlowestType
<1>4. k \in Nat \ {0} /\ m \in Nat
  BY NodeType
<1>5. TensorMs(Graph(N), chain) =
        depth * e + PrefillMs(k, 80) + m + e + 80 * l.unstable
  BY DEF TensorMs
<1>6. PrefillMs(k, 80) \in Nat
  BY <1>4, PrefillType
<1> HIDE DEF l, k, slowest, m, depth
<1>7. e \in Nat
  <2> DEFINE x == slowest * 100
             y == 100 + 85 * (k - 1)
  <2>1. x \in Nat
    BY <1>3
  <2>2. y \in Nat \ {0}
    BY <1>4
  <2>3. e = x \div y
    OBVIOUS
  <2> HIDE DEF x, y, e
  <2> QED  BY <2>1, <2>2, <2>3, Arithmetic
<1> HIDE DEF e
<1> DEFINE x == depth * e
           w == 80 * l.unstable
<1>8. x \in Nat
  BY <1>3, <1>7, Arithmetic
<1>9. w \in Nat
  BY <1>2 DEF LinkMetrics
<1>10. TensorMs(Graph(N), chain) = x + PrefillMs(k, 80) + m + e + w
  BY <1>5
<1> HIDE DEF x, w
<1> QED  BY <1>4, <1>6, <1>7, <1>8, <1>9, <1>10

(***************************************************************************)
(* What plan() chooses among.                                              *)
(***************************************************************************)
Runs(N) == {n \in N : cap[n].box.runs}
Replicas(N) == {n \in Runs(N) : Fits(n)}
Replica(N, r) == r \in Replicas(N)

OfSingle(N, c) == \E r \in Nodes : Replica(N, r) /\ c = Candidate("single", <<r>>, SingleMs(r))

OfPipeline(N, c) ==
  /\ c.strategy = "pipeline" /\ Len(c.chain) = 2 /\ Holds(c.chain)
  /\ c.chain[1] \in N /\ c.chain[2] \in N

OfTensor(N, c) ==
  /\ c.strategy = "tensor" /\ Len(c.chain) \in {2, 3}
  /\ \A i \in 1 .. Len(c.chain) : Replica(N, c.chain[i])

OfSpeculative(N, c) ==
  /\ c.strategy = "speculative" /\ Len(c.chain) = 2
  /\ Replica(N, c.chain[1]) /\ c.chain[2] \in N

\* Lists of at most one plan.
LEMMA NoneListed == ASSUME NEW T PROVE <<>> \in Seq(T) /\ \A e : ~ Lists(<<>>, e)
BY DEF Lists

\* A list of one plan lists that plan only.
LEMMA OneListed ==
  ASSUME NEW T, NEW c \in T
  PROVE  <<c>> \in Seq(T) /\ \A e : Lists(<<c>>, e) => e = c
BY DEF Lists

\* The fields of a candidate.
LEMMA CandidateType ==
  ASSUME NEW strategy \in {"single", "pipeline", "tensor", "speculative"},
         NEW chain \in Seq(Nodes), NEW ms \in Int
  PROVE  /\ Candidate(strategy, chain, ms) \in CandidatePlan
         /\ Candidate(strategy, chain, ms).strategy = strategy
         /\ Candidate(strategy, chain, ms).chain = chain
         /\ Candidate(strategy, chain, ms).ms = ms
BY DEF Candidate, CandidatePlan

\* The single plans are one for every node that the model fits.
LEMMA SinglesAre ==
  ASSUME SchedulerInv, NEW N \in SUBSET Known
  PROVE  /\ Singles(Row(Replicas(N))) \in Seq(CandidatePlan)
         /\ \A c : Lists(Singles(Row(Replicas(N))), c) <=> OfSingle(N, c)
<1> DEFINE R == Replicas(N)
           r == Row(R)
           s == Singles(r)
<1>1. /\ r \in Seq(Nodes)
      /\ \A m : (\E i \in 1 .. Len(r) : r[i] = m) <=> m \in R /\ m \in Nodes
  BY RowIs
<1>2. s = [i \in 1 .. Len(r) |-> Candidate("single", <<r[i]>>, SingleMs(r[i]))]
  BY DEF Singles, Pool, Every
<1>3. \A m : m \in R <=> Replica(N, m)
  BY DEF Replica
<1> HIDE DEF r, s, R
<1>4. \A i \in 1 .. Len(r) : r[i] \in Nodes /\ Replica(N, r[i])
  BY <1>1, <1>3
<1>5. ASSUME NEW m \in Nodes, Replica(N, m)
      PROVE  Candidate("single", <<m>>, SingleMs(m)) \in CandidatePlan
  <2>1. SingleMs(m) \in Int
    BY <1>5, NodeType DEF Replica, Replicas, Runs
  <2>2. <<m>> \in Seq(Nodes)
    OBVIOUS
  <2> QED  BY <2>1, <2>2, CandidateType
<1>6. Len(s) = Len(r) /\ \A i \in 1 .. Len(r) : s[i] \in CandidatePlan
  <2>1. Len(r) \in Nat
    BY <1>1
  <2>2. \A i \in 1 .. Len(r) : s[i] = Candidate("single", <<r[i]>>, SingleMs(r[i]))
    BY <1>2
  <2>3. Len(s) = Len(r)
    BY <1>2, <2>1
  <2> QED  BY <1>4, <1>5, <2>2, <2>3
<1>7. s \in Seq(CandidatePlan)
  <2>1. Len(r) \in Nat
    BY <1>1
  <2> QED  BY <1>2, <1>6, <2>1
<1>8. ASSUME NEW c, Lists(s, c) PROVE OfSingle(N, c)
  <2>1. PICK i \in 1 .. Len(r) : s[i] = c
    BY <1>6, <1>8 DEF Lists
  <2>2. c = Candidate("single", <<r[i]>>, SingleMs(r[i]))
    BY <1>2, <2>1
  <2> QED  BY <1>4, <2>2 DEF OfSingle
<1>9. ASSUME NEW c, OfSingle(N, c) PROVE Lists(s, c)
  <2>1. PICK m \in Nodes : Replica(N, m) /\ c = Candidate("single", <<m>>, SingleMs(m))
    BY <1>9 DEF OfSingle
  <2>2. PICK i \in 1 .. Len(r) : r[i] = m
    BY <1>1, <1>3, <2>1
  <2>3. s[i] = c
    BY <1>2, <2>1, <2>2
  <2> QED  BY <1>6, <2>3 DEF Lists
<1> QED  BY <1>7, <1>8, <1>9 DEF s, r, R

\* The members that Fastest and Freest pick.
LEMMA PlacesIs ==
  ASSUME NEW S \in SUBSET Nodes, S # {}
  PROVE  /\ Len(Rows) \in Nat /\ Places(S) \in SUBSET (1 .. Len(Rows)) /\ Places(S) # {}
         /\ \A i \in Places(S) : Rows[i] \in S
<1>1. Places(S) # {}
  BY RowsType DEF Places
<1> QED  BY <1>1, RowsType DEF Places

\* The fastest of a set of nodes is one of them.
LEMMA FastestIs ==
  ASSUME SchedulerInv, NEW S \in SUBSET Known, S # {}
  PROVE  Fastest(S) \in S
<1> DEFINE v == [i \in Places(S) |-> DecodeMs(Rows[i])]
<1>1. S \in SUBSET Nodes
  BY DEF Known
<1>2. \A i \in Places(S) : v[i] \in Int
  BY <1>1, PlacesIs, NodeType
<1>3. DOMAIN v = Places(S) /\ DOMAIN v # {} /\ DOMAIN v \in SUBSET (1 .. Len(Rows))
  BY <1>1, PlacesIs
<1>4. Fastest(S) = Rows[FirstLeast(v)]
  BY DEF Fastest
<1> HIDE DEF v
<1>5. FirstLeast(v) \in Places(S)
  BY <1>1, <1>2, <1>3, PlacesIs, FirstLeastIs
<1> QED  BY <1>1, <1>4, <1>5, PlacesIs

\* The one with the most free VRAM is one of them.
LEMMA FreestIs ==
  ASSUME SchedulerInv, NEW S \in SUBSET Known, S # {}
  PROVE  Freest(S) \in S
<1> DEFINE v == [i \in Places(S) |-> - cap[Rows[i]].free]
<1>1. S \in SUBSET Nodes
  BY DEF Known
<1>2. \A i \in Places(S) : v[i] \in Int
  <2> SUFFICES ASSUME NEW i \in Places(S) PROVE v[i] \in Int
    OBVIOUS
  <2>1. Rows[i] \in Nodes /\ cap[Rows[i]] # None
    BY <1>1, PlacesIs DEF Known
  <2>2. cap[Rows[i]].free \in Int
    BY <2>1, CapIs
  <2> QED  BY <2>2
<1>3. DOMAIN v = Places(S) /\ DOMAIN v # {} /\ DOMAIN v \in SUBSET (1 .. Len(Rows))
  BY <1>1, PlacesIs
<1>4. Freest(S) = Rows[FirstLeast(v)]
  BY DEF Freest
<1> HIDE DEF v
<1>5. FirstLeast(v) \in Places(S)
  BY <1>1, <1>2, <1>3, PlacesIs, FirstLeastIs
<1> QED  BY <1>1, <1>4, <1>5, PlacesIs

\* A pipeline runs on two nodes that hold the model together.
LEMMA PipelinesAre ==
  ASSUME SchedulerInv, NEW N \in SUBSET Known
  PROVE  /\ Pipelines(Graph(N), Runs(N)) \in Seq(CandidatePlan)
         /\ \A c : Lists(Pipelines(Graph(N), Runs(N)), c) => OfPipeline(N, c)
<1> DEFINE able  == {n \in Runs(N) : Can(n, "pipeline")}
           first == Freest(able)
           rest == able \ {first}
           chain == <<first, Freest(rest)>>
           ms == PipelineMs(Graph(N), chain)
           c == Candidate("pipeline", chain, ms)
<1>1. CASE Cardinality(able) >= 2 /\ Holds(chain)
  <2>1. Pipelines(Graph(N), Runs(N)) = <<c>>
    BY <1>1 DEF Pipelines
  <2>2. able \in SUBSET Known /\ able \in SUBSET N /\ N \in SUBSET Nodes
    BY DEF Known, Runs
  <2>3. IsFiniteSet(able)
    <3>1. IsFiniteSet(Nodes)
      <4>1. DOMAIN Rows = 1 .. Len(Rows) /\ Len(Rows) \in Nat
        BY RowsType
      <4>2. Nodes = {Rows[i] : i \in 1 .. Len(Rows)}
        BY <4>1 DEF Nodes, ToSet
      <4> DEFINE D == 1 .. Len(Rows)
      <4>3. IsFiniteSet(D)
        BY <4>1, FS_Interval
      <4> HIDE DEF D
      <4>4. Rows \in Surjection(D, {Rows[i] : i \in D})
        <5>1. Rows \in [D -> Nodes]
          BY RowsType, SchedulerAssumption DEF D, SchedulerAssumption
        <5> QED  BY <5>1 DEF Surjection
      <4>5. IsFiniteSet({Rows[i] : i \in D})
        BY <4>3, <4>4, FS_Surjection
      <4> QED  BY <4>2, <4>5 DEF D
    <3> QED  BY <2>2, <3>1, FS_Subset
  <2>4. able # {}
    BY <1>1, FS_EmptySet
  <2> HIDE DEF able
  <2>5. first \in able
    BY <2>2, <2>4, FreestIs
  <2> HIDE DEF first
  <2>6. Cardinality(rest) = Cardinality(able) - 1 /\ Cardinality(able) \in Nat
    BY <2>3, <2>5, FS_RemoveElement, FS_CardinalityType
  <2>7. rest # {}
    <3> SUFFICES ASSUME rest = {} PROVE FALSE
      OBVIOUS
    <3>1. Cardinality(rest) = 0
      BY FS_EmptySet
    <3> QED  BY <1>1, <2>6, <3>1
  <2>8. rest \in SUBSET able /\ rest \in SUBSET Known
    BY <2>2
  <2> HIDE DEF rest
  <2>9. Freest(rest) \in rest
    BY <2>7, <2>8, FreestIs
  <2>10. chain \in Seq(Known) /\ chain \in Seq(Nodes) /\ Len(chain) = 2
         /\ chain[1] \in N /\ chain[2] \in N
    BY <2>2, <2>5, <2>8, <2>9
  <2> HIDE DEF chain
  <2>11. ms \in Int
    <3>1. Len(chain) > 0
      BY <2>10
    <3> QED  BY <2>2, <2>10, <3>1, PipelineType
  <2> HIDE DEF ms
  <2>12. c \in CandidatePlan /\ c.strategy = "pipeline" /\ c.chain = chain
    BY <2>10, <2>11, CandidateType
  <2> HIDE DEF c
  <2>13. OfPipeline(N, c)
    BY <1>1, <2>10, <2>12 DEF OfPipeline
  <2> QED  BY <2>1, <2>12, <2>13, OneListed
<1>2. CASE ~ (Cardinality(able) >= 2 /\ Holds(chain))
  <2>1. Pipelines(Graph(N), Runs(N)) = <<>>
    BY <1>2 DEF Pipelines
  <2> QED  BY <2>1, NoneListed
<1> QED  BY <1>1, <1>2

\* A speculative pair is a node that the model fits and another node.
LEMMA SpeculativesAre ==
  ASSUME SchedulerInv, NEW N \in SUBSET Known
  PROVE  /\ Speculatives(Graph(N), Replicas(N), Runs(N)) \in Seq(CandidatePlan)
         /\ \A c : Lists(Speculatives(Graph(N), Replicas(N), Runs(N)), c) => OfSpeculative(N, c)
<1> DEFINE R == Replicas(N)
           strong == Fastest(R)
           D == {n \in Runs(N) \ {strong} : /\ Can(n, "speculative") \/ Can(n, "draft")
                                      /\ Link(Graph(N), strong, n).rtt <= 50}
           drafts == Row(D)
           chain == <<strong, drafts[1]>>
           c == Candidate("speculative", chain, SpeculativeMs(strong))
<1>1. CASE R = {} \/ drafts = <<>>
  <2>1. Speculatives(Graph(N), R, Runs(N)) = <<>>
    BY <1>1 DEF Speculatives
  <2> QED  BY <2>1, NoneListed
<1>2. CASE R # {} /\ drafts # <<>>
  <2>1. Speculatives(Graph(N), R, Runs(N)) = <<c>>
    BY <1>2 DEF Speculatives
  <2>2. N \in SUBSET Nodes /\ R \in SUBSET Known
    BY DEF Known, Replicas, Runs
  <2>3. strong \in R
    <3> HIDE DEF R
    <3> QED  BY <1>2, <2>2, FastestIs
  <2>4. strong \in Known /\ strong \in Nodes /\ Replica(N, strong)
    BY <2>2, <2>3 DEF Replica, Known
  <2> HIDE DEF strong
  <2>5. D \in SUBSET N
    BY DEF Runs
  <2> HIDE DEF D
  <2>6. /\ drafts \in Seq(Nodes)
        /\ \A m : (\E i \in 1 .. Len(drafts) : drafts[i] = m) <=> m \in D /\ m \in Nodes
    BY RowIs
  <2> HIDE DEF drafts
  <2>7. drafts[1] \in N
    <3>1. 1 \in 1 .. Len(drafts)
      BY <1>2, <2>6
    <3> QED  BY <2>5, <2>6, <3>1
  <2>8. chain \in Seq(Nodes) /\ Len(chain) = 2 /\ chain[1] = strong /\ chain[2] = drafts[1]
    BY <2>2, <2>4, <2>7
  <2>9. SpeculativeMs(strong) \in Int
    BY <2>4, NodeType
  <2> HIDE DEF chain
  <2>10. c \in CandidatePlan /\ c.strategy = "speculative" /\ c.chain = chain
    BY <2>8, <2>9, CandidateType
  <2> HIDE DEF c
  <2>11. OfSpeculative(N, c)
    BY <2>4, <2>7, <2>8, <2>10 DEF OfSpeculative
  <2>12. <<c>> \in Seq(CandidatePlan) /\ \A e : Lists(<<c>>, e) => e = c
    BY <2>10, OneListed, Zenon
  <2> QED  BY <2>1, <2>11, <2>12, Zenon
<1> QED  BY <1>1, <1>2

\* A tensor pod is two or three nodes that the model fits.
LEMMA TensorsAre ==
  ASSUME SchedulerInv, NEW N \in SUBSET Known
  PROVE  /\ Tensors(Graph(N), Replicas(N)) \in Seq(CandidatePlan)
         /\ \A c : Lists(Tensors(Graph(N), Replicas(N)), c) => OfTensor(N, c)
<1> DEFINE R == Replicas(N)
           A == {n \in R : Can(n, "tensor")}
           able == Row(A)
           pods == {k \in {2, 3} : Len(able) >= k /\ MutuallyLan(Graph(N), First(able, k))}
           k == MaxOf(pods)
           pod == First(able, k)
           ms == TensorMs(Graph(N), pod)
           c == Candidate("tensor", pod, ms)
<1>1. CASE pods = {}
  <2>1. Tensors(Graph(N), R) = <<>>
    BY <1>1 DEF Tensors
  <2> QED  BY <2>1, NoneListed
<1>2. CASE pods # {}
  <2>1. Tensors(Graph(N), R) = <<c>>
    BY <1>2 DEF Tensors
  <2>2. k \in {2, 3} /\ Len(able) >= k
    <3>1. pods \in SUBSET {2, 3} /\ \A j \in pods : Len(able) >= j
      OBVIOUS
    <3> HIDE DEF pods
    <3>2. \E x \in pods : \A y \in pods : y <= x
      <4>1. CASE 3 \in pods
        BY <3>1, <4>1
      <4>2. CASE 3 \notin pods
        <5>1. 2 \in pods /\ \A y \in pods : y = 2
          BY <1>2, <3>1, <4>2
        <5> QED  BY <5>1
      <4> QED  BY <4>1, <4>2
    <3>3. k \in pods
      BY <3>2 DEF MaxOf
    <3> QED  BY <3>1, <3>3
  <2> HIDE DEF k, pods
  <2>3. N \in SUBSET Nodes /\ A \in SUBSET N /\ A \in SUBSET Known /\ \A m \in A : Replica(N, m)
    BY DEF Known, Replica, Replicas, Runs
  <2> HIDE DEF A
  <2>4. /\ able \in Seq(Nodes)
        /\ \A m : (\E i \in 1 .. Len(able) : able[i] = m) <=> m \in A /\ m \in Nodes
    BY RowIs
  <2> HIDE DEF able
  <2>5. \A i \in 1 .. Len(able) : able[i] \in Known /\ Replica(N, able[i])
    BY <2>3, <2>4
  <2>6. pod = SubSeq(able, 1, k)
    BY <2>2, <2>4 DEF First, Least
  <2>7. /\ pod \in Seq(Nodes) /\ Len(pod) = k
        /\ \A i \in 1 .. k : i \in 1 .. Len(able) /\ pod[i] = able[i]
    BY <2>2, <2>4, <2>6
  <2> HIDE DEF pod
  <2>8. pod \in Seq(Known) /\ \A i \in 1 .. k : Replica(N, pod[i])
    BY <2>5, <2>7
  <2>9. ms \in Int
    BY <2>2, <2>3, <2>7, <2>8, TensorType
  <2> HIDE DEF ms
  <2>10. c \in CandidatePlan /\ c.strategy = "tensor" /\ c.chain = pod
    BY <2>7, <2>9, CandidateType
  <2> HIDE DEF c
  <2>11. OfTensor(N, c)
    BY <2>2, <2>7, <2>8, <2>10 DEF OfTensor
  <2>12. <<c>> \in Seq(CandidatePlan) /\ \A e : Lists(<<c>>, e) => e = c
    BY <2>10, OneListed, Zenon
  <2> QED  BY <2>1, <2>11, <2>12, Zenon
<1> QED  BY <1>1, <1>2

\* What plan() may consider.
Considered(N, c) == OfSingle(N, c) \/ OfPipeline(N, c) \/ OfTensor(N, c) \/ OfSpeculative(N, c)

\* Every candidate is one that plan() may build, and every replica is one of
\* them when single plans are allowed.
LEMMA CandidatesAre ==
  ASSUME SchedulerInv, NEW N \in SUBSET Known, NEW allowed
  PROVE  /\ Candidates(N, allowed) \in Seq(CandidatePlan)
         /\ \A c : Lists(Candidates(N, allowed), c) => Considered(N, c)
         /\ allowed = {} \/ "single" \in allowed =>
              \A c : OfSingle(N, c) => Lists(Candidates(N, allowed), c)
<1> DEFINE R == Replicas(N)
           g == Graph(N)
           If(strategy, cs) == IF allowed = {} \/ strategy \in allowed THEN cs ELSE <<>>
           s1 == Singles(Row(R))
           s2 == Pipelines(g, Runs(N))
           s3 == Tensors(g, R)
           s4 == Speculatives(g, R, Runs(N))
           i1 == If("single", s1)
           i2 == If("pipeline", s2)
           i3 == If("tensor", s3)
           i4 == If("speculative", s4)
<1>1. Candidates(N, allowed) = ((i1 \o i2) \o i3) \o i4
  BY DEF Candidates, Replicas, Runs
<1>2. s1 \in Seq(CandidatePlan) /\ \A c : Lists(s1, c) <=> OfSingle(N, c)
  BY SinglesAre
<1>3. s2 \in Seq(CandidatePlan) /\ \A c : Lists(s2, c) => OfPipeline(N, c)
  BY PipelinesAre
<1>4. s3 \in Seq(CandidatePlan) /\ \A c : Lists(s3, c) => OfTensor(N, c)
  BY TensorsAre
<1>5. s4 \in Seq(CandidatePlan) /\ \A c : Lists(s4, c) => OfSpeculative(N, c)
  BY SpeculativesAre
<1>6. /\ i1 = s1 \/ i1 = <<>>
      /\ i2 = s2 \/ i2 = <<>>
      /\ i3 = s3 \/ i3 = <<>>
      /\ i4 = s4 \/ i4 = <<>>
      /\ allowed = {} \/ "single" \in allowed => i1 = s1
  OBVIOUS
<1> HIDE DEF s1, s2, s3, s4, i1, i2, i3, i4
<1>7. /\ i1 \in Seq(CandidatePlan) /\ i2 \in Seq(CandidatePlan)
      /\ i3 \in Seq(CandidatePlan) /\ i4 \in Seq(CandidatePlan)
      /\ \A c : Lists(i1, c) => OfSingle(N, c)
      /\ \A c : Lists(i2, c) => OfPipeline(N, c)
      /\ \A c : Lists(i3, c) => OfTensor(N, c)
      /\ \A c : Lists(i4, c) => OfSpeculative(N, c)
  <2>1. <<>> \in Seq(CandidatePlan) /\ \A e : ~ Lists(<<>>, e)
    BY NoneListed
  <2> QED  BY <1>2, <1>3, <1>4, <1>5, <1>6, <2>1
<1> DEFINE a == i1 \o i2
           b == a \o i3
<1>8. a \in Seq(CandidatePlan) /\ \A c : Lists(a, c) <=> Lists(i1, c) \/ Lists(i2, c)
  BY <1>7, JoinIs
<1> HIDE DEF a
<1>9. b \in Seq(CandidatePlan) /\ \A c : Lists(b, c) <=> Lists(a, c) \/ Lists(i3, c)
  BY <1>7, <1>8, JoinIs
<1> HIDE DEF b
<1>10. b \o i4 \in Seq(CandidatePlan) /\ \A c : Lists(b \o i4, c) <=> Lists(b, c) \/ Lists(i4, c)
  BY <1>7, <1>9, JoinIs
<1>11. Candidates(N, allowed) = b \o i4
  BY <1>1 DEF a, b
<1>12. \A c : Lists(b \o i4, c) => Considered(N, c)
  BY <1>7, <1>8, <1>9, <1>10 DEF Considered
<1>13. allowed = {} \/ "single" \in allowed => \A c : OfSingle(N, c) => Lists(b \o i4, c)
  BY <1>2, <1>6, <1>8, <1>9, <1>10
<1> QED  BY <1>10, <1>11, <1>12, <1>13

\* The plan is one of the candidates and none is cheaper; there is none only
\* when nothing is listed.
LEMMA PlanIs ==
  ASSUME SchedulerInv, NEW N \in SUBSET Known, NEW allowed
  PROVE  LET p == Plan(N, allowed)
             cs == Candidates(N, allowed)
         IN  /\ p # None => p \in CandidatePlan /\ Lists(cs, p)
             /\ \A c : Lists(cs, c) => p # None /\ p.ms <= c.ms
<1> DEFINE cs == Candidates(N, allowed)
           p == Plan(N, allowed)
           n == Len(cs)
           v == [i \in DOMAIN cs |-> cs[i].ms]
<1>1. cs \in Seq(CandidatePlan)
  BY CandidatesAre
<1>2. p = IF cs = <<>> THEN None ELSE cs[FirstLeast(v)]
  BY DEF Plan
<1> HIDE DEF cs, p
<1>3. n \in Nat /\ DOMAIN cs = 1 .. n /\ \A i \in 1 .. n : cs[i] \in CandidatePlan
  BY <1>1
<1>4. CASE cs = <<>>
  <2>1. \A c : ~ Lists(cs, c)
    BY <1>4 DEF Lists
  <2> QED  BY <1>2, <1>4, <2>1 DEF cs, p
<1>5. CASE cs # <<>>
  <2>1. n # 0
    BY <1>1, <1>5
  <2> HIDE DEF n
  <2>2. /\ DOMAIN v = 1 .. n /\ DOMAIN v # {} /\ \A i \in DOMAIN v : v[i] \in Int
        /\ \A i \in 1 .. n : v[i] = cs[i].ms
    <3>1. \A c \in CandidatePlan : c.ms \in Int
      BY DEF CandidatePlan
    <3>2. 1 \in 1 .. n
      BY <1>3, <2>1
    <3> QED  BY <1>3, <3>1, <3>2
  <2> HIDE DEF v
  <2> DEFINE b == FirstLeast(v)
  <2>3. b \in 1 .. n /\ \A j \in 1 .. n : v[b] <= v[j]
    BY <1>3, <2>2, FirstLeastIs
  <2>4. p = cs[b]
    BY <1>2, <1>5
  <2> HIDE DEF b
  <2>5. p \in CandidatePlan /\ Lists(cs, p)
    BY <1>3, <2>3, <2>4 DEF Lists, n
  <2>6. p # None
    BY <2>5, SchedulerAssumption DEF SchedulerAssumption
  <2>7. ASSUME NEW c, Lists(cs, c) PROVE p.ms <= c.ms
    <3>1. PICK j \in 1 .. n : cs[j] = c
      BY <2>7 DEF Lists, n
    <3> QED  BY <2>2, <2>3, <2>4, <3>1
  <2> QED  BY <2>5, <2>6, <2>7 DEF cs, p
<1> QED  BY <1>4, <1>5

\* With one more node the best plan gets slower only where the best plan
\* without it was split over several nodes (scheduler.plan): a replica that
\* was considered is still considered.
THEOREM SlowerOnlySplit == SchedulerSpec => []SlowerOnlyBySplit
<1>1. SchedulerInv => SlowerOnlyBySplit
  <2> SUFFICES ASSUME SchedulerInv, NEW allowed \in {{}, {"single"}}, NEW n \in Known
               PROVE  LET after == Plan(Known, allowed)
                          before == Plan(Known \ {n}, allowed)
                      IN  before # None /\ before.strategy = "single" =>
                            after # None /\ after.ms <= before.ms
    BY DEF SlowerOnlyBySplit
  <2> DEFINE N == Known \ {n}
             before == Plan(N, allowed)
             after == Plan(Known, allowed)
  <2>1. N \in SUBSET Known /\ Known \in SUBSET Known /\ (allowed = {} \/ "single" \in allowed)
    OBVIOUS
  <2> SUFFICES ASSUME before # None, before.strategy = "single"
               PROVE  after # None /\ after.ms <= before.ms
    OBVIOUS
  <2>2. Lists(Candidates(N, allowed), before)
    BY <2>1, PlanIs
  <2>3. Considered(N, before)
    <3> HIDE DEF before, N
    <3> QED  BY <2>1, <2>2, CandidatesAre
  <2> HIDE DEF before, after
  <2>4. OfSingle(N, before)
    BY <2>3 DEF Considered, OfPipeline, OfTensor, OfSpeculative
  <2>5. OfSingle(Known, before)
    BY <2>4 DEF OfSingle, Replica, Replicas, Runs
  <2>6. Lists(Candidates(Known, allowed), before)
    BY <2>1, <2>5, CandidatesAre
  <2> QED  BY <2>1, <2>6, PlanIs DEF after, before
<1> QED  BY SchedulerInitInv, SchedulerStepInv, <1>1, PTL DEF SchedulerSpec

(***************************************************************************)
(* What the members of a plan are made to hold.                            *)
(***************************************************************************)

\* A node that holds the whole model within its memory holds more than its
\* share only by one of the three ways the code leaves open.
LEMMA ReplicaShare ==
  ASSUME SchedulerInv, NEW n \in Known, Fits(n), Need * 100 > cap[n].total * cap[n].box.share
  PROVE  cap[n].free = 0 \/ Len(cap[n].box.cards) > 1 \/ ~ cap[n].box.managed
<1> SUFFICES ASSUME cap[n].free # 0, ~ (Len(cap[n].box.cards) > 1), cap[n].box.managed PROVE FALSE
  OBVIOUS
<1> DEFINE x == cap[n].total * cap[n].box.share
           f == cap[n].free
<1>1. n \in Nodes /\ cap[n] # None
  BY DEF Known
<1>2. cap[n].box \in Boxes /\ f \in 0 .. cap[n].total /\ cap[n].total \in Nat
  BY <1>1, CapIs
<1>3. cap[n].box.cards \in Seq(Nat \ {0})
  BY <1>2, SchedulerAssumption DEF SchedulerAssumption
<1>4. Len(cap[n].box.cards) <= 1
  BY <1>3
<1>5. f * 100 <= x
  BY <1>1, <1>4, CapIs
<1>6. f >= Need
  BY DEF Fits, Usable
<1>7. Need * 100 > x
  OBVIOUS
<1>8. x \in Int
  <2>1. \A k \in 0 .. 100 : k \in Nat
    OBVIOUS
  <2>2. cap[n].box.share \in Nat
    BY <1>2, <2>1, SchedulerAssumption DEF SchedulerAssumption
  <2> QED  BY <1>2, <2>2, Arithmetic
<1> HIDE DEF x, f
<1>9. f \in Nat /\ Need \in Nat
  BY <1>2, NeedType
<1> QED  BY <1>5, <1>6, <1>7, <1>8, <1>9

\* What _assign makes the members of each kind of plan hold.
LEMMA HeldIs ==
  ASSUME NEW p \in CandidatePlan, NEW i \in 1 .. Len(p.chain)
  PROVE  /\ p.strategy # "pipeline" => Held(p, i) \in {0, Need}
         /\ p.strategy = "speculative" /\ i = 2 => Held(p, i) = 0
         /\ p.strategy = "pipeline" /\ Len(p.chain) = 2 =>
              Held(p, i) \in Nat /\ Held(p, i) * 2 <= Need
<1>0. Need \in Nat
  BY NeedType
<1>1. p.chain \in Seq(Nodes) /\ Len(p.chain) \in Nat
  BY DEF CandidatePlan
<1> DEFINE count == Len(p.chain)
           per == 64 \div count
           from == IF p.strategy = "pipeline" THEN (i - 1) * per ELSE 0
           to == IF p.strategy = "pipeline" THEN IF i = count THEN 64 ELSE i * per
                 ELSE IF p.strategy = "speculative" /\ i = 2 THEN 0 ELSE 64
<1>2. Assign(p)[i].from = from /\ Assign(p)[i].to = to
  BY DEF Assign, Layers
<1>3. Held(p, i) = (Need * (to - from)) \div 64
  BY <1>2 DEF Held, Layers
<1>4. p.strategy # "pipeline" => to - from \in {0, 64}
  OBVIOUS
<1>5. p.strategy = "speculative" /\ i = 2 => to - from = 0
  OBVIOUS
<1>6. ASSUME p.strategy = "pipeline", count = 2 PROVE to - from = 32
  <2>1. per = 32 /\ i \in {1, 2}
    BY <1>6
  <2> QED  BY <1>6, <2>1
<1> HIDE DEF to, from, count
<1>7. /\ (Need * 0) \div 64 = 0 /\ (Need * 64) \div 64 = Need
      /\ (Need * 32) \div 64 \in Nat /\ ((Need * 32) \div 64) * 2 <= Need
  BY <1>0
<1> QED  BY <1>3, <1>4, <1>5, <1>6, <1>7 DEF count

\* Only of a pipeline is a node made to hold more than its share or its memory
\* by plan and _assign, but for the three ways named, and never both nodes.
THEOREM OverPlacedOnly == SchedulerSpec => []OverPlacedOnlyIf
<1>1. SchedulerInv => OverPlacedOnlyIf
  <2> SUFFICES ASSUME SchedulerInv, NEW allowed \in {{}, {"single"}}, NEW p,
                      p = Plan(Known, allowed), p # None
               PROVE  LET over == {i \in DOMAIN p.chain : Held(p, i) > Usable(p.chain[i])}
                      IN  /\ p.strategy \in {"single", "tensor"} =>
                               \A n \in ToSet(p.chain) :
                                 Need * 100 > cap[n].total * cap[n].box.share =>
                                   \/ cap[n].free = 0 \/ Len(cap[n].box.cards) > 1
                                   \/ ~ cap[n].box.managed
                          /\ over # {} => p.strategy = "pipeline" /\ Cardinality(over) = 1
    BY DEF OverPlacedOnlyIf
  <2> DEFINE over == {i \in DOMAIN p.chain : Held(p, i) > Usable(p.chain[i])}
  <2>1. Known \in SUBSET Known
    OBVIOUS
  <2>2. p \in CandidatePlan /\ Lists(Candidates(Known, allowed), p)
    BY <2>1, PlanIs
  <2>3. Considered(Known, p)
    BY <2>1, <2>2, CandidatesAre
  <2>4. p.chain \in Seq(Nodes) /\ DOMAIN p.chain = 1 .. Len(p.chain) /\ Need \in Nat
    BY <2>2, NeedType DEF CandidatePlan
  <2>5. ASSUME NEW i \in DOMAIN p.chain, Replica(Known, p.chain[i]), p.strategy # "pipeline"
        PROVE  i \notin over
    <3>1. Held(p, i) \in {0, Need} /\ Need \in Nat
      BY <2>2, <2>4, <2>5, HeldIs
    <3>2. Usable(p.chain[i]) \in Nat /\ Usable(p.chain[i]) >= Need
      BY <2>5, NodeType DEF Replica, Replicas, Runs, Fits
    <3> QED  BY <3>1, <3>2
  <2>6. CASE OfSingle(Known, p) \/ OfTensor(Known, p)
    <3>1. p.strategy # "pipeline" /\ \A i \in DOMAIN p.chain : Replica(Known, p.chain[i])
      <4>1. CASE OfTensor(Known, p)
        BY <2>4, <4>1 DEF OfTensor
      <4>2. CASE OfSingle(Known, p)
        <5>1. PICK r \in Nodes : Replica(Known, r) /\ p = Candidate("single", <<r>>, SingleMs(r))
          BY <4>2 DEF OfSingle
        <5>2. p.strategy = "single" /\ p.chain = <<r>>
          BY <5>1 DEF Candidate
        <5> QED  BY <5>1, <5>2
      <4> QED  BY <2>6, <4>1, <4>2
    <3>2. over = {}
      BY <2>5, <3>1
    <3>3. \A n \in ToSet(p.chain) : n \in Known /\ Fits(n)
      BY <3>1 DEF ToSet, Replica, Replicas, Runs
    <3> HIDE DEF over
    <3> QED  BY <3>2, <3>3, ReplicaShare DEF over
  <2>7. CASE OfSpeculative(Known, p)
    <3>1. p.strategy = "speculative" /\ DOMAIN p.chain = 1 .. 2
      BY <2>4, <2>7 DEF OfSpeculative
    <3>2. 1 \notin over
      BY <2>5, <2>7, <3>1 DEF OfSpeculative
    <3>3. 2 \notin over
      <4>1. Held(p, 2) = 0
        <5>1. 2 \in 1 .. Len(p.chain)
          BY <2>7 DEF OfSpeculative
        <5> QED  BY <2>2, <3>1, <5>1, HeldIs
      <4>2. Usable(p.chain[2]) \in Nat
        BY <2>7, NodeType DEF OfSpeculative
      <4> QED  BY <4>1, <4>2
    <3>4. over = {}
      BY <3>1, <3>2, <3>3
    <3> HIDE DEF over
    <3> QED  BY <3>1, <3>4 DEF over
  <2>8. CASE OfPipeline(Known, p)
    <3>1. /\ p.strategy = "pipeline" /\ DOMAIN p.chain = 1 .. 2 /\ Len(p.chain) = 2
          /\ Holds(p.chain) /\ p.chain[1] \in Known /\ p.chain[2] \in Known
      BY <2>4, <2>8 DEF OfPipeline
    <3>2. over # {} => Cardinality(over) = 1
      <4>1. ~ (1 \in over /\ 2 \in over)
        <5> SUFFICES ASSUME Held(p, 1) > Usable(p.chain[1]),
                            Held(p, 2) > Usable(p.chain[2])
                     PROVE  FALSE
          OBVIOUS
        <5> DEFINE u == Usable(p.chain[1])
                   w == Usable(p.chain[2])
                   x == Held(p, 1)
                   y == Held(p, 2)
        <5>1. u \in Nat /\ w \in Nat
          BY <3>1, NodeType
        <5>2. x \in Nat /\ x * 2 <= Need /\ y \in Nat /\ y * 2 <= Need
          <6>1. 1 \in 1 .. Len(p.chain) /\ 2 \in 1 .. Len(p.chain)
            BY <3>1
          <6> QED  BY <2>2, <3>1, <6>1, HeldIs
        <5>3. u + w >= Need
          BY <3>1 DEF Holds
        <5> HIDE DEF u, w, x, y
        <5>5. x > u /\ y > w
          BY DEF x, y, u, w
        <5> QED  BY <2>4, <5>1, <5>2, <5>3, <5>5
      <4>2. over = {} \/ over = {1} \/ over = {2}
        <5>1. over \in SUBSET {1, 2}
          BY <3>1
        <5> HIDE DEF over
        <5> QED  BY <4>1, <5>1
      <4> HIDE DEF over
      <4> QED  BY <4>2, FS_Singleton
    <3> HIDE DEF over
    <3> QED  BY <3>1, <3>2 DEF over
  <2> HIDE DEF over
  <2> QED  BY <2>3, <2>6, <2>7, <2>8 DEF over, Considered
<1> QED  BY SchedulerInitInv, SchedulerStepInv, <1>1, PTL DEF SchedulerSpec

=============================================================================
