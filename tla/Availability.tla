---------------------------- MODULE Availability ----------------------------
(***************************************************************************)
(* When a node is available to the network: the contribution controller    *)
(* that watches the machine (contribution.py), the start of the daemon,    *)
(* its heartbeat loop and the flag of a changeover (daemon.py), and the    *)
(* row the control plane keeps of the node (app.py, store.py).             *)
(*                                                                         *)
(* The node never says that it is unavailable: it falls silent, and the    *)
(* control plane's timeout does the rest.  Time runs in ticks.  The        *)
(* heartbeat loop sleeps for Interval after its POST is over, however it   *)
(* ended; a POST lasts up to MaxPost, and so long may its request be under *)
(* way, also when the daemon that sent it no longer waits or is gone.      *)
(***************************************************************************)
EXTENDS Naturals

CONSTANTS
  Timeout,    \* HEARTBEAT_TIMEOUT_S (90 s), in ticks
  Interval,   \* HEARTBEAT_INTERVAL_S (30 s), in ticks
  MaxPost,    \* how long a POST lasts at most, in ticks: 10 s for each phase
  MaxStarts,  \* bound: starts of the process
  MaxFaults,  \* bound: lost requests, dead loops, outages and wipes
  MaxSwaps    \* bound: changeovers

ASSUME AvailabilityAssumption ==
  /\ {Timeout, Interval, MaxPost} \subseteq Nat \ {0}
  /\ {MaxStarts, MaxFaults, MaxSwaps} \subseteq Nat

VARIABLES
  policy,    \* idle_only and pause_on_user_activity, as the user set them
  machine,   \* "calm": nobody typed for idle_minutes_before_start or that is
             \* unknown; "quiet": CPU, GPU and power are within the policy
  gate,      \* ContributionController.state
  proc,      \* "off", "starting", "registered", "solo" or "up"
  updating,  \* NodeRuntime.updating
  loop,      \* the heartbeat loop: "off", "due", "posting", "landed" when the
             \* answer is on its way, "asleep", or "dead" after an exception
  clock,     \* ticks since the POST began, or the loop fell asleep
  flying,    \* the requests under way, each by the ticks since it was sent
  up,        \* the control plane answers
  row,       \* the node is in the table of nodes
  age,       \* ticks since its last_seen, up to Expired
  touch,     \* history: what wrote last_seen: "registration" or "heartbeat"
  idled,     \* history: the full idle bar was met since the gate last closed
  closed,    \* history: the gate was closed since the process started
  missed,    \* history: turns of the loop since a heartbeat landed
  lead,      \* history: the age when the loop began, 0 once one has landed
  silent,    \* history: ticks since the node was available
  starts, faults, swaps

machineVars == <<policy, machine>>
gateVars    == <<gate, idled, closed>>
loopVars    == <<loop, clock, flying>>
nodeVars    == <<proc, updating, loopVars>>
rowVars     == <<up, row, age, touch>>
history     == <<missed, lead, silent>>
counters    == <<starts, faults, swaps>>
vars == <<machineVars, gateVars, nodeVars, rowVars, history, counters>>

Expired == Timeout + 1
Long    == Timeout + MaxPost + 1
AtMost(n, most) == IF n < most THEN n ELSE most

\* `available' of the heartbeat loop.
Available == proc = "up" /\ gate = "active" /\ ~updating

\* schedule() takes the node into account.
Listed == row /\ age <= Timeout

TypeOK ==
  /\ policy \in [idle_only : BOOLEAN, pause_on_user_activity : BOOLEAN]
  /\ machine \in [calm : BOOLEAN, quiet : BOOLEAN]
  /\ gate \in {"active", "paused"}
  /\ proc \in {"off", "starting", "registered", "solo", "up"}
  /\ loop \in {"off", "due", "posting", "landed", "asleep", "dead"}
  /\ clock \in 0 .. Interval + MaxPost
  /\ flying \subseteq 0 .. MaxPost
  /\ updating \in BOOLEAN /\ up \in BOOLEAN /\ row \in BOOLEAN
  /\ idled \in BOOLEAN /\ closed \in BOOLEAN
  /\ age \in 0 .. Expired /\ lead \in 0 .. Expired
  /\ touch \in {"registration", "heartbeat"}
  /\ missed \in 0 .. Timeout /\ silent \in 0 .. Long
  /\ starts \in 0 .. MaxStarts /\ faults \in 0 .. MaxFaults /\ swaps \in 0 .. MaxSwaps

Init ==
  /\ policy \in [idle_only : BOOLEAN, pause_on_user_activity : BOOLEAN]
  /\ machine \in [calm : BOOLEAN, quiet : BOOLEAN]
  /\ gate = "active" /\ idled = FALSE /\ closed = FALSE
  /\ proc = "off" /\ updating = FALSE
  /\ loop = "off" /\ clock = 0 /\ flying = {}
  /\ up = TRUE /\ row = FALSE /\ age = Expired /\ touch = "registration"
  /\ missed = 0 /\ lead = 0 /\ silent = Long
  /\ starts = 0 /\ faults = 0 /\ swaps = 0

-----------------------------------------------------------------------------
(* The machine and the controller.                                         *)

Mood ==
  /\ machine' \in [calm : BOOLEAN, quiet : BOOLEAN] \ {machine}
  /\ UNCHANGED <<policy, gateVars, nodeVars, rowVars, history, counters>>

IsIdle(check_user_activity) ==
  machine.quiet /\ (check_user_activity => machine.calm)

\* Fault: a node that contributes through the user's typing also resumes so.
GateFollowsUser(state) ==
  IF ~policy.idle_only \/ IsIdle(policy.pause_on_user_activity)
  THEN "active" ELSE "paused"

\* Fault: the branch of a paused controller is missing.
GateSticks(state) ==
  IF ~policy.idle_only
     \/ (state = "active" /\ IsIdle(policy.pause_on_user_activity))
  THEN "active" ELSE "paused"

\* The gate after _tick in this state: to resume takes the full idle bar, to
\* go on only what the policy asks for.
GateAfter(state) ==
  IF ~policy.idle_only
     \/ IsIdle(state = "paused" \/ policy.pause_on_user_activity)
  THEN "active" ELSE "paused"

\* _tick, and what the history keeps of it.
TickFrom(state, bar, shut) ==
  /\ gate' = GateAfter(state)
  /\ idled' = (gate' = "active" /\ (bar \/ IsIdle(TRUE)))
  /\ closed' = (shut \/ gate' = "paused")
  /\ silent' = IF proc = "up" /\ gate' = "active" /\ ~updating
               THEN 0 ELSE silent

\* _loop: every 15 s while the process runs.
Poll ==
  /\ proc # "off"
  /\ TickFrom(gate, idled, closed)
  /\ UNCHANGED <<machineVars, nodeVars, rowVars, missed, lead, counters>>

-----------------------------------------------------------------------------
(* The process.                                                            *)

\* A new controller is ACTIVE and ticks before anything else happens.
Start ==
  /\ proc = "off" /\ starts < MaxStarts
  /\ starts' = starts + 1
  /\ proc' = "starting" /\ updating' = FALSE
  /\ TickFrom("active", FALSE, FALSE)
  /\ UNCHANGED <<machineVars, loopVars, rowVars, missed, lead, faults, swaps>>

\* upsert_node: the node is listed from here on, whatever its gate says.
Upsert == row' = TRUE /\ age' = 0 /\ touch' = "registration" /\ UNCHANGED up

\* _try_register and register_node.
Register ==
  /\ proc = "starting" /\ up
  /\ proc' = "registered"
  /\ Upsert
  /\ UNCHANGED <<machineVars, gateVars, updating, loopVars, history, counters>>

\* A registration that fails is not tried again: SOLO mode until the end, even
\* if only the answer was lost.
RegisterFails ==
  /\ proc = "starting"
  /\ \/ ~up /\ UNCHANGED <<faults, rowVars>>
     \/ /\ faults < MaxFaults /\ faults' = faults + 1
        /\ UNCHANGED rowVars \/ (up /\ Upsert)
  /\ proc' = "solo"
  /\ UNCHANGED <<machineVars, gateVars, updating, loopVars, history, starts, swaps>>

\* post_capability answers, and the heartbeat loop starts.
Join ==
  /\ proc = "registered" /\ up /\ row
  /\ proc' = "up" /\ loop' = "due" /\ clock' = 0
  /\ missed' = 0 /\ lead' = age
  /\ silent' = IF gate = "active" THEN 0 ELSE silent
  /\ UNCHANGED <<machineVars, gateVars, updating, flying, rowVars, counters>>

\* The process ends, and with it the controller and the loop.
Ends ==
  /\ proc' = "off" /\ updating' = FALSE /\ loop' = "off" /\ clock' = 0
  /\ gate' = "active" /\ idled' = FALSE /\ closed' = FALSE
  /\ missed' = 0 /\ lead' = 0

\* It raises: nothing catches that on the way out of async_main.
JoinFails ==
  /\ proc = "registered"
  /\ \/ ~(up /\ row) /\ UNCHANGED faults
     \/ faults < MaxFaults /\ faults' = faults + 1
  /\ Ends
  /\ UNCHANGED <<machineVars, flying, rowVars, silent, starts, swaps>>

\* A signal or a crash; the control plane is not told, and a request on its
\* way stays on its way.
Stop ==
  /\ proc # "off"
  /\ Ends
  /\ UNCHANGED <<machineVars, flying, rowVars, silent, counters>>

\* changeover, from the stop of the old engine to its `finally'.
SwapBegins ==
  /\ proc = "up" /\ ~updating /\ swaps < MaxSwaps
  /\ swaps' = swaps + 1 /\ updating' = TRUE
  /\ UNCHANGED <<machineVars, gateVars, proc, loopVars, rowVars, history, starts, faults>>

SwapEnds ==
  /\ updating
  /\ updating' = FALSE
  /\ silent' = IF gate = "active" THEN 0 ELSE silent
  /\ UNCHANGED <<machineVars, gateVars, proc, loopVars, rowVars, missed, lead, counters>>

-----------------------------------------------------------------------------
(* The heartbeat loop, and the control plane.                              *)

\* Turns of the loop that explain why the node is off the list.
Explain(turns) == turns * (Interval + MaxPost) > Timeout

\* One turn goes by without a POST or without an answer to it.
Misses == missed' = (IF Explain(missed + 1) THEN missed ELSE missed + 1) /\ UNCHANGED lead

\* The loop posts if its test holds, and sleeps if not.
DecideOn(test) ==
  /\ loop = "due"
  /\ clock' = 0
  /\ IF test
     THEN loop' = "posting" /\ flying' = flying \cup {0} /\ UNCHANGED <<missed, lead>>
     ELSE loop' = "asleep" /\ Misses /\ UNCHANGED flying
  /\ UNCHANGED <<machineVars, gateVars, proc, updating, rowVars, silent, counters>>

\* Fault: only the gate is asked.
DecideByGate == DecideOn(gate = "active")

Decide == DecideOn(Available)

\* The request the loop waits for.
Awaited(a) == loop = "posting" /\ clock = a

\* Fault: the answer arrives, last_seen is not written.
LandsUntouched(a) ==
  /\ a \in flying /\ up
  /\ flying' = flying \ {a}
  /\ loop' = IF Awaited(a) THEN "landed" ELSE loop
  /\ missed' = 0 /\ lead' = 0
  /\ UNCHANGED <<machineVars, gateVars, proc, updating, clock, rowVars, silent, counters>>

\* heartbeat and touch_node.  The node may have become unavailable since it
\* decided, and the daemon be gone.
Lands(a) ==
  /\ a \in flying /\ up
  /\ flying' = flying \ {a}
  /\ loop' = IF Awaited(a) THEN "landed" ELSE loop
  /\ IF row THEN age' = 0 /\ touch' = "heartbeat" /\ missed' = 0 /\ lead' = 0
            ELSE UNCHANGED <<age, touch, missed, lead>>
  /\ UNCHANGED <<machineVars, gateVars, proc, updating, clock, up, row, silent, counters>>

\* A request nobody waits for is lost.
Vanishes(a) ==
  /\ a \in flying /\ ~ Awaited(a)
  /\ flying' = flying \ {a}
  /\ UNCHANGED <<machineVars, gateVars, proc, updating, loop, clock, rowVars, history, counters>>

\* The POST is over, and what it answered is not looked at.
Answered ==
  /\ loop = "landed"
  /\ loop' = "asleep" /\ clock' = 0
  /\ UNCHANGED <<machineVars, gateVars, proc, updating, flying, rowVars, history, counters>>

\* An httpx.HTTPError is suppressed; after a timeout the request may still be
\* on its way.
Lost ==
  /\ loop = "posting"
  /\ \/ ~up /\ UNCHANGED faults
     \/ faults < MaxFaults /\ faults' = faults + 1
  /\ loop' = "asleep" /\ clock' = 0
  /\ flying' \in {flying, flying \ {clock}}
  /\ Misses
  /\ UNCHANGED <<machineVars, gateVars, proc, updating, rowVars, silent, starts, swaps>>

\* Any other exception ends the task, and nobody looks at it before the end.
LoopDies ==
  /\ loop \in {"due", "posting", "landed"} /\ faults < MaxFaults
  /\ faults' = faults + 1
  /\ loop' = "dead" /\ clock' = 0
  /\ UNCHANGED <<machineVars, gateVars, proc, updating, flying, rowVars, history, starts, swaps>>

\* Time passes: the loop does not oversleep, a POST does not outlast MaxPost,
\* the row gets older.
Tick ==
  /\ loop # "due"
  /\ loop \in {"posting", "landed"} => clock < MaxPost
  /\ \A a \in flying : a < MaxPost
  /\ IF loop = "asleep" /\ clock + 1 = Interval
     THEN loop' = "due" /\ clock' = 0
     ELSE UNCHANGED loop
          /\ clock' = IF loop \in {"off", "dead"} THEN clock ELSE clock + 1
  /\ flying' = {a + 1 : a \in flying}
  /\ age' = AtMost(age + 1, Expired)
  /\ silent' = IF Available THEN 0 ELSE AtMost(silent + 1, Long)
  /\ UNCHANGED <<machineVars, gateVars, proc, updating, up, row, touch, missed, lead,
                 counters>>

Outage ==
  /\ up /\ faults < MaxFaults
  /\ up' = FALSE /\ faults' = faults + 1
  /\ UNCHANGED <<machineVars, gateVars, nodeVars, row, age, touch, history, starts, swaps>>

\* The control plane comes back; last_seen is in its database.
Recover ==
  /\ ~up
  /\ up' = TRUE
  /\ UNCHANGED <<machineVars, gateVars, nodeVars, row, age, touch, history, counters>>

\* The database is lost.
Wipe ==
  /\ row /\ faults < MaxFaults
  /\ row' = FALSE /\ age' = Expired /\ touch' = "registration" /\ faults' = faults + 1
  /\ UNCHANGED <<machineVars, gateVars, nodeVars, up, history, starts, swaps>>

Next ==
  \/ Mood \/ Poll
  \/ Start \/ Register \/ RegisterFails \/ Join \/ JoinFails \/ Stop
  \/ SwapBegins \/ SwapEnds
  \/ Decide \/ Answered \/ Lost \/ LoopDies \/ Tick
  \/ \E a \in 0 .. MaxPost : Lands(a) \/ Vanishes(a)
  \/ Outage \/ Recover \/ Wipe

\* The loops of a running process and the clock go on; a POST ends, and so do a
\* changeover and an outage.
Fairness ==
  /\ WF_vars(Poll) /\ WF_vars(Decide) /\ WF_vars(Tick)
  /\ WF_vars(Answered \/ Lost \/ \E a \in 0 .. MaxPost : Lands(a) \/ Vanishes(a))
  /\ WF_vars(SwapEnds) /\ WF_vars(Recover)

Spec == Init /\ [][Next]_vars /\ Fairness

-----------------------------------------------------------------------------
\* With idle_only, a gate that was closed opens again only once the machine met
\* the full idle bar, the user's typing included, and it stays open only while
\* it is not closed again.  With pause_on_user_activity so does the first one.
ResumesOnlyAfterIdle ==
  (/\ proc # "off" /\ policy.idle_only /\ gate = "active"
   /\ closed \/ policy.pause_on_user_activity) => idled

\* docs/QUICKSTART.md:120-121 says that a node contributes only while the
\* machine is idle, after so many minutes without input.  A daemon started on a
\* machine in use with pause_on_user_activity off contributes at once.
ContributesOnlyIdle ==
  (Available /\ policy.idle_only) => idled

\* A node that has joined and whose loop runs is off the list only if enough
\* turns of the loop passed without a heartbeat, paused, updating or unheard,
\* or if its first one is still under way after a long benchmark.
AbsenceExplained ==
  (proc = "up" /\ loop # "dead" /\ row /\ ~Listed)
    => lead + MaxPost + (missed + 1) * (Interval + MaxPost) > Timeout

\* A node that has been unavailable, paused, updating or gone, for the timeout
\* and the time a POST takes is not listed, although nothing ever withdraws it
\* and a heartbeat it decided to send before lands after; unless it registered
\* meanwhile, which lists it whatever its gate says.
FadesInTime ==
  Listed => (silent <= Timeout + MaxPost \/ touch = "registration")

\* A node that stays up on an idle machine is listed for good, whatever was
\* lost before, unless its loop died or the control plane forgot its row: a
\* heartbeat cannot bring that back, and its answer is not looked at.
ComesBack ==
  <>[](proc = "up" /\ loop # "dead" /\ IsIdle(TRUE) /\ row) => <>[]Listed
=============================================================================
