---------------------------- MODULE EngineProofs ----------------------------
(***************************************************************************)
(* Proofs about Engine, for any machines, releases, starts and numbers of  *)
(* processes: its types, the processes a daemon leaves behind, whose       *)
(* process answers, and why a slower build is used.                        *)
(***************************************************************************)
EXTENDS Engine, FiniteSetTheorems, TLAPS

-----------------------------------------------------------------------------
(***************************************************************************)
(* The cascade.                                                            *)
(***************************************************************************)
Searches == {"step", "build", "try", "fetch", "libs", "verify"}
Tries    == Searches \ {"step", "build"}

\* A build from source is tried before anything else.
CascadeOf(c) ==
  /\ c \in Seq(Steps) /\ Len(c) \in 1 .. 3
  /\ \A i \in 1 .. Len(c) : c[i] = "cuda-build" => i = 1

\* The search has a step to try.
Offered == stage \in {"step", "build"} /\ step <= Len(Tried(machine))

\* Some list of releases, or the source, gives a build for step s.
Available(s) ==
  \/ Prebuilt(s) /\ (s \in late => Releases > 1)
  \/ s = "cuda-build"

\* Step s was rightly given up.
Hopeless(s) ==
  \/ s \notin works \/ s \in trouble \/ ~ Available(s)
  \/ Releases = 0 /\ s # "cuda-build"

\* None of these steps is better than b.
NoSlower(b, steps) ==
  \A s \in steps :
    Available(s) => \E i, j \in DOMAIN Cascade(machine) :
                      Cascade(machine)[i] = b[1] /\ Cascade(machine)[j] = s /\ i <= j

Whole(b) == Needed(b[1]) \subseteq files[b] \/ b[1] \in cut

\* What the marker says, and what is used.
Chosen ==
  /\ marker # None => NoSlower(marker, could)
  /\ build # None => build = marker /\ Whole(build)
  /\ stage \in Searches \cup {"marker"} => build = None

\* What has been given up when the search is where it is.
Search ==
  /\ stage = "marker" => step = 1
  /\ stage \in Searches =>
       /\ step <= Len(Cascade(machine)) + 1
       /\ \A j \in 1 .. (step - 1) : Hopeless(Cascade(machine)[j])
  /\ stage = "build" => step <= Len(Cascade(machine)) /\ Trying = "cuda-build"
  /\ stage \in Tries =>
       /\ step <= Len(Cascade(machine)) /\ rel >= 1
       /\ Trying # "cuda-build"
       /\ Trying \in works \ trouble => \A r \in 1 .. (rel - 1) : ~ HasAsset(Trying, r)
  /\ stage \in {"fetch", "libs", "verify"} => rel <= Releases
  /\ stage = "libs" => "bin" \in files[This]
  /\ stage = "verify" => Needed(Trying) \subseteq files[This]

\* A directory that holds half of a build is one whose download was cut.
Halves ==
  \A b \in Builds :
    \/ "bin" \notin files[b] \/ Whole(b)
    \/ stage = "libs" /\ b = This

\* What the machine may be equipped with.
Equipped == works \subseteq {Cascade(machine)[i] : i \in 1 .. Len(Cascade(machine))}

Cache == CascadeOf(Cascade(machine)) /\ Equipped /\ Chosen /\ Search /\ Halves

-----------------------------------------------------------------------------
(***************************************************************************)
(* The processes.                                                          *)
(***************************************************************************)
Own == Alive \cap mine

\* Before a daemon has started a process.
Quiet == {"marker", "probe"} \cup Searches

\* Which of its processes a daemon may still have.
Household ==
  /\ \A p, q \in Own : p = q
  /\ stage \in Quiet => mine = {} /\ engine = 0 /\ fresh = 0
  /\ stage = "start" => mine = {fresh} /\ fresh # 0 /\ engine = 0
  /\ stage \in {"record", "run"} => Own \subseteq {engine} /\ engine # 0 /\ fresh = 0
  /\ stage \in {"swap", "roll"} => Own \subseteq {fresh} /\ fresh # 0 /\ engine # 0
  /\ stage = "off" /\ Own # {} => ended \in {"killed", "loading", "unrecorded"}

\* Ports grow with the starts of the daemon; one process has a port, and who
\* will have the port of a running daemon was known when it was chosen.
Ports ==
  /\ \A p \in Procs : at[p] <= lives + 1
  /\ stage \in Quiet => \A p \in Procs : at[p] <= lives
  /\ stage \in {"start", "record", "run", "swap", "roll"} =>
       /\ port <= lives + 1
       /\ \A p \in Alive : at[p] = port => p \in mine \cup racing

EngineInvariant == TypeOK /\ Cache /\ Household /\ Ports

-----------------------------------------------------------------------------
(***************************************************************************)
(* Constants and operators.                                                *)
(***************************************************************************)
LEMMA CascadeShape ==
  ASSUME NEW m \in Machines
  PROVE  CascadeOf(Cascade(m))
<1>1. m.system \in {"Linux", "Darwin", "Windows"}
  BY EngineAssumption DEF EngineAssumption
<1>2. \/ Cascade(m) = <<"metal">>
      \/ Cascade(m) = <<"cuda", "vulkan", "cpu">>
      \/ Cascade(m) = <<"vulkan", "cpu">>
      \/ Cascade(m) = <<"cuda-build", "vulkan", "cpu">>
      \/ Cascade(m) = <<"cuda", "cpu">>
      \/ Cascade(m) = <<"cpu">>
  BY <1>1 DEF Cascade
<1> USE DEF CascadeOf, Steps
<1>3. CascadeOf(<<"metal">>) /\ CascadeOf(<<"cpu">>)
  OBVIOUS
<1>4. CascadeOf(<<"vulkan", "cpu">>) /\ CascadeOf(<<"cuda", "cpu">>)
  OBVIOUS
<1>5. CascadeOf(<<"cuda", "vulkan", "cpu">>) /\ CascadeOf(<<"cuda-build", "vulkan", "cpu">>)
  OBVIOUS
<1> HIDE DEF CascadeOf
<1> QED  BY <1>2, <1>3, <1>4, <1>5

LEMMA UnusedIsFree ==
  ASSUME Free # {}
  PROVE  /\ Unused \in Procs /\ Unused # engine /\ Unused # fresh
         /\ proc[Unused] \in {"none", "gone"}
<1>1. Unused \in Free
  BY DEF Unused
<1> QED  BY <1>1 DEF Free

\* What is tried is a step of the cascade.
LEMMA TryingIsStep ==
  ASSUME TypeOK, Cache, stage \in Tries \/ Offered
  PROVE  /\ Trying = Cascade(machine)[step] /\ Trying \in Steps
         /\ step \in 1 .. Len(Cascade(machine)) /\ This = <<Trying, rel>>
         /\ step + 1 \in 1 .. 4
<1>1. /\ Trying = Cascade(machine)[step] /\ This = <<Trying, rel>>
      /\ step \in 1 .. Len(Cascade(machine))
      /\ Len(Cascade(machine)) \in 1 .. 3 /\ Cascade(machine) \in Seq(Steps)
  BY DEF TypeOK, Cache, Search, Tries, Searches, CascadeOf, Trying, Tried, This, Offered
<1>2. \A n \in 1 .. 3 : \A i \in 1 .. n : i + 1 \in 1 .. 4
  OBVIOUS
<1>3. step + 1 \in 1 .. 4
  BY <1>1, <1>2
<1> QED  BY <1>1, <1>3

-----------------------------------------------------------------------------
(***************************************************************************)
(* Types.                                                                  *)
(***************************************************************************)
LEMMA TypeInit == Init => TypeOK
<1> SUFFICES ASSUME Init PROVE TypeOK
  OBVIOUS
<1>1. CascadeOf(Cascade(machine))
  BY CascadeShape DEF Init
<1>2. works \subseteq Steps /\ late \subseteq Steps
  BY <1>1 DEF Init, Equipments, CascadeOf, Tried
<1> QED  BY <1>2, EngineAssumption DEF Init, TypeOK, EngineAssumption, Builds

LEMMA TypeStep ==
  ASSUME TypeOK, Cache, [Next]_vars
  PROVE  TypeOK'
<1> USE EngineAssumption DEF EngineAssumption
<1>1. ASSUME Start PROVE TypeOK'
  <2>1. works' \subseteq Steps
    BY <1>1 DEF Start, Equipments, Tried, Cache, CascadeOf
  <2> QED  BY <1>1, <2>1 DEF Start, TypeOK, procVars
<1>2. ASSUME Cached \/ NotCached \/ Listed \/ NoPrebuilt \/ NoAsset \/ NoRelease \/ Recorded
      PROVE  TypeOK'
  <2> USE DEF TypeOK, machineVars, procVars, ownVars, cacheVars, Goes
  <2>1. CASE Cached
    BY <2>1 DEF Cached, Runs
  <2>2. CASE NotCached
    BY <2>2 DEF NotCached, TimesOut, Fault
  <2>3. CASE Listed
    BY <2>3 DEF Listed
  <2>4. CASE NoPrebuilt
    <3>2. step + 1 \in 1 .. 4
      BY <2>4, TryingIsStep DEF NoPrebuilt, Offered
    <3> QED  BY <2>4, <3>2 DEF NoPrebuilt, NextStep
  <2>5. CASE NoAsset
    BY <2>5 DEF NoAsset, NextRelease
  <2>6. CASE NoRelease
    <3>2. step + 1 \in 1 .. 4
      BY <2>6, TryingIsStep DEF NoRelease, Tries, Searches
    <3> QED  BY <2>6, <3>2 DEF NoRelease, NextStep
  <2>7. CASE Recorded
    BY <2>7 DEF Recorded
  <2> QED  BY <1>2, <2>1, <2>2, <2>3, <2>4, <2>5, <2>6, <2>7
<1>3. ASSUME SourceBegins \/ SourceBuilt \/ SourceFails PROVE TypeOK'
  <2>1. SourceFails => step + 1 \in 1 .. 4
    BY TryingIsStep DEF SourceFails, Offered
  <2> USE DEF TypeOK, machineVars, procVars, ownVars, Goes
  <2>2. CASE SourceBuilt
    BY <2>2 DEF SourceBuilt, Take, Source, Builds, Steps
  <2>3. CASE SourceFails
    <3>1. "cuda-build" \in Steps /\ faults' \in 0 .. MaxFaults
      BY <2>3 DEF SourceFails, Fault, Steps
    <3>2. trouble' \subseteq Steps
      BY <2>3, <3>1 DEF SourceFails
    <3> QED  BY <2>1, <2>3, <3>1, <3>2 DEF SourceFails, NextStep
  <2>4. CASE SourceBegins
    BY <2>4 DEF SourceBegins
  <2> QED  BY <1>3, <2>2, <2>3, <2>4
<1>4. ASSUME Installed \/ Fetched \/ LibsFetched \/ Verify \/ FetchFails PROVE TypeOK'
  <2>1. Trying \in Steps /\ This = <<Trying, rel>> /\ stage \in Tries
    BY <1>4, TryingIsStep DEF Installed, Fetched, LibsFetched, Verify, FetchFails, Tries, Searches
  <2>2. rel \in 0 .. Releases \/ (stage = "try" /\ rel > Releases)
    BY <1>4, <2>1 DEF TypeOK, Cache, Search, Tries, Searches
  <2> USE DEF TypeOK, machineVars, procVars, ownVars, cacheVars, Goes, Take, NextRelease
  <2>3. CASE Installed
    BY <2>1, <2>2, <2>3 DEF Installed, Builds, TimesOut, Fault
  <2>4. CASE Fetched
    BY <2>1, <2>4 DEF Fetched
  <2>5. CASE LibsFetched
    BY <2>1, <2>5 DEF LibsFetched
  <2>6. CASE Verify
    BY <2>1, <2>2, <2>6 DEF Verify, Builds, TimesOut, Fault
  <2>7. CASE FetchFails
    BY <2>1, <2>2, <2>7 DEF FetchFails, Fault, Cuts
  <2> QED  BY <1>4, <2>3, <2>4, <2>5, <2>6, <2>7
<1>5. ASSUME NEW q \in 0 .. MaxLives + 1, NEW gone, Launch(q, gone)
      PROVE  /\ proc' \in [Procs -> {"none", "starting", "loading", "serving", "gone"}]
             /\ at' \in [Procs -> 0 .. MaxLives + 1]
             /\ mine' \subseteq Procs /\ fresh' \in 0 .. MaxProcs /\ Unused \in Procs
  <2>1. Unused \in Procs
    BY <1>5, UnusedIsFree DEF Launch
  <2> QED  BY <1>5, <2>1 DEF Launch, TypeOK, Procs
<1>6. ASSUME FirstLaunch \/ Swap \/ Rollback PROVE TypeOK'
  <2> USE DEF TypeOK, machineVars, cacheVars
  <2>1. FreePort \in 0 .. MaxLives + 1
    BY DEF FreePort
  <2>2. CASE FirstLaunch
    BY <1>5, <2>1, <2>2 DEF FirstLaunch
  <2>3. CASE Swap
    BY <1>5, <2>3 DEF Swap
  <2>4. CASE Rollback
    BY <1>5, <2>4 DEF Rollback, Fault
  <2> QED  BY <1>6, <2>2, <2>3, <2>4
<1>7. ASSUME Healthy \/ StartFails \/ RollbackFails \/ Shutdown \/ Leaves PROVE TypeOK'
  <2> USE DEF TypeOK, machineVars, cacheVars, procVars, ownVars
  <2>1. CASE Healthy
    BY <2>1 DEF Healthy
  <2>2. CASE StartFails
    BY <2>2 DEF StartFails, Failing, StopsChild, Fault
  <2>3. CASE RollbackFails
    BY <2>3 DEF RollbackFails, Failing, StopsChild, Fault
  <2>4. CASE Shutdown
    BY <2>4 DEF Shutdown, Cleanup, StopsEngine
  <2>5. CASE Leaves
    BY <2>5 DEF Leaves, Fault
  <2> QED  BY <1>7, <2>1, <2>2, <2>3, <2>4, <2>5
<1>8. ASSUME Kill PROVE TypeOK'
  <2>1. stage = "libs" => Trying \in Steps
    BY TryingIsStep DEF Tries, Searches
  <2> QED  BY <1>8, <2>1 DEF Kill, Cuts, TypeOK, machineVars, procVars, ownVars, Fault
<1>9. ASSUME NEW p \in Procs, Bind(p) \/ Loads(p) \/ Dies(p) PROVE TypeOK'
  BY <1>9 DEF Bind, Loads, Dies, TypeOK, machineVars, cacheVars, ownVars, Fault
<1>10. ASSUME UNCHANGED vars PROVE TypeOK'
  BY <1>10 DEF TypeOK, vars, machineVars, cacheVars, procVars, ownVars
<1> QED
  BY <1>1, <1>2, <1>3, <1>4, <1>6, <1>7, <1>8, <1>9, <1>10 DEF Next, Done

-----------------------------------------------------------------------------
(***************************************************************************)
(* The processes.                                                          *)
(***************************************************************************)
\* The search for a build starts and stops nothing.
SearchStep ==
  \/ Cached \/ NotCached \/ SourceBegins \/ SourceBuilt \/ SourceFails \/ NoPrebuilt \/ Listed
  \/ NoAsset \/ NoRelease \/ Installed
  \/ Fetched \/ LibsFetched \/ FetchFails \/ Verify

LEMMA SearchIsQuiet ==
  ASSUME SearchStep
  PROVE  /\ stage \in Quiet /\ stage' \in Quiet
         /\ UNCHANGED <<machineVars, procVars, ownVars, ended, lives>>
BY DEF SearchStep, Cached, NotCached, SourceBegins, SourceBuilt, SourceFails, NoPrebuilt,
       Listed, NoAsset, NoRelease, Installed, Fetched, LibsFetched, FetchFails, Verify, Goes,
       Take, Quiet, Searches

\* Who lives after a launch.
LEMMA LaunchEffect ==
  ASSUME TypeOK, NEW q, NEW gone, Launch(q, gone)
  PROVE  /\ Unused \in Procs /\ Unused # engine /\ Unused # fresh /\ Unused \notin Alive
         /\ fresh' = Unused /\ fresh' # 0 /\ mine' = mine \cup {Unused}
         /\ Alive' = (Alive \ {gone}) \cup {Unused}
         /\ at'[Unused] = q /\ \A p \in Procs \ {Unused} : at'[p] = at[p]
<1>1. Unused \in Procs /\ Unused # engine /\ Unused # fresh /\ proc[Unused] \in {"none", "gone"}
  BY UnusedIsFree DEF Launch
<1>2. /\ proc' = [p \in Procs |-> IF p = Unused THEN "starting"
                                  ELSE IF p = gone THEN "gone" ELSE proc[p]]
      /\ at' = [at EXCEPT ![Unused] = q]
      /\ mine' = mine \cup {Unused} /\ fresh' = Unused
  BY DEF Launch
<1>3. Unused # 0
  BY <1>1, EngineAssumption DEF EngineAssumption, Procs
<1>4. Unused \notin Alive
  BY <1>1 DEF Alive
<1>5. \A p \in Procs : p \in Alive' <=> (p = Unused \/ (p \in Alive /\ p # gone))
  BY <1>1, <1>2 DEF Alive
<1>6. Alive' \subseteq Procs /\ Alive \subseteq Procs
  BY DEF Alive
<1>7. at'[Unused] = q /\ \A p \in Procs \ {Unused} : at'[p] = at[p]
  BY <1>1, <1>2 DEF TypeOK
<1> QED  BY <1>1, <1>2, <1>3, <1>4, <1>5, <1>6, <1>7

\* A process that binds its port, has loaded its model or dies was alive.
LEMMA ProcessEffect ==
  ASSUME TypeOK, NEW p \in Procs, Bind(p) \/ Loads(p) \/ Dies(p)
  PROVE  /\ Alive' \subseteq Alive
         /\ UNCHANGED <<machineVars, stage, at, ownVars, ended, lives>>
<1>1. p \in Alive
  BY DEF Alive, Bind, Loads, Dies
<1>2. \A r \in Procs \ {p} : proc'[r] = proc[r]
  BY DEF Bind, Loads, Dies, TypeOK
<1>3. Alive' \subseteq Procs /\ Alive \subseteq Procs
  BY DEF Alive
<1>4. \A r \in Procs : r \in Alive' => r \in Alive
  BY <1>1, <1>2 DEF Alive
<1>5. UNCHANGED <<machineVars, stage, at, ownVars, ended, lives>>
  BY DEF Bind, Loads, Dies
<1> QED  BY <1>3, <1>4, <1>5

\* A child that fails is not there any more.
LEMMA FailingEffect ==
  ASSUME TypeOK, Failing
  PROVE  Alive' \subseteq Alive \ {fresh}
<1>1. Alive' \subseteq Procs
  BY DEF Alive
<1>2. \A r \in Procs : r \in Alive' => r \in Alive /\ r # fresh
  BY DEF Failing, StopsChild, Alive, TypeOK
<1> QED  BY <1>1, <1>2

LEMMA ProcInit == Init => Household /\ Ports
BY EngineAssumption DEF Init, Household, Ports, Own, Alive, Quiet, Searches, EngineAssumption

LEMMA HouseholdStep ==
  ASSUME TypeOK, Household, [Next]_vars
  PROVE  Household'
<1>1. CASE Start
  BY <1>1 DEF Start, Household, Own, Quiet, Searches
<1>2. CASE SearchStep
  <2>1. Alive' = Alive
    BY <1>2, SearchIsQuiet DEF procVars, Alive
  <2> QED  BY <1>2, <2>1, SearchIsQuiet DEF ownVars, Household, Own, Quiet, Searches
<1>3. CASE FirstLaunch
  <2>1. /\ mine' = mine \cup {Unused} /\ mine = {} /\ engine = 0
        /\ fresh' = Unused /\ fresh' # 0
    BY <1>3, LaunchEffect DEF FirstLaunch, Household, Quiet
  <2> QED  BY <1>3, <2>1 DEF FirstLaunch, Household, Own, Quiet, Searches
<1>4. CASE Swap
  <2>1. /\ Alive' = (Alive \ {engine}) \cup {Unused} /\ fresh' = Unused /\ fresh' # 0
        /\ mine' = mine \cup {Unused}
    BY <1>4, LaunchEffect DEF Swap
  <2> QED  BY <1>4, <2>1 DEF Swap, Household, Own, Quiet, Searches
<1>5. CASE Rollback
  <2>1. /\ Alive' \subseteq (Alive \ {fresh}) \cup {Unused} /\ fresh' = Unused /\ fresh' # 0
        /\ mine' = mine \cup {Unused}
    BY <1>5, LaunchEffect DEF Rollback, Alive
  <2> QED  BY <1>5, <2>1 DEF Rollback, Household, Own, Quiet, Searches
<1>6. CASE StartFails \/ RollbackFails
  <2>1. Alive' \subseteq Alive \ {fresh}
    BY <1>6, FailingEffect DEF StartFails, RollbackFails
  <2> QED
    BY <1>6, <2>1 DEF StartFails, RollbackFails, Household, Own, Quiet, Searches
<1>7. CASE Healthy
  <2>1. Alive' = Alive
    BY <1>7 DEF Healthy, procVars, Alive
  <2> QED  BY <1>7, <2>1 DEF Healthy, Household, Own, Quiet, Searches
<1>8. CASE Recorded \/ Leaves \/ Kill \/ UNCHANGED vars
  <2>1. Alive' = Alive /\ UNCHANGED ownVars
    BY <1>8 DEF Recorded, Leaves, Kill, vars, procVars, ownVars, Alive
  <2> QED
    BY <1>8, <2>1 DEF Recorded, Leaves, Kill, vars, ownVars, Household, Own, Quiet, Searches
<1>9. CASE Shutdown
  <2>1. Alive' \subseteq Alive \ {engine} /\ UNCHANGED ownVars
    BY <1>9 DEF Shutdown, Cleanup, StopsEngine, Alive
  <2> QED  BY <1>9, <2>1 DEF Shutdown, ownVars, Household, Own, Quiet, Searches
<1>10. CASE \E p \in Procs : Bind(p) \/ Loads(p) \/ Dies(p)
  <2>1. Alive' \subseteq Alive /\ UNCHANGED <<stage, ownVars, ended>>
    BY <1>10, ProcessEffect
  <2> QED  BY <2>1 DEF ownVars, Household, Own, Quiet, Searches
<1> QED
  BY <1>1, <1>2, <1>3, <1>4, <1>5, <1>6, <1>7, <1>8, <1>9, <1>10 DEF Next, Done, SearchStep

LEMMA PortsStep ==
  ASSUME TypeOK, Household, Ports, [Next]_vars
  PROVE  Ports'
<1>0. lives \in Nat /\ at \in [Procs -> Nat] /\ port \in Nat
  BY EngineAssumption DEF TypeOK, EngineAssumption
<1>1. CASE Start
  BY <1>0, <1>1 DEF Start, procVars, Ports, Quiet, Searches
<1>2. CASE SearchStep
  BY <1>2, SearchIsQuiet DEF procVars, ownVars, Ports, Quiet, Searches
<1>3. CASE FirstLaunch
  <2>1. /\ Alive' = (Alive \ {0}) \cup {Unused} /\ mine' = mine \cup {Unused}
        /\ Unused \in Procs /\ Unused \notin Alive
        /\ at'[Unused] = port' /\ \A p \in Procs \ {Unused} : at'[p] = at[p]
    BY <1>3, LaunchEffect DEF FirstLaunch
  <2>2. port' <= lives + 1 /\ lives' = lives
    BY <1>0, <1>3 DEF FirstLaunch, FreePort
  <2>3. \A p \in Procs : at[p] <= lives
    BY <1>3 DEF FirstLaunch, Ports, Quiet
  <2>4. \A p \in Alive : at[p] = port' => p \in racing'
    <3> SUFFICES ASSUME NEW p \in Alive, at[p] = port', p \notin racing' PROVE FALSE
      OBVIOUS
    <3>1. p \in Procs /\ proc[p] \in {"loading", "serving"}
      BY <1>3 DEF FirstLaunch, Alive
    <3>2. p \in Bound(port')
      BY <3>1 DEF Bound
    <3>3. port' = lives + 1
      BY <1>3, <3>2 DEF FirstLaunch, FreePort
    <3> QED  BY <1>0, <2>3, <3>1, <3>3
  <2>5. Alive \subseteq Procs
    BY DEF Alive
  <2>6. stage' = "start"
    BY <1>3 DEF FirstLaunch
  <2>7. \A p \in Procs : at'[p] <= lives' + 1
    BY <1>0, <2>1, <2>2, <2>3
  <2>8. \A p \in Alive' : at'[p] = port' => p \in mine' \cup racing'
    BY <2>1, <2>4, <2>5
  <2> QED  BY <2>2, <2>6, <2>7, <2>8 DEF Ports, Quiet, Searches
<1>4. CASE Swap \/ Rollback
  <2>1. /\ Alive' \subseteq Alive \cup {Unused} /\ mine' = mine \cup {Unused}
        /\ Unused \in Procs /\ Unused \notin Alive
        /\ at'[Unused] = port /\ \A p \in Procs \ {Unused} : at'[p] = at[p]
    BY <1>4, LaunchEffect DEF Swap, Rollback
  <2>2. /\ UNCHANGED <<port, lives>> /\ racing' = racing \ {Unused}
        /\ stage \in {"run", "swap"} /\ stage' \in {"swap", "roll"}
    BY <1>4 DEF Swap, Rollback
  <2>3. Alive \subseteq Procs
    BY DEF Alive
  <2>4. \A p \in Procs : at'[p] <= lives' + 1
    BY <1>0, <2>1, <2>2 DEF Ports
  <2>5. \A p \in Alive' : at'[p] = port' => p \in mine' \cup racing'
    BY <2>1, <2>2, <2>3 DEF Ports
  <2>6. port' <= lives' + 1
    BY <2>2 DEF Ports
  <2> QED  BY <2>2, <2>4, <2>5, <2>6 DEF Ports, Quiet, Searches
<1>5. CASE StartFails \/ RollbackFails
  <2>1. Alive' \subseteq Alive /\ UNCHANGED <<at, port, mine, racing, lives>>
    BY <1>5, FailingEffect DEF StartFails, RollbackFails
  <2> QED  BY <1>5, <2>1 DEF StartFails, RollbackFails, Ports, Quiet, Searches
<1>6. CASE Healthy
  <2>1. Alive' = Alive
    BY <1>6 DEF Healthy, procVars, Alive
  <2> QED  BY <1>6, <2>1 DEF Healthy, procVars, Ports, Quiet, Searches
<1>7. CASE Recorded \/ Leaves \/ Kill \/ UNCHANGED vars
  <2>1. Alive' = Alive /\ UNCHANGED <<procVars, ownVars, lives>>
    BY <1>7 DEF Recorded, Leaves, Kill, vars, procVars, ownVars, Alive
  <2> QED
    BY <1>7, <2>1 DEF Recorded, Leaves, Kill, vars, procVars, ownVars, Ports, Quiet, Searches
<1>8. CASE Shutdown
  <2>1. Alive' \subseteq Alive /\ UNCHANGED ownVars
    BY <1>8 DEF Shutdown, Cleanup, StopsEngine, Alive
  <2> QED  BY <1>8, <2>1 DEF Shutdown, ownVars, Ports, Quiet, Searches
<1>9. CASE \E p \in Procs : Bind(p) \/ Loads(p) \/ Dies(p)
  <2>1. Alive' \subseteq Alive /\ UNCHANGED <<stage, at, ownVars, lives>>
    BY <1>9, ProcessEffect
  <2> QED  BY <2>1 DEF ownVars, Ports, Quiet, Searches
<1> QED
  BY <1>1, <1>2, <1>3, <1>4, <1>5, <1>6, <1>7, <1>8, <1>9 DEF Next, Done, SearchStep

-----------------------------------------------------------------------------
(***************************************************************************)
(* The search for a build.                                                 *)
(***************************************************************************)
\* Failures are remembered; downloads only add, or leave a build whole.
Grows ==
  /\ UNCHANGED machineVars
  /\ \A b \in Builds : files[b] \subseteq files'[b] \/ Whole(b)'
  /\ trouble \subseteq trouble' /\ cut \subseteq cut'

LEMMA GrowsKeeps ==
  ASSUME TypeOK, Grows
  PROVE  /\ \A s : Hopeless(s) => Hopeless(s)'
         /\ \A b \in Builds : Whole(b) => Whole(b)'
<1>1. \A s : /\ Needed(s)' = Needed(s)
             /\ Prebuilt(s)' <=> Prebuilt(s)
             /\ Available(s)' <=> Available(s)
  BY DEF Grows, machineVars, Needed, Prebuilt, Available
<1>2. \A s : Hopeless(s) => Hopeless(s)'
  BY <1>1 DEF Grows, machineVars, Hopeless
<1>3. \A b \in Builds : Whole(b) => Whole(b)'
  BY <1>1 DEF Grows, Whole
<1> QED  BY <1>2, <1>3

\* The marker, and what was true when it was written, stay.
LEMMA ChosenKept ==
  ASSUME Chosen, UNCHANGED <<machine, late, marker, could>>, cut \subseteq cut',
         build' \in {build, None}, build' # None => files' = files,
         stage' \in Searches \cup {"marker"} => build' = None
  PROVE  Chosen'
<1>1. \A s : (Available(s)' <=> Available(s)) /\ Needed(s)' = Needed(s)
  BY DEF Available, Prebuilt, Needed
<1>2. marker' # None => NoSlower(marker, could)'
  BY <1>1 DEF Chosen, NoSlower
<1>3. build' # None => build' = marker' /\ Whole(build)'
  BY <1>1 DEF Chosen, Whole
<1> QED  BY <1>2, <1>3 DEF Chosen

\* A step that searches nothing.
LEMMA Elsewhere ==
  ASSUME TypeOK, Cache, UNCHANGED <<machine, late, files, marker, could>>, Equipped',
         cut \subseteq cut', build' \in {build, None}, stage' \notin Searches,
         stage' = "marker" => step' = 1 /\ build' = None,
         stage = "libs" => Trying \in cut'
  PROVE  Cache'
<1>1. Chosen'
  BY ChosenKept DEF Cache
<1>2. Search'
  BY DEF Search, Searches, Tries
<1>3. Halves'
  <2> SUFFICES ASSUME NEW b \in Builds, "bin" \in files[b] PROVE Whole(b)'
    BY DEF Halves
  <2>1. CASE Whole(b)
    BY <2>1 DEF Whole, Needed
  <2>2. CASE stage = "libs" /\ b = This
    BY <2>2 DEF Whole, This
  <2> QED  BY <2>1, <2>2 DEF Cache, Halves
<1> QED  BY <1>1, <1>2, <1>3 DEF Cache

\* The search goes on with the next step, this one being given up.
LEMMA StepUp ==
  ASSUME TypeOK, Cache, Grows, UNCHANGED <<files, marker, build, could>>, NextStep,
         stage' = "step", Offered \/ stage = "try", step <= Len(Tried(machine)),
         NEW s, s = Trying, Hopeless(s)'
  PROVE  Cache'
<1>1. /\ Trying = Cascade(machine)[step] /\ step \in 1 .. Len(Cascade(machine))
      /\ step \in Nat /\ Len(Cascade(machine)) \in Nat
  BY TryingIsStep DEF Tries, Searches, Cache, CascadeOf
<1>2. UNCHANGED machineVars /\ machine' = machine /\ Equipped'
  BY DEF Grows, machineVars, Cache, Equipped
<1>3. Chosen'
  <2>1. build = None
    BY DEF Cache, Chosen, Offered, Searches
  <2> QED  BY <1>2, <2>1, ChosenKept DEF Cache, Grows, machineVars
<1>4. Halves'
  <2> SUFFICES ASSUME NEW b \in Builds, "bin" \in files[b] PROVE Whole(b)'
    BY DEF Halves
  <2>1. Whole(b)
    BY DEF Cache, Halves, Offered
  <2> QED  BY <2>1, GrowsKeeps
<1>5. \A j \in 1 .. step : Hopeless(Cascade(machine)[j])'
  <2> SUFFICES ASSUME NEW j \in 1 .. step PROVE Hopeless(Cascade(machine)[j])'
    OBVIOUS
  <2>1. CASE j = step
    BY <1>1, <1>2, <2>1 DEF machineVars, Hopeless, Available, Prebuilt
  <2>2. CASE j # step
    <3>1. j \in 1 .. (step - 1)
      BY <1>1, <2>2
    <3>2. Hopeless(Cascade(machine)[j])
      BY <3>1 DEF Cache, Search, Searches, Offered
    <3> QED  BY <1>2, <3>2 DEF Grows, machineVars, Hopeless, Available, Prebuilt
  <2> QED  BY <2>1, <2>2
<1>6. Search'
  <2>1. step' = step + 1 /\ step' - 1 = step /\ machine' = machine
    BY <1>1, <1>2 DEF NextStep, machineVars
  <2>2. step' <= Len(Cascade(machine)') + 1
    BY <1>1, <2>1
  <2>3. \A j \in 1 .. (step' - 1) : Hopeless(Cascade(machine)[j])'
    BY <1>5, <2>1
  <2> QED  BY <2>2, <2>3 DEF Search, Searches, Tries
<1> QED  BY <1>2, <1>3, <1>4, <1>6 DEF Cache

\* Nothing better is left than what is tried now.
LEMMA TryingIsBest ==
  ASSUME TypeOK, Cache, stage \in Tries \/ Offered,
         Trying # "cuda-build" => Releases # 0, NEW r
  PROVE  NoSlower(<<Trying, r>>, works \ trouble)
<1> SUFFICES ASSUME NEW s \in works \ trouble, Available(s)
             PROVE  \E i, j \in DOMAIN Cascade(machine) :
                      Cascade(machine)[i] = Trying /\ Cascade(machine)[j] = s /\ i <= j
  BY DEF NoSlower
<1>1. /\ Trying = Cascade(machine)[step] /\ step \in 1 .. Len(Cascade(machine))
      /\ Cascade(machine) \in Seq(Steps) /\ Len(Cascade(machine)) \in Nat
  BY TryingIsStep DEF Cache, CascadeOf
<1>2. DOMAIN Cascade(machine) = 1 .. Len(Cascade(machine))
  BY <1>1
<1>3. PICK j \in 1 .. Len(Cascade(machine)) : Cascade(machine)[j] = s
  BY DEF Cache, Equipped
<1>4. step <= j
  <2> SUFFICES ASSUME j < step PROVE FALSE
    BY <1>1
  <2>1. j \in 1 .. (step - 1)
    BY <1>1
  <2>2. Hopeless(s)
    BY <1>3, <2>1 DEF Cache, Search, Tries, Searches, Offered
  <2>3. Releases = 0 /\ s # "cuda-build"
    BY <2>2 DEF Hopeless
  <2>4. step = 1
    BY <1>1, <2>3 DEF Cache, CascadeOf
  <2> QED  BY <1>1, <2>4
<1> QED  BY <1>1, <1>2, <1>3, <1>4

\* A build whose directory holds what it needs is taken.
LEMMA Taken ==
  ASSUME TypeOK, Cache, Grows, NEW b \in Builds, NoSlower(b, works \ trouble), Whole(b)',
         stage # "libs", Take(b), trouble' = trouble,
         \A x \in Builds : files'[x] = files[x] \/ Whole(x)'
  PROVE  Cache'
<1>1. /\ UNCHANGED machineVars /\ marker' = b /\ build' = b /\ stage' = "probe"
      /\ could' = works \ trouble
  BY DEF Grows, Take, Goes
<1>2. \A s : Available(s)' <=> Available(s)
  BY <1>1 DEF Available, Prebuilt, machineVars
<1>3. NoSlower(marker, could)'
  BY <1>1, <1>2 DEF NoSlower, machineVars
<1>4. Whole(build)'
  BY <1>1 DEF Whole, Needed
<1>5. Chosen'
  BY <1>1, <1>3, <1>4 DEF Chosen, Searches
<1>6. Halves'
  <2> SUFFICES ASSUME NEW x \in Builds, "bin" \in files'[x] PROVE Whole(x)'
    BY DEF Halves
  <2>1. CASE files'[x] = files[x]
    BY <2>1, GrowsKeeps DEF Cache, Halves
  <2> QED  BY <2>1
<1>7. Search'
  BY <1>1 DEF Search, Searches, Tries
<1> QED  BY <1>1, <1>5, <1>6, <1>7 DEF Cache, Equipped, machineVars

\* The steps within one release: its archives are fetched, and tried.
Install == Installed \/ Fetched \/ LibsFetched \/ FetchFails \/ Verify

\* What they have in common.
LEMMA InstallFacts ==
  ASSUME TypeOK, Cache, Install
  PROVE  /\ UNCHANGED machineVars /\ stage \in Tries
         /\ trouble \subseteq trouble' /\ cut \subseteq cut'
         /\ Trying = Cascade(machine)[step] /\ step \in 1 .. Len(Cascade(machine))
         /\ This = <<Trying, rel>> /\ This \in Builds
         /\ rel \in 1 .. Releases /\ Trying # "cuda-build"
         /\ \A b \in Builds : files[b] \subseteq files'[b]
         /\ \A b \in Builds : b # This => files'[b] = files[b]
<1>1. /\ UNCHANGED machineVars /\ stage \in Tries
      /\ trouble \subseteq trouble' /\ cut \subseteq cut'
      /\ stage = "try" => rel <= Releases
  BY DEF Install, Installed, Fetched, LibsFetched, FetchFails, Verify, Goes, Take, Tries,
         Searches, cacheVars, Cuts
<1>2. /\ Trying = Cascade(machine)[step] /\ step \in 1 .. Len(Cascade(machine))
      /\ This = <<Trying, rel>> /\ Trying \in Steps
  BY <1>1, TryingIsStep
<1>3. rel \in 1 .. Releases /\ Trying # "cuda-build"
  BY <1>1, EngineAssumption DEF TypeOK, Cache, Search, Tries, Searches, EngineAssumption
<1>4. This \in Builds
  <2>1. rel \in 0 .. Releases
    BY <1>3, EngineAssumption DEF EngineAssumption
  <2> QED  BY <1>2, <2>1 DEF Builds
<1>5. \/ files' = files
      \/ \E part : files' = [files EXCEPT ![This] = @ \cup {part}]
  BY DEF Install, Installed, Fetched, LibsFetched, FetchFails, Verify, cacheVars
<1>6. /\ \A b \in Builds : files[b] \subseteq files'[b]
      /\ \A b \in Builds : b # This => files'[b] = files[b]
  BY <1>5 DEF TypeOK
<1> QED  BY <1>1, <1>2, <1>3, <1>4, <1>6

\* The search goes on within this step of the cascade.
LEMMA StayTrying ==
  ASSUME TypeOK, Cache, Install, UNCHANGED <<marker, build, step, could>>, stage' \in Tries,
         rel' >= 1,
         Trying \in works \ trouble' => \A r \in 1 .. (rel' - 1) : ~ HasAsset(Trying, r),
         stage' \in {"fetch", "libs", "verify"} => rel' <= Releases,
         stage' = "libs" => rel' = rel /\ "bin" \in files'[This],
         stage' = "verify" => rel' = rel /\ Needed(Trying) \subseteq files'[This],
         stage' # "libs" /\ "bin" \in files'[This] =>
            Needed(Trying) \subseteq files'[This] \/ Trying \in cut'
  PROVE  Cache'
<1>1. Grows
  BY InstallFacts DEF Grows
<1>2. /\ machine' = machine /\ works' = works /\ late' = late /\ Trying' = Trying
      /\ \A s, r : HasAsset(s, r)' <=> HasAsset(s, r)
      /\ \A s : Needed(s)' = Needed(s)
      /\ rel' = rel => This' = This
  BY InstallFacts DEF machineVars, Trying, Tried, This, HasAsset, Needed
<1>3. Chosen'
  <2>1. build = None
    BY InstallFacts DEF Cache, Chosen, Tries
  <2> QED  BY <1>1, <1>2, <2>1, ChosenKept DEF Cache, Grows
<1>4. Search'
  <2>1. \A j \in 1 .. (step - 1) : Hopeless(Cascade(machine)[j])'
    BY <1>1, <1>2, InstallFacts, GrowsKeeps
      DEF Cache, Search, Tries, Hopeless, Available, Prebuilt, Grows
  <2>2. step <= Len(Cascade(machine)) + 1 /\ step <= Len(Cascade(machine))
    BY InstallFacts DEF Cache, Search, Tries
  <2>3. stage' \in Searches /\ stage' \notin {"marker", "build"} /\ Trying # "cuda-build"
    BY InstallFacts DEF Tries, Searches
  <2> QED  BY <1>2, <2>1, <2>2, <2>3 DEF Search
<1>5. Halves'
  <2> SUFFICES ASSUME NEW b \in Builds, "bin" \in files'[b],
                      ~ (stage' = "libs" /\ b = This')
               PROVE  Whole(b)'
    BY DEF Halves
  <2>1. CASE b # This
    <3>1. Whole(b) /\ files'[b] = files[b]
      BY <2>1, InstallFacts DEF Cache, Halves
    <3> QED  BY <1>1, <3>1, GrowsKeeps
  <2>2. CASE b = This
    <3>1. b[1] = Trying /\ stage' # "libs"
      BY <1>2, <2>2, InstallFacts
    <3> QED  BY <1>2, <2>2, <3>1 DEF Whole
  <2> QED  BY <2>1, <2>2
<1> QED  BY <1>2, <1>3, <1>4, <1>5 DEF Cache, Equipped

LEMMA InstallCache ==
  ASSUME TypeOK, Cache, Install
  PROVE  Cache'
<1>0. /\ Trying \in works \ trouble => \A r \in 1 .. (rel - 1) : ~ HasAsset(Trying, r)
      /\ rel \in Nat /\ Releases \in Nat /\ rel >= 1 /\ rel <= Releases
      /\ \A s : "bin" \in Needed(s)
      /\ Grows
  BY InstallFacts, EngineAssumption DEF Cache, Search, Tries, Needed, EngineAssumption, Grows
<1>1. ASSUME Runs(This), Take(This), UNCHANGED <<files, trouble>>, stage # "libs"
      PROVE  Cache'
  <2>1. PICK b \in Builds : b = This
    BY InstallFacts
  <2>2. NoSlower(b, works \ trouble)
    BY <1>0, <2>1, InstallFacts, TryingIsBest
  <2>3. "bin" \in files[b]
    BY <1>1, <2>1 DEF Runs
  <2>4. Whole(b)
    BY <1>1, <2>3 DEF Cache, Halves
  <2>5. Whole(b)'
    BY <1>0, <1>1, <2>3, <2>4, GrowsKeeps
  <2> QED  BY <1>0, <1>1, <2>1, <2>2, <2>5, Taken
<1>2. CASE Installed
  <2>1. CASE Runs(This) /\ Take(This) /\ UNCHANGED <<files, trouble>>
    BY <1>1, <1>2, <2>1 DEF Installed
  <2>2. CASE stage' = "fetch" /\ UNCHANGED cacheVars
    <3>1. stage = "try"
      BY <1>2 DEF Installed
    <3>2. "bin" \in files[This] => Whole(This)
      BY <3>1, InstallFacts DEF Cache, Halves
    <3> QED
      BY <1>0, <2>2, <3>1, <3>2, InstallFacts, StayTrying DEF cacheVars, Whole, Tries, Searches
  <2> QED  BY <1>2, <2>1, <2>2 DEF Installed, Goes
<1>3. CASE Fetched
  <2>1. /\ stage = "fetch" /\ UNCHANGED <<marker, step, rel, build, trouble, could, cut>>
        /\ "bin" \in files'[This]
        /\ stage' = IF "libs" \in Needed(Trying) THEN "libs" ELSE "verify"
    BY <1>3, InstallFacts DEF Fetched, Goes, TypeOK
  <2>2. "libs" \notin Needed(Trying) => Needed(Trying) \subseteq files'[This]
    BY <2>1 DEF Needed
  <2> QED  BY <1>0, <2>1, <2>2, StayTrying DEF Tries, Searches
<1>4. CASE LibsFetched
  <2>1. /\ stage = "libs" /\ UNCHANGED <<marker, step, rel, build, trouble, could, cut>>
        /\ {"bin", "libs"} \subseteq files'[This] /\ stage' = "verify"
    BY <1>4, InstallFacts DEF LibsFetched, Goes, TypeOK, Cache, Search
  <2>2. Needed(Trying) \subseteq files'[This]
    BY <2>1 DEF Needed
  <2> QED  BY <1>0, <2>1, <2>2, StayTrying DEF Tries, Searches
<1>5. CASE FetchFails
  <2>1. /\ UNCHANGED <<files, marker, step, build, could>> /\ stage' = "try"
        /\ rel' = rel + 1 /\ Trying \in trouble' /\ cut' = Cuts
    BY <1>5 DEF FetchFails, NextRelease, Goes
  <2>2. "bin" \in files[This] => Whole(This) \/ stage = "libs"
    BY InstallFacts DEF Cache, Halves
  <2>3. "bin" \in files'[This] => Needed(Trying) \subseteq files'[This] \/ Trying \in cut'
    BY <2>1, <2>2, InstallFacts DEF Whole, Cuts
  <2> QED  BY <1>0, <2>1, <2>3, StayTrying DEF Tries, Searches
<1>6. CASE Verify
  <2>1. CASE Runs(This) /\ Take(This) /\ UNCHANGED <<files, trouble>>
    BY <1>1, <1>6, <2>1 DEF Verify
  <2>2. CASE /\ (~ Runs(This) /\ UNCHANGED trouble) \/ Trying \in trouble'
             /\ UNCHANGED <<files, marker, step, build, could>>
             /\ stage' = "try" /\ rel' = rel + 1
    <3>1. stage = "verify" /\ Needed(Trying) \subseteq files[This]
      BY <1>6 DEF Verify, Cache, Search
    <3>2. ~ Runs(This) => Trying \notin works
      BY <1>0, <3>1, InstallFacts, EngineAssumption DEF Runs, EngineAssumption
    <3> QED  BY <1>0, <2>2, <3>1, <3>2, StayTrying DEF Tries, Searches
  <2> QED  BY <1>6, <2>1, <2>2 DEF Verify, Goes, NextRelease
<1> QED  BY <1>2, <1>3, <1>4, <1>5, <1>6 DEF Install

LEMMA CacheStep ==
  ASSUME TypeOK, Cache, [Next]_vars
  PROVE  Cache'
<1>1. CASE Start
  <2>1. Equipped' /\ UNCHANGED <<machine, late, files, marker, could, cut>> /\ stage # "libs"
    BY <1>1 DEF Start, Equipments, Equipped, Tried, Cache, CascadeOf
  <2> QED  BY <1>1, <2>1, Elsewhere DEF Start, Searches
<1>2. CASE Kill
  <2>1. /\ UNCHANGED <<machineVars, files, marker, build, could>> /\ stage' = "off"
        /\ cut \subseteq cut'
        /\ stage = "libs" => Trying \in cut'
    BY <1>2 DEF Kill, Cuts
  <2> QED  BY <2>1, Elsewhere DEF Cache, Equipped, machineVars, Searches
<1>3. CASE FirstLaunch \/ Swap \/ Rollback \/ Healthy \/ StartFails \/ RollbackFails
             \/ Shutdown \/ Recorded \/ Leaves
  <2>1. /\ UNCHANGED <<machineVars, cacheVars>> /\ stage # "libs"
        /\ stage' \notin Searches \cup {"marker"}
    BY <1>3 DEF FirstLaunch, Swap, Rollback, Healthy, StartFails, RollbackFails, Shutdown,
                Recorded, Leaves, Searches
  <2> QED  BY <2>1, Elsewhere DEF Cache, Equipped, machineVars, cacheVars
<1>4. CASE (\E p \in Procs : Bind(p) \/ Loads(p) \/ Dies(p)) \/ UNCHANGED vars
  <2>1. UNCHANGED <<machineVars, cacheVars, stage>>
    BY <1>4 DEF Bind, Loads, Dies, vars
  <2>2. /\ machine' = machine /\ works' = works /\ late' = late /\ files' = files
        /\ marker' = marker /\ build' = build /\ step' = step /\ rel' = rel
        /\ trouble' = trouble /\ stage' = stage /\ could' = could /\ cut' = cut
    BY <2>1 DEF machineVars, cacheVars
  <2>3. Chosen'
    BY <2>2, ChosenKept DEF Cache, Chosen
  <2>4. Halves'
    BY <2>2 DEF Cache, Halves, Whole, Needed, This, Trying, Tried
  <2>5. Search'
    <3>1. /\ Trying' = Trying /\ This' = This
          /\ \A s : (Hopeless(s)' <=> Hopeless(s)) /\ Needed(s)' = Needed(s)
          /\ \A s, r : HasAsset(s, r)' <=> HasAsset(s, r)
      BY <2>2 DEF Hopeless, Available, Prebuilt, Needed, HasAsset, Trying, This, Tried
    <3> QED  BY <2>2, <3>1 DEF Cache, Search
  <2> QED  BY <2>2, <2>3, <2>4, <2>5 DEF Cache, Equipped
<1>5. CASE Cached
  <2>1. /\ build' = marker /\ stage = "marker" /\ stage' = "probe" /\ Runs(marker)
        /\ UNCHANGED <<machineVars, files, marker, trouble, could, cut>>
    BY <1>5 DEF Cached, Goes
  <2>2. Chosen'
    <3>1. \A s : Available(s)' <=> Available(s)
      BY <2>1 DEF machineVars, Available, Prebuilt
    <3>2. marker' # None => NoSlower(marker, could)'
      BY <2>1, <3>1 DEF machineVars, Cache, Chosen, NoSlower
    <3>3. Whole(marker)
      BY <2>1 DEF Runs, Cache, Halves, TypeOK
    <3>4. Whole(build)'
      BY <2>1, <3>3 DEF machineVars, Whole, Needed
    <3> QED  BY <2>1, <3>2, <3>4 DEF Chosen, Searches
  <2>3. Halves'
    BY <2>1 DEF machineVars, Cache, Halves, Whole, Needed
  <2>4. Search'
    BY <2>1 DEF Search, Searches, Tries
  <2> QED  BY <2>1, <2>2, <2>3, <2>4 DEF machineVars, Cache, Equipped
<1>6. CASE SourceBegins \/ SourceBuilt
  <2>1. /\ Offered /\ stage \in {"step", "build"}
        /\ Trying = "cuda-build" /\ "bin" \in Needed(Trying)
        /\ step <= Len(Cascade(machine)) /\ UNCHANGED <<machineVars, trouble, cut>>
    BY <1>6 DEF SourceBegins, SourceBuilt, Take, Goes, Offered, Tried, Cache, Search, Needed
  <2>2. PICK b \in Builds : b = Source
    <3>1. 0 \in 0 .. Releases
      BY EngineAssumption DEF EngineAssumption
    <3> QED  BY <3>1 DEF Builds, Steps, Source
  <2>3. \A x \in Builds : x # b => files'[x] = files[x]
    BY <1>6, <2>2 DEF SourceBegins, SourceBuilt, TypeOK
  <2>4. CASE SourceBuilt
    <3>1. files'[b] = {"bin"}
      BY <2>2, <2>4 DEF SourceBuilt, TypeOK
    <3>2. Whole(b)'
      BY <2>2, <3>1 DEF Whole, Needed, Source
    <3>3. NoSlower(b, works \ trouble)
      <4>1. NoSlower(<<Trying, 0>>, works \ trouble)
        BY <2>1, TryingIsBest
      <4> QED  BY <2>1, <2>2, <4>1 DEF Source
    <3>4. Grows
      <4>1. ASSUME NEW x \in Builds
            PROVE  files[x] \subseteq files'[x] \/ Whole(x)'
        BY <2>3, <3>2
      <4> QED  BY <2>1, <4>1 DEF Grows
    <3> QED  BY <2>1, <2>2, <2>3, <2>4, <3>2, <3>3, <3>4, Taken DEF SourceBuilt
  <2>5. CASE SourceBegins
    <3>1. /\ files'[b] = {} /\ stage' = "build" /\ UNCHANGED <<marker, step, build, could>>
          /\ stage = "step"
      BY <2>2, <2>5 DEF SourceBegins, Goes, TypeOK
    <3>2. build = None
      BY <3>1 DEF Cache, Chosen, Searches
    <3>3. Chosen'
      BY <2>1, <3>1, <3>2, ChosenKept DEF Cache, machineVars
    <3>4. Halves'
      <4> SUFFICES ASSUME NEW x \in Builds, "bin" \in files'[x] PROVE Whole(x)'
        BY DEF Halves
      <4>1. files'[x] = files[x] /\ Whole(x)
        BY <2>3, <3>1 DEF Cache, Halves
      <4> QED  BY <2>1, <4>1 DEF machineVars, Whole, Needed
    <3>5. Search'
      <4>1. \A j \in 1 .. (step - 1) : Hopeless(Cascade(machine)[j])'
        BY <2>1, <3>1 DEF machineVars, Cache, Search, Searches, Hopeless, Available, Prebuilt
      <4>2. Trying' = Trying /\ step <= Len(Cascade(machine)) + 1
        BY <2>1, <3>1 DEF machineVars, Trying, Tried, Cache, Search, Searches
      <4> QED  BY <2>1, <3>1, <4>1, <4>2 DEF machineVars, Search, Searches, Tries
    <3> QED  BY <2>1, <3>3, <3>4, <3>5 DEF machineVars, Cache, Equipped
  <2> QED  BY <1>6, <2>4, <2>5
<1>7. CASE SourceFails \/ NoPrebuilt
  <2>1. /\ Offered /\ stage' = "step" /\ NextStep /\ step <= Len(Tried(machine))
        /\ UNCHANGED <<files, marker, build, could, cut, machineVars>> /\ trouble \subseteq trouble'
    BY <1>7 DEF SourceFails, NoPrebuilt, Goes, Offered
  <2>2. PICK s : s = Trying
    OBVIOUS
  <2>3. Hopeless(s)'
    BY <1>7, <2>1, <2>2 DEF SourceFails, NoPrebuilt, machineVars, Hopeless, Available, Prebuilt
  <2> QED  BY <2>1, <2>2, <2>3, StepUp DEF Grows
<1>8. CASE NotCached \/ Listed \/ NoAsset
  <2>1. /\ stage \in {"marker", "step", "try"} /\ stage' \in {"step", "try"}
        /\ UNCHANGED <<machineVars, files, marker, build, trouble, could, cut>>
    BY <1>8 DEF NotCached, Listed, NoAsset, Goes, cacheVars
  <2>2. Chosen'
    <3>1. build = None
      BY <2>1 DEF Cache, Chosen, Searches
    <3> QED  BY <2>1, <3>1, ChosenKept DEF Cache, machineVars
  <2>3. Halves'
    BY <2>1 DEF machineVars, Cache, Halves, Whole, Needed
  <2>4. Search'
    <3>1. CASE NotCached
      BY <2>1, <3>1
         DEF NotCached, cacheVars, machineVars, Goes, Cache, Search, Searches, Tries, CascadeOf
    <3>2. CASE Listed
      <4>1. /\ stage = "step" /\ stage' = "try" /\ step' = step /\ rel' = 1
            /\ step <= Len(Cascade(machine)) /\ Trying # "cuda-build"
        BY <3>2 DEF Listed, Goes, Tried
      <4>2. Trying' = Trying
        BY <2>1, <4>1 DEF machineVars, Trying, Tried
      <4>3. \A j \in 1 .. (step - 1) : Hopeless(Cascade(machine)[j])'
        BY <2>1, <4>1 DEF machineVars, Cache, Search, Searches, Hopeless, Available, Prebuilt
      <4>4. step <= Len(Cascade(machine)) + 1
        BY <4>1 DEF Cache, Search, Searches
      <4>5. 1 .. (rel' - 1) = {}
        BY <4>1
      <4> QED
        BY <2>1, <4>1, <4>2, <4>3, <4>4, <4>5 DEF machineVars, Search, Searches, Tries
    <3>3. CASE NoAsset
      <4>1. /\ step' = step /\ rel' = rel + 1 /\ stage = "try" /\ stage' = "try"
            /\ ~ HasAsset(Trying, rel)
        BY <3>3 DEF NoAsset, NextRelease, Goes
      <4>2. Trying' = Trying /\ \A r : HasAsset(Trying, r)' <=> HasAsset(Trying, r)
        BY <2>1, <4>1 DEF machineVars, Trying, Tried, HasAsset
      <4>3. rel \in Nat /\ rel >= 1
        BY <4>1 DEF TypeOK, Cache, Search, Tries, Searches
      <4>4. Trying \in works \ trouble => \A r \in 1 .. rel : ~ HasAsset(Trying, r)
        BY <4>1, <4>3 DEF Cache, Search, Tries, Searches
      <4>5. \A j \in 1 .. (step - 1) : Hopeless(Cascade(machine)[j])'
        BY <2>1, <4>1
           DEF machineVars, Cache, Search, Searches, Tries, Hopeless, Available, Prebuilt
      <4> QED
        BY <2>1, <4>1, <4>2, <4>3, <4>4, <4>5 DEF machineVars, Cache, Search, Searches, Tries
    <3> QED  BY <1>8, <3>1, <3>2, <3>3
  <2> QED  BY <2>1, <2>2, <2>3, <2>4 DEF machineVars, Cache, Equipped
<1>9. CASE NoRelease
  <2>1. /\ stage = "try" /\ stage' = "step" /\ NextStep /\ rel > Releases
        /\ UNCHANGED <<files, marker, build, could, cut, machineVars, trouble>>
    BY <1>9 DEF NoRelease, Goes
  <2>2. step <= Len(Tried(machine))
    BY <2>1 DEF Cache, Search, Searches, Tries, Tried
  <2>3. PICK s : s = Trying
    OBVIOUS
  <2>4. Hopeless(s)
    <3> SUFFICES ASSUME s \in works \ trouble, Available(s), Releases # 0 PROVE FALSE
      BY <2>1, <2>3 DEF Hopeless, Cache, Search, Searches, Tries
    <3>1. /\ rel \in Nat /\ Releases \in Nat \ {0}
          /\ s # "cuda-build" /\ \A r \in 1 .. (rel - 1) : ~ HasAsset(s, r)
      BY <2>1, <2>3, EngineAssumption DEF TypeOK, Cache, Search, Searches, Tries, EngineAssumption
    <3>2. \A r \in 1 .. Releases : r = 1 /\ s \in late
      BY <2>1, <3>1 DEF HasAsset
    <3>3. s \in late => Releases > 1
      BY <3>1 DEF Available
    <3> QED  BY <3>1, <3>2, <3>3
  <2>5. Hopeless(s)'
    BY <2>1, <2>4 DEF machineVars, Hopeless, Available, Prebuilt
  <2> QED  BY <2>1, <2>2, <2>3, <2>5, StepUp DEF Grows
<1>10. CASE Installed
  BY <1>10, InstallCache DEF Install
<1>11. CASE Fetched \/ LibsFetched \/ FetchFails \/ Verify
  BY <1>11, InstallCache DEF Install
<1> QED
  BY <1>1, <1>2, <1>3, <1>4, <1>5, <1>6, <1>7, <1>8, <1>9, <1>10, <1>11 DEF Next, Done

LEMMA CacheInit == Init => Cache
<1> SUFFICES ASSUME Init PROVE Cache
  OBVIOUS
<1>1. CascadeOf(Cascade(machine))
  BY CascadeShape DEF Init
<1>2. Equipped
  BY <1>1 DEF Init, Equipments, Tried, CascadeOf, Equipped
<1>3. Chosen
  BY DEF Init, Chosen
<1>4. Search
  BY DEF Init, Search, Searches, Tries
<1>5. Halves
  BY DEF Init, Halves
<1> QED  BY <1>1, <1>2, <1>3, <1>4, <1>5 DEF Cache

-----------------------------------------------------------------------------
(***************************************************************************)
(* The theorems.                                                           *)
(***************************************************************************)
LEMMA AlwaysEngine == Spec => []EngineInvariant
<1>1. Init => EngineInvariant
  BY TypeInit, CacheInit, ProcInit DEF EngineInvariant
<1>2. EngineInvariant /\ [Next]_vars => EngineInvariant'
  BY TypeStep, CacheStep, HouseholdStep, PortsStep DEF EngineInvariant
<1> QED  BY <1>1, <1>2, PTL DEF Spec

\* Every reachable state is well typed.
THEOREM TypeCorrect == Spec => []TypeOK
<1>1. EngineInvariant => TypeOK
  BY DEF EngineInvariant
<1> QED  BY <1>1, AlwaysEngine, PTL

\* A daemon has one engine at most, and leaves none behind but in the three
\* ways named.
THEOREM Accounted == Spec => []EnginesAccountedFor
<1>1. EngineInvariant => EnginesAccountedFor
  <2> SUFFICES ASSUME EngineInvariant PROVE EnginesAccountedFor
    OBVIOUS
  <2>1. /\ \A p, q \in Own : p = q
        /\ stage = "off" /\ Own # {} => ended \in {"killed", "loading", "unrecorded"}
    BY DEF EngineInvariant, Household
  <2>2. Cardinality(Own) <= 1
    <3>1. CASE Own = {}
      BY <3>1, FS_EmptySet
    <3>2. CASE Own # {}
      <4>1. PICK p \in Own : Own = {p}
        BY <2>1, <3>2
      <4>2. Cardinality({p}) = 1
        BY FS_Singleton
      <4> QED  BY <4>1, <4>2
    <3> QED  BY <3>1, <3>2
  <2> QED  BY <2>1, <2>2 DEF EnginesAccountedFor, Own
<1> QED  BY <1>1, AlwaysEngine, PTL

\* Who answers at a running node's endpoint is its own child, or raced it for
\* the port.
THEOREM Answered == Spec => []AnsweredByOwn
<1>1. EngineInvariant => AnsweredByOwn
  BY DEF EngineInvariant, Ports, AnsweredByOwn, Served, Bound, Alive
<1> QED  BY <1>1, AlwaysEngine, PTL

\* The build in use is the best of those that worked, and whose installation
\* met no failure, when its marker was written.
THEOREM Slower == Spec => []SlowerOnlyAfterTrouble
<1>1. EngineInvariant => SlowerOnlyAfterTrouble
  <2> SUFFICES ASSUME EngineInvariant, build # None PROVE SlowerOnlyAfterTrouble
    BY DEF SlowerOnlyAfterTrouble
  <2>1. NoSlower(build, could) /\ Whole(build)
    BY DEF EngineInvariant, Cache, Chosen
  <2> QED  BY <2>1 DEF SlowerOnlyAfterTrouble, NoSlower, Whole, Available
<1> QED  BY <1>1, AlwaysEngine, PTL
=============================================================================
