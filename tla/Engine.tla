------------------------------- MODULE Engine -------------------------------
(***************************************************************************)
(* The inference engine of a node: how ensure_llama_server finds, installs *)
(* and caches a build of llama-server that runs on this machine            *)
(* (runtime_installer.py), and the child processes the daemon starts,      *)
(* watches, exchanges and stops (backends/llamacpp.py, daemon.py).         *)
(*                                                                         *)
(* Releases are numbered, the newest is 1.  Processes are numbered as they *)
(* are started; port 1 is the node's fixed port, a daemon that finds it    *)
(* busy takes one nobody else has.                                         *)
(***************************************************************************)
EXTENDS Naturals, Sequences, FiniteSets

CONSTANTS
  Machines,  \* [system, arch, accel]: the machines and accelerators considered
  Releases,  \* how many releases GitHub lists
  None,      \* no build
  MaxLives,  \* bound: starts of the daemon
  MaxProcs,  \* bound: llama-server processes at any one time
  MaxFaults  \* bound: failed requests, writes, engines

Procs  == 1 .. MaxProcs
Steps  == {"cuda-build", "cuda", "vulkan", "metal", "cpu"}
Builds == Steps \X (0 .. Releases)

ASSUME EngineAssumption ==
  /\ None \notin Builds
  /\ {Releases, MaxLives, MaxProcs, MaxFaults} \subseteq Nat
  /\ \A m \in Machines : m.system \in {"Linux", "Darwin", "Windows"}

VARIABLES
  machine,   \* the machine and MESH_ACCEL or what detect_accel says
  works,     \* the steps whose builds find their drivers here, and for a source
             \* build its tools; others may be installed before the next start
  lenient,   \* --version succeeds without the CUDA runtime libraries
  late,      \* steps whose asset the newest release does not have yet
  files,     \* what each (step, release) directory holds: "bin", "libs"
  marker,    \* current-*.json: the build in use, or None
  stage,     \* what the daemon is doing
  step, rel, \* the step of the cascade and the release it tries
  build,     \* what ensure_llama_server returned, or None
  trouble,   \* history: steps one of whose installations failed in this search
  could,     \* history: the steps that worked, and had no trouble, when the
             \* marker was written
  cut,       \* history: steps whose second archive once failed or was cut
  proc,      \* state of each process
  at,        \* its port
  port,      \* the port of this daemon
  mine,      \* the processes this daemon started
  engine,    \* rt.engine, or 0
  fresh,     \* the process start() is waiting for, or 0
  racing,    \* history: processes of earlier daemons, not yet bound when the
             \* port was probed
  ended,     \* history: how the last daemon ended
  lives, faults

machineVars == <<machine, works, lenient, late>>
cacheVars   == <<files, marker, step, rel, build, trouble, could, cut>>
procVars    == <<proc, at>>
ownVars     == <<port, mine, engine, fresh, racing>>
vars == <<machineVars, cacheVars, stage, procVars, ownVars, ended, lives, faults>>

TypeOK ==
  /\ machine \in Machines /\ works \subseteq Steps /\ late \subseteq Steps
  /\ lenient \in BOOLEAN
  /\ files \in [Builds -> SUBSET {"bin", "libs"}]
  /\ marker \in Builds \cup {None} /\ build \in Builds \cup {None}
  /\ stage \in {"off", "marker", "step", "build", "try", "fetch", "libs",
                "verify", "probe", "start", "record", "run", "swap", "roll"}
  /\ step \in 1 .. 4 /\ rel \in 0 .. Releases + 1
  /\ trouble \subseteq Steps /\ could \subseteq Steps /\ cut \subseteq Steps
  /\ proc \in [Procs -> {"none", "starting", "loading", "serving", "gone"}]
  /\ at \in [Procs -> 0 .. MaxLives + 1] /\ port \in 0 .. MaxLives + 1
  /\ mine \subseteq Procs /\ racing \subseteq Procs
  /\ engine \in 0 .. MaxProcs /\ fresh \in 0 .. MaxProcs
  /\ ended \in {"never", "killed", "loading", "unrecorded", "stopped"}
  /\ lives \in 0 .. MaxLives /\ faults \in 0 .. MaxFaults

Fault == faults < MaxFaults /\ faults' = faults + 1

-----------------------------------------------------------------------------
(* Which build: _cascade and asset_suffix.                                 *)

Cascade(m) ==
  CASE m.system = "Darwin" -> <<"metal">>
    [] m.system # "Darwin" /\ m.accel = "cuda" ->
         IF m.system = "Windows" THEN <<"cuda", "vulkan", "cpu">> ELSE <<"vulkan", "cpu">>
    [] m.system # "Darwin" /\ m.accel = "cuda-build" ->
         IF m.system = "Linux" THEN <<"cuda-build", "vulkan", "cpu">> ELSE <<"cuda", "cpu">>
    [] m.system # "Darwin" /\ m.accel = "vulkan" -> <<"vulkan", "cpu">>
    [] OTHER -> <<"cpu">>

\* Fault: the plain build is tried first.
CpuFirst(m) ==
  LET c == Cascade(m) IN [i \in 1 .. Len(c) |-> c[Len(c) + 1 - i]]

\* Accelerators to try, best first.
Tried(m) == Cascade(m)

Prebuilt(s) ==
  s \in CASE machine.system = "Linux"   -> {"cpu", "vulkan"}
          [] machine.system = "Darwin"  -> {"metal", "cpu"}
          [] machine.system = "Windows" ->
               IF machine.arch = "x64" THEN {"cpu", "cuda", "vulkan"} ELSE {"cpu"}

HasAsset(s, r) == r # 1 \/ s \notin late

\* The CUDA build of Windows needs a second archive.
Needed(s) ==
  IF s = "cuda" /\ machine.system = "Windows" THEN {"bin", "libs"} ELSE {"bin"}

\* _find_binary and _verify_binary: does `--version' run?  TimesOut: not within
\* its 20 seconds.
Runs(b) ==
  /\ b # None /\ b[1] \in works /\ "bin" \in files[b]
  /\ Needed(b[1]) \subseteq files[b] \/ lenient

TimesOut(b) == Runs(b) /\ Fault

\* What may be installed on a machine; its plain build runs.
Equipments(m) ==
  {w \in SUBSET {Tried(m)[i] : i \in DOMAIN Tried(m)} : w \cap {"cpu", "metal"} # {}}

Init ==
  /\ machine \in Machines
  /\ works \in Equipments(machine)
  /\ lenient \in BOOLEAN
  /\ late \in {{}, {Tried(machine)[1]}}
  /\ files = [b \in Builds |-> {}]
  /\ marker = None /\ build = None /\ stage = "off"
  /\ step = 1 /\ rel = 1 /\ trouble = {} /\ could = {} /\ cut = {}
  /\ proc = [p \in Procs |-> "none"] /\ at = [p \in Procs |-> 0]
  /\ port = 0 /\ mine = {} /\ engine = 0 /\ fresh = 0 /\ racing = {}
  /\ ended = "never" /\ lives = 0 /\ faults = 0

-----------------------------------------------------------------------------
(* ensure_llama_server.                                                    *)

Trying == Tried(machine)[step]
This   == <<Trying, rel>>
Source == <<"cuda-build", 0>>

Goes(next) ==
  /\ stage' = next
  /\ UNCHANGED <<machineVars, procVars, ownVars, ended, lives>>

NextRelease == rel' = rel + 1 /\ step' = step
NextStep    == step' = step + 1 /\ rel' = 1

\* async_main begins; drivers and libraries may have come or gone.
Start ==
  /\ stage = "off" /\ lives < MaxLives
  /\ lives' = lives + 1
  /\ stage' = "marker"
  /\ works' \in Equipments(machine)
  /\ step' = 1 /\ rel' = 1 /\ build' = None /\ trouble' = {}
  /\ port' = 0 /\ mine' = {} /\ engine' = 0 /\ fresh' = 0 /\ racing' = {}
  /\ UNCHANGED <<machine, lenient, late, files, marker, could, cut, procVars, ended,
                 faults>>

Cached ==
  /\ stage = "marker"
  /\ Runs(marker)
  /\ build' = marker
  /\ Goes("probe")
  /\ UNCHANGED <<files, marker, step, rel, trouble, could, cut, faults>>

NotCached ==
  /\ stage = "marker"
  /\ \/ ~Runs(marker) /\ UNCHANGED faults
     \/ TimesOut(marker)
  /\ Goes("step")
  /\ UNCHANGED cacheVars

\* This build is the one, now and for the starts to come.
Take(b) ==
  /\ build' = b /\ marker' = b
  /\ could' = works \ trouble
  /\ Goes("probe")

\* _build_from_source: an earlier build is deleted; clone, configure, build,
\* verify.
SourceBegins ==
  /\ stage = "step" /\ step <= Len(Tried(machine)) /\ Trying = "cuda-build"
  /\ files' = [files EXCEPT ![Source] = {}]
  /\ Goes("build")
  /\ UNCHANGED <<marker, step, rel, build, trouble, could, cut, faults>>

SourceBuilt ==
  /\ stage = "build" /\ "cuda-build" \in works
  /\ files' = [files EXCEPT ![Source] = {"bin"}]
  /\ Take(Source)
  /\ UNCHANGED <<step, rel, trouble, cut, faults>>

\* A tool is missing, or one of its steps fails.
SourceFails ==
  /\ step <= Len(Tried(machine)) /\ Trying = "cuda-build"
  /\ \/ stage \in {"step", "build"} /\ "cuda-build" \notin works
        /\ UNCHANGED <<trouble, faults>>
     \/ stage = "build" /\ Fault /\ trouble' = trouble \cup {"cuda-build"}
  /\ NextStep
  /\ Goes("step")
  /\ UNCHANGED <<files, marker, build, could, cut>>

NoPrebuilt ==
  /\ stage = "step" /\ step <= Len(Tried(machine))
  /\ Trying # "cuda-build" /\ ~Prebuilt(Trying)
  /\ NextStep
  /\ Goes("step")
  /\ UNCHANGED <<files, marker, build, trouble, could, cut, faults>>

\* _latest_releases
Listed ==
  /\ stage = "step" /\ step <= Len(Tried(machine))
  /\ Trying # "cuda-build" /\ Prebuilt(Trying)
  /\ rel' = 1
  /\ Goes("try")
  /\ UNCHANGED <<files, marker, step, build, trouble, could, cut, faults>>

\* The next release, when this one has no asset; after the last one the next
\* step.
NoAsset ==
  /\ stage = "try" /\ rel <= Releases /\ ~HasAsset(Trying, rel)
  /\ NextRelease
  /\ Goes("try")
  /\ UNCHANGED <<files, marker, build, trouble, could, cut, faults>>

NoRelease ==
  /\ stage = "try" /\ rel > Releases
  /\ NextStep
  /\ Goes("step")
  /\ UNCHANGED <<files, marker, build, trouble, could, cut, faults>>

\* _install_prebuilt: a directory whose binary runs is taken as it is.
Installed ==
  /\ stage = "try" /\ rel <= Releases /\ HasAsset(Trying, rel)
  /\ \/ Runs(This) /\ Take(This) /\ UNCHANGED <<files, step, rel, trouble, cut, faults>>
     \/ ~Runs(This) /\ Goes("fetch") /\ UNCHANGED <<cacheVars, faults>>
     \/ TimesOut(This) /\ Goes("fetch") /\ UNCHANGED cacheVars

\* _download and _extract of the build, then of the libraries.
Fetched ==
  /\ stage = "fetch"
  /\ files' = [files EXCEPT ![This] = @ \cup {"bin"}]
  /\ Goes(IF "libs" \in Needed(Trying) THEN "libs" ELSE "verify")
  /\ UNCHANGED <<marker, step, rel, build, trouble, could, cut, faults>>

LibsFetched ==
  /\ stage = "libs"
  /\ files' = [files EXCEPT ![This] = @ \cup {"libs"}]
  /\ Goes("verify")
  /\ UNCHANGED <<marker, step, rel, build, trouble, could, cut, faults>>

\* The second archive is not there.
Cuts == IF stage = "libs" THEN cut \cup {Trying} ELSE cut

FetchFails ==
  /\ stage \in {"fetch", "libs"}
  /\ Fault
  /\ trouble' = trouble \cup {Trying} /\ cut' = Cuts
  /\ NextRelease
  /\ Goes("try")
  /\ UNCHANGED <<files, marker, build, could>>

Verify ==
  /\ stage = "verify"
  /\ \/ Runs(This) /\ Take(This) /\ UNCHANGED <<step, rel, trouble, faults>>
     \/ /\ \/ ~Runs(This) /\ UNCHANGED <<trouble, faults>>
           \/ TimesOut(This) /\ trouble' = trouble \cup {Trying}
        /\ NextRelease /\ Goes("try")
        /\ UNCHANGED <<marker, build, could>>
  /\ UNCHANGED <<files, cut>>

-----------------------------------------------------------------------------
(* The processes.                                                          *)

Alive     == {p \in Procs : proc[p] \in {"starting", "loading", "serving"}}
Bound(q)  == {p \in Procs : proc[p] \in {"loading", "serving"} /\ at[p] = q}
Served(q) == {p \in Bound(q) : proc[p] = "serving"}

\* A number for a new process: one nobody has or refers to any more.
Free   == {p \in Procs : proc[p] \in {"none", "gone"} /\ p \notin {engine, fresh}}
Unused == CHOOSE p \in Free : TRUE

\* LlamaCppBackend.start: a new child on this port, after `gone' has been
\* stopped.
Launch(q, gone) ==
  /\ Free # {}
  /\ proc' = [p \in Procs |-> IF p = Unused THEN "starting"
                              ELSE IF p = gone THEN "gone" ELSE proc[p]]
  /\ at' = [at EXCEPT ![Unused] = q]
  /\ mine' = mine \cup {Unused}
  /\ fresh' = Unused

\* Fault: the fixed port, whoever has it.
FixedPort == 1

FreePort == IF Bound(1) = {} THEN 1 ELSE lives + 1

\* async_main probes the fixed port before it starts the engine.
FirstLaunch ==
  /\ stage = "probe"
  /\ port' = FreePort
  /\ racing' = {p \in Procs : proc[p] = "starting" /\ at[p] = port'}
  /\ Launch(port', 0)
  /\ stage' = "start"
  /\ UNCHANGED <<machineVars, cacheVars, engine, ended, lives, faults>>

\* The child binds its port, or ends because somebody else has it; it loads
\* the model; it dies.
Bind(p) ==
  /\ proc[p] = "starting"
  /\ proc' = [proc EXCEPT ![p] = IF Bound(at[p]) = {} THEN "loading" ELSE "gone"]
  /\ UNCHANGED <<machineVars, cacheVars, stage, at, ownVars, ended, lives, faults>>

Loads(p) ==
  /\ proc[p] = "loading"
  /\ proc' = [proc EXCEPT ![p] = "serving"]
  /\ UNCHANGED <<machineVars, cacheVars, stage, at, ownVars, ended, lives, faults>>

Dies(p) ==
  /\ p \in Alive /\ Fault
  /\ proc' = [proc EXCEPT ![p] = "gone"]
  /\ UNCHANGED <<machineVars, cacheVars, stage, at, ownVars, ended, lives>>

\* start() returns: its child has not ended and the port answers.
Healthy ==
  /\ stage \in {"start", "swap", "roll"}
  /\ fresh \in Alive /\ Served(port) # {}
  /\ engine' = fresh /\ fresh' = 0
  /\ stage' = IF stage = "start" THEN "record" ELSE "run"
  /\ UNCHANGED <<machineVars, cacheVars, procVars, port, mine, racing, ended,
                 lives, faults>>

StopsChild == proc' = [proc EXCEPT ![fresh] = "gone"]

\* start() raises: the child ended early, or was stopped after the timeout.
Failing ==
  \/ proc[fresh] = "gone" /\ UNCHANGED <<proc, faults>>
  \/ fresh \in Alive /\ Served(port) = {} /\ Fault /\ StopsChild

\* The first engine fails: the daemon ends.
StartFails ==
  /\ stage = "start"
  /\ Failing
  /\ stage' = "off" /\ ended' = "stopped" /\ fresh' = 0
  /\ UNCHANGED <<machineVars, cacheVars, at, port, mine, engine, racing, lives>>

\* changeover: stop the old engine, start the new one on the same port.
Swap ==
  /\ stage = "run"
  /\ Launch(port, engine)
  /\ stage' = "swap"
  /\ racing' = racing \ {Unused}
  /\ UNCHANGED <<machineVars, cacheVars, port, engine, ended, lives, faults>>

\* It fails: start the old version again.
Rollback ==
  /\ stage = "swap"
  /\ \/ proc[fresh] = "gone" /\ UNCHANGED faults /\ Launch(port, 0)
     \/ fresh \in Alive /\ Served(port) = {} /\ Fault /\ Launch(port, fresh)
  /\ stage' = "roll"
  /\ racing' = racing \ {Unused}
  /\ UNCHANGED <<machineVars, cacheVars, port, engine, ended, lives>>

\* That fails too: the node goes on without an engine.
RollbackFails ==
  /\ stage = "roll"
  /\ Failing
  /\ stage' = "run" /\ fresh' = 0
  /\ UNCHANGED <<machineVars, cacheVars, at, port, mine, engine, racing, ended, lives>>

\* state.json is written and the signal handlers are installed.
Recorded ==
  /\ stage = "record"
  /\ stage' = "run"
  /\ UNCHANGED <<machineVars, cacheVars, procVars, ownVars, ended, lives, faults>>

\* async_main is left: an error of the installation or of state.json, or
\* Ctrl-C before there is a handler, with no `finally' around it.
Leaves ==
  /\ \/ stage = "step" /\ step > Len(Tried(machine)) /\ UNCHANGED faults
     \/ stage \in {"step", "record"} /\ Fault
     \/ stage \in {"start", "record"} /\ UNCHANGED faults
  /\ stage' = "off"
  /\ ended' = IF stage = "start" THEN "loading"
              ELSE IF stage = "record" THEN "unrecorded" ELSE "stopped"
  /\ UNCHANGED <<machineVars, cacheVars, procVars, ownVars, lives>>

\* Fault: the engine is left to the operating system.
StopsLoops == UNCHANGED proc

StopsEngine ==
  proc' = [p \in Procs |-> IF p = engine /\ p \in Alive THEN "gone" ELSE proc[p]]

Cleanup == StopsEngine

\* A signal, or a refused capability: the update loop is cancelled wherever it
\* is, then rt.engine is stopped.
Shutdown ==
  /\ stage \in {"run", "swap", "roll"}
  /\ Cleanup
  /\ stage' = "off"
  /\ ended' = IF stage = "run" THEN "stopped" ELSE "loading"
  /\ UNCHANGED <<machineVars, cacheVars, at, ownVars, lives, faults>>

\* The daemon dies; a download is cut, the children live on.
Kill ==
  /\ stage # "off" /\ Fault
  /\ stage' = "off" /\ ended' = "killed"
  /\ cut' = Cuts
  /\ UNCHANGED <<machineVars, files, marker, step, rel, build, trouble, could, procVars,
                 ownVars, lives>>

\* Nothing is left to start.
Done == stage = "off" /\ lives = MaxLives /\ UNCHANGED vars

Next ==
  \/ Start \/ Cached \/ NotCached
  \/ SourceBegins \/ SourceBuilt \/ SourceFails \/ NoPrebuilt \/ Listed
  \/ NoAsset \/ NoRelease \/ Installed
  \/ Fetched \/ LibsFetched \/ FetchFails \/ Verify
  \/ FirstLaunch \/ Healthy \/ StartFails \/ Recorded \/ Leaves
  \/ Swap \/ Rollback \/ RollbackFails \/ Shutdown \/ Kill \/ Done
  \/ \E p \in Procs : Bind(p) \/ Loads(p) \/ Dies(p)

Spec == Init /\ [][Next]_vars

-----------------------------------------------------------------------------
\* A daemon never has two engines in memory at once, whatever fails in a
\* changeover and its rollback.  When it has ended, none of its engines is left
\* unless it was killed, left async_main between the launch of its first engine
\* and its `finally', or was told to stop while a changeover waited for one.
EnginesAccountedFor ==
  /\ Cardinality(Alive \cap mine) <= 1
  /\ (stage = "off" /\ Alive \cap mine # {})
       => ended \in {"killed", "loading", "unrecorded"}

\* The model server that answers at a running node's endpoint is its own child,
\* although start() takes any answer for its child's and engines of earlier
\* daemons live on; except one of those that had not yet bound the port when
\* the new daemon found it free.
AnsweredByOwn ==
  stage \in {"record", "run"} => Served(port) \subseteq mine \cup racing

\* The build a node runs is the best of those that worked when its marker was
\* written and whose installation met no failure in that search, over cut
\* downloads, killed daemons and drivers that come and go; a build without its
\* runtime libraries runs only where their download was once cut.  A step that
\* works by now is no reason for a new search: what the marker holds is what
\* every later start finds.
SlowerOnlyAfterTrouble ==
  build # None =>
    /\ \A s \in could :
         (Prebuilt(s) /\ (s \in late => Releases > 1)) \/ s = "cuda-build"
         => \E i, j \in DOMAIN Cascade(machine) :
              Cascade(machine)[i] = build[1] /\ Cascade(machine)[j] = s /\ i <= j
    /\ ~(Needed(build[1]) \subseteq files[build]) => build[1] \in cut
=============================================================================
