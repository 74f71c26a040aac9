----------------------------- MODULE Changeover -----------------------------
(***************************************************************************)
(* One node following one model channel: the versions the control plane    *)
(* publishes, the files in the node's cache, state.json, the engine        *)
(* process and the changeover between versions (async_main, _update_loop   *)
(* and changeover of daemon.py over runtime_installer.py, and              *)
(* scan_manifests of the control plane).                                   *)
(*                                                                         *)
(* A step is what the node does between two awaits, cut further where a    *)
(* crash would leave a trace on disk: after state.json is replaced and     *)
(* before superseded files are deleted.  Files live in a directory per     *)
(* manifest hash, so files of different manifests never collide; a file is *)
(* on disk or not (its download is the subject of ensure_model's callees). *)
(***************************************************************************)
EXTENDS Naturals, FiniteSets

CONSTANTS
  Manifests,   \* manifests of the channel, by hash
  Version,     \* the version number of each
  Names,       \* file names of a quantization; every file counts as one unit
  Local,       \* the manifest in the node's own checkout of the repository
  None,        \* no manifest
  MaxStorage,  \* --max-storage, in files
  MaxFaults    \* bound: crashes, downloads, engine starts, writes and deletions that fail

ASSUME ChangeoverAssumption ==
  /\ Version \in [Manifests -> Nat]
  /\ Local \in Manifests
  /\ None \notin Manifests
  /\ MaxStorage \in Nat /\ MaxFaults \in Nat

ASSUME NamesAssumption == IsFiniteSet(Names)

VARIABLES
  catalog,    \* the manifest the control plane publishes      (on its disk)
  disk,       \* model files in the cache                      (on disk)
  record,     \* the channel's manifest in state.json          (on disk)
  pc,         \* where the node is
  target,     \* the manifest being installed
  running,    \* rt.manifest_hash: what the node takes itself to run
  engine,     \* rt.engine: the manifest whose files it was built on
  up,         \* the engine process answers
  following,  \* the node registered, so it sends heartbeats and polls
  stale,      \* files record_channel found superseded, not yet deleted
  stuck,      \* history: files that could not be deleted since the node started
  faults,     \* faults so far
  failed      \* history: a changeover failed since the node started

catalogVars == <<catalog>>
diskVars == <<disk, record>>
engineVars == <<running, engine, up>>
vars == <<catalog, disk, record, pc, target, running, engine, up, following, stale,
          stuck, faults, failed>>

\* "down"; starting up: "boot" (ensure_model), "launch" (engine.start), "clean"
\* (state.json saved, leftovers not deleted), "register"; "serve"; changing
\* over: "fetch" (ensure_model), "start" (new engine), "rollback" (old engine
\* again), "delete" (state.json saved, old files not deleted).
Phase == {"down", "boot", "launch", "clean", "register", "serve",
          "fetch", "start", "rollback", "delete"}

FilesOf(m) == IF m = None THEN {} ELSE {m} \X Names

AllFiles == Manifests \X Names

TypeOK ==
  /\ catalog \in Manifests
  /\ disk \subseteq AllFiles
  /\ record \in Manifests \cup {None}
  /\ pc \in Phase
  /\ target \in Manifests \cup {None}
  /\ running \in Manifests \cup {None}
  /\ engine \in Manifests \cup {None}
  /\ up \in BOOLEAN
  /\ following \in BOOLEAN
  /\ {stale, stuck} \subseteq SUBSET AllFiles
  /\ faults \in 0 .. MaxFaults
  /\ failed \in BOOLEAN

Init ==
  /\ catalog \in Manifests
  /\ disk = {}
  /\ record = None
  /\ pc = "down"
  /\ target = None
  /\ running = None
  /\ engine = None
  /\ up = FALSE
  /\ following = FALSE
  /\ stale = {}
  /\ stuck = {}
  /\ faults = 0
  /\ failed = FALSE

Fault == faults < MaxFaults /\ faults' = faults + 1

(***************************************************************************)
(* The control plane.                                                      *)
(***************************************************************************)
\* scan_manifests: a changed manifest file is published unless its version is
\* lower than the published one.
Publish(m) ==
  /\ m # catalog
  /\ Version[m] >= Version[catalog]
  /\ catalog' = m
  /\ UNCHANGED <<diskVars, pc, target, engineVars, following, stale, stuck, faults, failed>>

(***************************************************************************)
(* Starting up (async_main).                                               *)
(***************************************************************************)
Missing(m) == FilesOf(m) \ disk

\* check_storage, over installed_bytes: what state.json records, whatever else
\* is on the disk.
Fits(m) ==
  Missing(m) # {} => Cardinality(FilesOf(record)) + Cardinality(Missing(m)) <= MaxStorage

\* resolve_model: the control plane's manifest, or the checkout's when the
\* control plane is out of reach.  Neither is compared with state.json.
Start(m) ==
  /\ pc = "down"
  /\ m \in {catalog, Local}
  /\ Fits(m)
  /\ pc' = "boot"
  /\ target' = m
  /\ UNCHANGED <<catalog, diskVars, engineVars, following, stale, stuck, faults, failed>>

\* ensure_model makes one more file of the target present.
Fetch(f) ==
  /\ pc \in {"boot", "fetch"}
  /\ f \in Missing(target)
  /\ disk' = disk \cup {f}
  /\ UNCHANGED <<catalog, record, pc, target, engineVars, following, stale, stuck, faults, failed>>

Launch ==
  /\ pc = "boot"
  /\ Missing(target) = {}
  /\ pc' = "launch"
  /\ engine' = target
  /\ UNCHANGED <<catalog, diskVars, target, running, up, following, stale, stuck, faults, failed>>

\* The first engine is up; record_channel, save_state.
Launched ==
  /\ pc = "launch"
  /\ pc' = "clean"
  /\ up' = TRUE
  /\ record' = target
  /\ UNCHANGED <<catalog, disk, target, running, engine, following, stale, stuck, faults, failed>>

\* Each file of `files' goes, or an OSError leaves it where it is; the caller
\* does not look which.
Unlink(files, left) ==
  /\ disk' = (disk \ files) \cup left
  /\ stuck' = (stuck \ files) \cup left
  /\ IF left = {} THEN UNCHANGED faults ELSE Fault

\* Fault: startup deletes nothing.
CleanNothing ==
  /\ pc = "clean"
  /\ pc' = "register"
  /\ running' = target
  /\ UNCHANGED <<catalog, diskVars, target, engine, up, following, stale, stuck, faults, failed>>

\* delete_files and sweep_orphans: what state.json does not own goes.
Clean ==
  /\ pc = "clean"
  /\ pc' = "register"
  /\ LET orphans == disk \ FilesOf(record)
     IN  \E left \in SUBSET orphans : Unlink(orphans, left)
  /\ running' = target
  /\ UNCHANGED <<catalog, record, target, engine, up, following, stale, failed>>

\* _try_register: without a control plane the node goes solo, for good.
Register(reached) ==
  /\ pc = "register"
  /\ pc' = "serve"
  /\ following' = reached
  /\ UNCHANGED <<catalog, diskVars, target, engineVars, stale, stuck,
                 faults, failed>>

(***************************************************************************)
(* Following the channel (_update_loop, changeover).                       *)
(***************************************************************************)
\* Fault: any other manifest is taken for an update.
PollAnyVersion ==
  /\ pc = "serve" /\ following
  /\ catalog # running
  /\ Fits(catalog)
  /\ pc' = "fetch"
  /\ target' = catalog
  /\ UNCHANGED <<catalog, diskVars, engineVars, following, stale, stuck, faults, failed>>

\* A poll that finds a manifest to move to, and room for it.
Poll ==
  /\ pc = "serve" /\ following
  /\ catalog # running
  /\ Version[catalog] >= Version[running]
  /\ Fits(catalog)
  /\ pc' = "fetch"
  /\ target' = catalog
  /\ UNCHANGED <<catalog, diskVars, engineVars, following, stale, stuck, faults, failed>>

\* Every file is there: the old engine stops.
Swap ==
  /\ pc = "fetch"
  /\ Missing(target) = {}
  /\ pc' = "start"
  /\ up' = FALSE
  /\ UNCHANGED <<catalog, diskVars, target, running, engine, following, stale, stuck,
                 faults, failed>>

\* Fault: the files the engine ran on are deleted, not those recorded before.
NewStartsByEngine ==
  /\ pc = "start"
  /\ pc' = "delete"
  /\ up' = TRUE
  /\ engine' = target
  /\ record' = target
  /\ stale' = FilesOf(engine)
  /\ UNCHANGED <<catalog, disk, target, running, following, stuck, faults, failed>>

\* The new engine is up; record_channel, save_state.
NewStarts ==
  /\ pc = "start"
  /\ pc' = "delete"
  /\ up' = TRUE
  /\ engine' = target
  /\ record' = target
  /\ stale' = FilesOf(record) \ FilesOf(target)
  /\ UNCHANGED <<catalog, disk, target, running, following, stuck, faults, failed>>

\* Fault: rt is left as it was.
DeleteKeepsRunning ==
  /\ pc = "delete"
  /\ pc' = "serve"
  /\ \E left \in SUBSET (disk \cap stale) : Unlink(stale, left)
  /\ stale' = {}
  /\ UNCHANGED <<catalog, record, target, running, engine, up, following, failed>>

\* delete_files, which goes on after a file it cannot delete; the node takes
\* itself to run the target.
Delete ==
  /\ pc = "delete"
  /\ pc' = "serve"
  /\ \E left \in SUBSET (disk \cap stale) : Unlink(stale, left)
  /\ stale' = {}
  /\ running' = target
  /\ UNCHANGED <<catalog, record, target, engine, up, following, failed>>

\* The old engine is up again after the new one failed.
OldStarts ==
  /\ pc = "rollback"
  /\ pc' = "serve"
  /\ up' = TRUE
  /\ UNCHANGED <<catalog, diskVars, target, running, engine, following, stale, stuck,
                 faults, failed>>

(***************************************************************************)
(* Failures.                                                               *)
(***************************************************************************)
Down ==
  /\ pc' = "down"
  /\ target' = None
  /\ running' = None
  /\ engine' = None
  /\ up' = FALSE
  /\ following' = FALSE
  /\ stale' = {}
  /\ stuck' = {}
  /\ failed' = FALSE

\* The process dies, or startup raises: a download, a start, a write failed.
Crash ==
  /\ pc # "down"
  /\ Fault
  /\ Down
  /\ UNCHANGED <<catalog, diskVars>>

\* The update cannot be downloaded; the old engine has been serving all along.
FetchFails ==
  /\ pc = "fetch"
  /\ Fault
  /\ pc' = "serve"
  /\ failed' = TRUE
  /\ UNCHANGED <<catalog, diskVars, target, engineVars, following, stale, stuck>>

NewFails ==
  /\ pc = "start"
  /\ Fault
  /\ pc' = "rollback"
  /\ failed' = TRUE
  /\ UNCHANGED <<catalog, diskVars, target, engineVars, following, stale, stuck>>

\* state.json cannot be written although the new engine is up: changeover
\* raises with rt.engine changed and rt.manifest_hash not.
SaveFails ==
  /\ pc = "start"
  /\ Fault
  /\ pc' = "serve"
  /\ up' = TRUE
  /\ engine' = target
  /\ failed' = TRUE
  /\ UNCHANGED <<catalog, diskVars, target, running, following, stale, stuck>>

\* The old engine does not start either; rt.engine is the stopped engine, and
\* the heartbeats go on.
OldFails ==
  /\ pc = "rollback"
  /\ Fault
  /\ pc' = "serve"
  /\ UNCHANGED <<catalog, diskVars, target, engineVars, following, stale, stuck, failed>>

NodeStep ==
  \/ \E f \in AllFiles : Fetch(f)
  \/ Launch
  \/ Launched
  \/ Clean
  \/ \E reached \in BOOLEAN : Register(reached)
  \/ Poll
  \/ Swap
  \/ NewStarts
  \/ Delete
  \/ OldStarts

Next ==
  \/ \E m \in Manifests : Publish(m)
  \/ \E m \in Manifests : Start(m)
  \/ NodeStep
  \/ Crash
  \/ FetchFails
  \/ NewFails
  \/ SaveFails
  \/ OldFails

\* What a running node awaits ends, and it polls for ever.
Fairness == WF_vars(NodeStep)

Spec == Init /\ [][Next]_vars /\ Fairness

-----------------------------------------------------------------------------
(***************************************************************************)
(* Properties.                                                             *)
(***************************************************************************)

\* state.json never records a version whose files are not all on disk, however
\* a crash falls among download, swap, save and delete: the node can always
\* seed what it says it holds and start again on it.
RecordedFilesOnDisk == FilesOf(record) \subseteq disk

\* The files of the engine in use, or of the one to roll back to, are never
\* deleted under it.
EngineFilesOnDisk ==
  pc \notin {"down", "boot"} => FilesOf(engine) \subseteq disk

\* A node that serves, and has had no changeover fail since it started, holds
\* no file besides those of its version, but for files the system refused to
\* delete since then: each start tries those again that are left from before.
NoJunkLeftBehind ==
  pc = "serve" /\ ~failed => disk \ stuck \subseteq FilesOf(record)

\* A node goes to a lower version only by being started again; as long as it
\* runs, neither the catalog nor a failed changeover takes it back.
DowngradeOnlyByRestart ==
  [][running # None /\ running' # None => Version[running'] >= Version[running]]_vars

\* Whatever fails on the way, once the catalog stays, a node that follows the
\* channel ends up serving what the catalog publishes, or something newer.  The
\* exception is a catalog that came back to a manifest it had replaced by
\* another of the same version number: a node that takes itself to run it does
\* not see that its engine is gone, or is the other's.
FollowsCatalog ==
  \A m \in Manifests :
    <>[](catalog = m) =>
      <>[](following =>
             \/ up /\ engine = running /\ Version[engine] >= Version[m]
             \/ running = m /\ \E other \in Manifests \ {m} : Version[other] = Version[m])
=============================================================================
