-------------------------- MODULE ChangeoverProofs --------------------------
(***************************************************************************)
(* Proofs about Changeover, for any manifests, file names, storage limit   *)
(* and number of faults.                                                   *)
(*                                                                         *)
(* What state.json records and what the engine runs on are each complete   *)
(* on disk, but neither fact is inductive alone: between the swap and the  *)
(* deletion the node relies on the files of the target being all there,    *)
(* and on the superseded files being none of them.  Progress says so,      *)
(* phase by phase.                                                         *)
(***************************************************************************)
EXTENDS Changeover, TLAPS

Progress ==
  /\ pc \in {"boot", "launch", "clean", "fetch", "start", "rollback", "delete"}
       => target \in Manifests
  /\ pc \in {"launch", "clean", "start", "rollback", "delete"} => FilesOf(target) \subseteq disk
  /\ pc \in {"down", "boot"} => engine = None
  /\ pc \in {"down", "boot", "launch", "clean"} <=> running = None
  /\ pc \in {"fetch", "start", "delete"} => Version[target] >= Version[running]
  /\ pc \in {"launch", "clean"} => engine = target
  /\ pc \in {"clean", "delete"} => record = target
  /\ pc = "delete" => engine = target /\ stale \cap FilesOf(target) = {}

CInv == TypeOK /\ Progress /\ RecordedFilesOnDisk /\ EngineFilesOnDisk

\* Files of a manifest are model files; those of no manifest are none.
LEMMA FilesOfType ==
  ASSUME NEW m \in Manifests \cup {None}
  PROVE  FilesOf(m) \subseteq AllFiles /\ FilesOf(None) = {}
  BY DEF FilesOf, AllFiles

LEMMA InitCInv == Init => CInv
<1> SUFFICES ASSUME Init PROVE CInv
  OBVIOUS
<1>1. TypeOK
  <2>1. pc \in Phase /\ faults \in 0 .. MaxFaults
    BY ChangeoverAssumption DEF Init, Phase
  <2>2. up \in BOOLEAN /\ following \in BOOLEAN /\ failed \in BOOLEAN
    BY Zenon DEF Init
  <2> QED  BY <2>1, <2>2 DEF Init, TypeOK
<1>2. Progress /\ RecordedFilesOnDisk /\ EngineFilesOnDisk
  BY DEF Init, Progress, RecordedFilesOnDisk, EngineFilesOnDisk, FilesOf
<1> QED  BY <1>1, <1>2 DEF CInv

\* Steps that touch neither the disk nor state.json nor what the node runs.
LEMMA QuietSteps ==
  ASSUME CInv,
         \/ \E m \in Manifests : Publish(m) \/ Start(m)
         \/ \E reached \in BOOLEAN : Register(reached)
         \/ Poll \/ Swap \/ OldStarts \/ FetchFails \/ NewFails \/ OldFails
         \/ UNCHANGED vars
  PROVE  CInv'
<1> USE ChangeoverAssumption DEF CInv, TypeOK, Progress, RecordedFilesOnDisk, EngineFilesOnDisk,
        Phase, Fault, catalogVars, diskVars, engineVars, FilesOf, AllFiles
<1>1. CASE \E m \in Manifests : Publish(m)
  BY <1>1 DEF Publish
<1>2. CASE \E m \in Manifests : Start(m)
  BY <1>2 DEF Start
<1>3. CASE \E reached \in BOOLEAN : Register(reached)
  BY <1>3 DEF Register
<1>4. CASE Poll
  BY <1>4 DEF Poll
<1>5. CASE Swap
  BY <1>5 DEF Swap, Missing
<1>6. CASE OldStarts
  BY <1>6 DEF OldStarts
<1>7. CASE FetchFails
  BY <1>7 DEF FetchFails
<1>8. CASE NewFails
  BY <1>8 DEF NewFails
<1>9. CASE OldFails
  BY <1>9 DEF OldFails
<1>10. CASE UNCHANGED vars
  BY <1>10 DEF vars
<1> QED  BY <1>1, <1>2, <1>3, <1>4, <1>5, <1>6, <1>7, <1>8, <1>9, <1>10

\* Steps that change the disk, state.json or what the node runs.
LEMMA InstallSteps ==
  ASSUME CInv,
         \/ \E f \in AllFiles : Fetch(f)
         \/ Launch \/ Launched \/ Clean \/ NewStarts \/ Delete \/ SaveFails \/ Crash
  PROVE  CInv'
<1> USE ChangeoverAssumption DEF CInv, TypeOK, Progress, RecordedFilesOnDisk, EngineFilesOnDisk,
        Phase, Fault, catalogVars, diskVars, engineVars, FilesOf, AllFiles
<1>1. CASE \E f \in AllFiles : Fetch(f)
  BY <1>1 DEF Fetch
<1>2. CASE Launch
  BY <1>2 DEF Launch, Missing
<1>3. CASE Launched
  BY <1>3 DEF Launched
<1>4. CASE Clean
  <2>1. PICK left \in SUBSET (disk \ FilesOf(record)) : Unlink(disk \ FilesOf(record), left)
    BY <1>4 DEF Clean
  <2> QED  BY <1>4, <2>1 DEF Clean, Unlink
<1>5. CASE NewStarts
  BY <1>5 DEF NewStarts
<1>6. CASE Delete
  <2>1. PICK left \in SUBSET (disk \cap stale) : Unlink(stale, left)
    BY <1>6 DEF Delete
  <2> QED  BY <1>6, <2>1 DEF Delete, Unlink
<1>7. CASE SaveFails
  BY <1>7 DEF SaveFails
<1>8. CASE Crash
  <2>1. up' \in BOOLEAN /\ following' \in BOOLEAN /\ failed' \in BOOLEAN
    BY <1>8, Zenon DEF Crash, Down
  <2> QED  BY <1>8, <2>1 DEF Crash, Down
<1> QED  BY <1>1, <1>2, <1>3, <1>4, <1>5, <1>6, <1>7, <1>8

LEMMA NextCInv ==
  ASSUME CInv, [Next]_vars
  PROVE  CInv'
  BY QuietSteps, InstallSteps DEF Next, NodeStep

\* The node's variables keep their types (Init, every step of async_main,
\* _update_loop and changeover).
THEOREM NodeTypes == Spec => []TypeOK
<1>1. CInv /\ [Next]_vars => CInv'
  BY NextCInv
<1>2. CInv => TypeOK
  BY DEF CInv
<1> QED  BY InitCInv, <1>1, <1>2, PTL DEF Spec

\* Wherever a crash falls, state.json never names a file that is not on disk
\* (save_state before delete_files, and after ensure_model).
THEOREM RecordedStays == Spec => []RecordedFilesOnDisk
<1>1. CInv /\ [Next]_vars => CInv'
  BY NextCInv
<1>2. CInv => RecordedFilesOnDisk
  BY DEF CInv
<1> QED  BY InitCInv, <1>1, <1>2, PTL DEF Spec

\* No deletion ever hits the files of the engine, running or to be rolled back
\* to (record_channel's superseded files, sweep_orphans).
THEOREM EngineKeepsFiles == Spec => []EngineFilesOnDisk
<1>1. CInv /\ [Next]_vars => CInv'
  BY NextCInv
<1>2. CInv => EngineFilesOnDisk
  BY DEF CInv
<1> QED  BY InitCInv, <1>1, <1>2, PTL DEF Spec

\* A running node never goes to a lower version (the version check of
\* _update_loop, and the roll-back of changeover).
THEOREM NoDowngrade == Spec => DowngradeOnlyByRestart
<1> DEFINE A == running # None /\ running' # None => Version[running'] >= Version[running]
<1>1. CInv /\ [Next]_vars => CInv'
  BY NextCInv
<1>2. CInv /\ [Next]_vars => [A]_vars
  <2> SUFFICES ASSUME CInv, Next PROVE A
    OBVIOUS
  <2> USE ChangeoverAssumption DEF CInv, TypeOK, Progress, engineVars
  <2>1. CASE running' = running
    BY <2>1
  <2>2. CASE Clean
    BY <2>2 DEF Clean
  <2>3. CASE Delete
    BY <2>3 DEF Delete
  <2>4. CASE Crash
    BY <2>4 DEF Crash, Down
  <2>5. running' = running \/ Clean \/ Delete \/ Crash
    BY DEF Next, NodeStep, Publish, Start, Fetch, Launch, Launched, Register, Poll, Swap,
           NewStarts, OldStarts, FetchFails, NewFails, SaveFails, OldFails
  <2> QED  BY <2>1, <2>2, <2>3, <2>4, <2>5
<1> QED  BY InitCInv, <1>1, <1>2, PTL DEF Spec, DowngradeOnlyByRestart

-----------------------------------------------------------------------------
(***************************************************************************)
(* What is on the disk.                                                    *)
(*                                                                         *)
(* That nothing is left behind in "serve" needs to know what a changeover  *)
(* may have added so far: only files of its target, and after the swap     *)
(* nothing that is neither recorded nor about to be deleted, files the     *)
(* system keeps aside.                                                     *)
(***************************************************************************)
Tidy ==
  ~failed =>
    /\ pc \in {"register", "serve"} => disk \ stuck \subseteq FilesOf(record)
    /\ pc \in {"fetch", "start"} => disk \ stuck \subseteq FilesOf(record) \cup FilesOf(target)
    /\ pc = "delete" => disk \ stuck \subseteq FilesOf(record) \cup stale
    /\ pc # "rollback"

LEMMA StepTidy ==
  ASSUME CInv, Tidy, [Next]_vars
  PROVE  Tidy'
<1> USE DEF Tidy, catalogVars, diskVars, engineVars
<1>1. CASE \E m \in Manifests : Publish(m) \/ Start(m)
  BY <1>1 DEF Publish, Start
<1>2. CASE \E f \in AllFiles : Fetch(f)
  BY <1>2 DEF Fetch, Missing
<1>3. CASE Launch \/ Launched
  BY <1>3 DEF Launch, Launched
<1>4. CASE Clean
  BY <1>4 DEF Clean, Unlink
<1>5. CASE \E reached \in BOOLEAN : Register(reached)
  BY <1>5 DEF Register
<1>6. CASE Poll \/ Swap
  BY <1>6 DEF Poll, Swap
<1>7. CASE NewStarts
  BY <1>7 DEF NewStarts
<1>8. CASE Delete
  <2>1. PICK left \in SUBSET (disk \cap stale) : Unlink(stale, left)
    BY <1>8 DEF Delete
  <2> QED  BY <1>8, <2>1 DEF Delete, Unlink
<1>9. CASE OldStarts \/ OldFails
  BY <1>9 DEF OldStarts, OldFails
<1>10. CASE Crash
  BY <1>10 DEF Crash, Down
<1>11. CASE FetchFails \/ NewFails \/ SaveFails
  BY <1>11 DEF FetchFails, NewFails, SaveFails
<1>12. CASE UNCHANGED vars
  BY <1>12 DEF vars
<1> QED  BY <1>1, <1>2, <1>3, <1>4, <1>5, <1>6, <1>7, <1>8, <1>9, <1>10, <1>11, <1>12
         DEF Next, NodeStep

\* A node that serves, and has had no changeover fail, holds no file it did not
\* record but those the system refused to delete since it started.
THEOREM NothingLeft == Spec => []NoJunkLeftBehind
<1>1. Init => Tidy
  BY DEF Init, Tidy
<1>2. CInv /\ [Next]_vars => CInv'
  BY NextCInv
<1>3. CInv /\ Tidy /\ [Next]_vars => Tidy'
  BY StepTidy
<1>4. Tidy => NoJunkLeftBehind
  BY DEF Tidy, NoJunkLeftBehind
<1> QED  BY InitCInv, <1>1, <1>2, <1>3, <1>4, PTL DEF Spec
=============================================================================
