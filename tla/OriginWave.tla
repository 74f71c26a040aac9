----------------------------- MODULE OriginWave -----------------------------
(***************************************************************************)
(* An update wave: every node of a channel fetches the files of its new    *)
(* version, from a peer that has it or from the origin, and the tracker    *)
(* tells them who goes to the origin (PeerSwarm.fetch and its callers      *)
(* ensure_model, changeover and async_main, over Rendezvous).              *)
(*                                                                         *)
(* A node is the sequence of awaits of fetch().  The answer of the tracker *)
(* is kept in resp across the dialling of seeders, as the code keeps it,   *)
(* and is used afterwards however stale it is.                             *)
(***************************************************************************)
EXTENDS Rendezvous, FiniteSets

CONSTANTS
  New,          \* manifest hash of the new version
  Files,        \* its files
  MaxFaults     \* bound: restarts of the control plane, crashes of nodes, calls
                \* to the tracker that fail, dials that fail although the seeder
                \* is up, downloads that fail, engines that do not start

ASSUME OriginWaveAssumption ==
  /\ New \in Hashes
  /\ Files # {}
  /\ None \notin Nodes
  /\ MaxFaults \in Nat

VARIABLES
  pc,        \* where each node is in its update
  booting,   \* nodes that have not brought an engine up since they started
  have,      \* files of the new version on each node's disk, verified
  recorded,  \* nodes whose state.json holds the channel at the new version
  resp,      \* the tracker's last answer to each node
  expired,   \* nodes whose fetch has passed its deadline
  paid,      \* history: nodes that ever downloaded from the origin
  excused,   \* history: those that did so without being named leader
  restarts,  \* restarts of the control plane so far
  faults     \* faults so far, restarts included

nodeVars == <<pc, booting, have, recorded, resp, expired, paid, excused>>
vars == <<peers, clock, pc, booting, have, recorded, resp, expired, paid, excused,
          restarts, faults>>

\* "poll": running the old version; "ask": in fetch(), before announce;
\* "dial": in fetch(), with the answer; "origin": downloading;
\* "swap": every file is there, the engine is not; "tell": serving, announce
\* pending; "done": serving; "gone": the process is down.
Phase == {"poll", "ask", "dial", "origin", "swap", "tell", "done", "gone"}

NoAnswer == [seeders |-> {}, leader |-> None]

TypeOK ==
  /\ peers \in [Nodes -> Peer]
  /\ clock \in Nat
  /\ pc \in [Nodes -> Phase]
  /\ booting \subseteq Nodes
  /\ have \in [Nodes -> SUBSET Files]
  /\ recorded \subseteq Nodes
  /\ resp \in [Nodes -> [seeders : SUBSET Nodes, leader : Nodes \cup {None}]]
  /\ expired \subseteq Nodes
  /\ excused \subseteq paid /\ paid \subseteq Nodes
  /\ faults \in 0 .. MaxFaults
  /\ restarts \in 0 .. faults

Init ==
  /\ TrackerInit
  /\ pc = [n \in Nodes |-> "poll"]
  /\ booting = {}
  /\ have = [n \in Nodes |-> {}]
  /\ recorded = {}
  /\ resp = [n \in Nodes |-> NoAnswer]
  /\ expired = {}
  /\ paid = {}
  /\ excused = {}
  /\ restarts = 0
  /\ faults = 0

trackerVars == <<peers, clock>>
bounds == <<restarts, faults>>

Goto(n, phase) == pc' = [pc EXCEPT ![n] = phase]

Fault == faults < MaxFaults /\ faults' = faults + 1

(***************************************************************************)
(* seed_index: a node seeds a hash once state.json records its channel at  *)
(* that version, which is written when the new engine runs and outlives    *)
(* the process.                                                            *)
(***************************************************************************)
\* Fault: a node seeds the version it is moving to.
SeedsTarget(n) == IF pc[n] # "gone" THEN {New} ELSE {}

Seeds(n) == IF n \in recorded /\ pc[n] # "gone" THEN {New} ELSE {}

(***************************************************************************)
(* ensure_model goes through the missing files; fetch() of the next one    *)
(* starts with a new deadline.                                             *)
(***************************************************************************)
NextFile(n, files) ==
  /\ Goto(n, IF files = Files THEN "swap" ELSE "ask")
  /\ expired' = expired \ {n}
  /\ resp' = [resp EXCEPT ![n] = NoAnswer]

\* The update loop sees the new manifest.
Notice(n) ==
  /\ pc[n] = "poll"
  /\ NextFile(n, have[n])
  /\ UNCHANGED <<trackerVars, booting, have, recorded, paid, excused, bounds>>

\* fetch(): announce(wanted = [hash]) and keep the answer.
Ask(n) ==
  /\ pc[n] = "ask"
  /\ Announce(n, Seeds(n), {New})
  /\ resp' = [resp EXCEPT ![n] = Answer(n, Seeds(n), {New})]
  /\ Goto(n, "dial")
  /\ UNCHANGED <<booting, have, recorded, expired, paid, excused, bounds>>

\* A call that fails: it never arrives, or its answer is lost.
MayArrive(n) == UNCHANGED trackerVars \/ Announce(n, Seeds(n), {New})

\* fetch(): no answer of the tracker; the node goes to the origin.
AskFails(n) ==
  /\ pc[n] = "ask"
  /\ Fault
  /\ MayArrive(n)
  /\ Goto(n, "origin")
  /\ paid' = paid \cup {n}
  /\ excused' = excused \cup {n}
  /\ UNCHANGED <<booting, have, recorded, resp, expired, restarts>>

\* _try_seeders: a seeder of the answer serves the file.
Leech(n, s, f) ==
  /\ pc[n] = "dial"
  /\ s \in resp[n].seeders
  /\ New \in Seeds(s)
  /\ f \in Files \ have[n]
  /\ have' = [have EXCEPT ![n] = @ \cup {f}]
  /\ NextFile(n, have[n] \cup {f})
  /\ UNCHANGED <<trackerVars, booting, recorded, paid, excused, bounds>>

\* Fault: the deadline is never looked at.
SettlesNoDeadline(n) ==
  /\ IF resp[n].leader \in {None, n}
       THEN /\ Goto(n, "origin")
            /\ paid' = paid \cup {n}
            /\ excused' = IF resp[n].leader = n THEN excused ELSE excused \cup {n}
       ELSE /\ Goto(n, "ask")
            /\ UNCHANGED <<paid, excused>>

\* No seeder served the file: to the origin when the answer names no leader or
\* this node, or the deadline has passed; else sleep and ask again.
Settles(n) ==
  /\ IF resp[n].leader \in {None, n} \/ n \in expired
       THEN /\ Goto(n, "origin")
            /\ paid' = paid \cup {n}
            /\ excused' = IF resp[n].leader = n THEN excused ELSE excused \cup {n}
       ELSE /\ Goto(n, "ask")
            /\ UNCHANGED <<paid, excused>>

\* No seeder, or each of them is down.
NoSeeder(n) ==
  /\ pc[n] = "dial"
  /\ \A s \in resp[n].seeders : New \notin Seeds(s)
  /\ Settles(n)
  /\ UNCHANGED <<trackerVars, booting, have, recorded, resp, expired, bounds>>

\* A seeder is up and cannot be reached, or breaks off.
DialFails(n) ==
  /\ pc[n] = "dial"
  /\ \E s \in resp[n].seeders : New \in Seeds(s)
  /\ Fault
  /\ Settles(n)
  /\ UNCHANGED <<trackerVars, booting, have, recorded, resp, expired, restarts>>

\* The deadline of the running fetch passes.
Expire(n) ==
  /\ pc[n] \in {"ask", "dial"}
  /\ n \notin expired
  /\ expired' = expired \cup {n}
  /\ UNCHANGED <<trackerVars, pc, booting, have, recorded, resp, paid, excused, bounds>>

\* _download_hf_file ends with the verified file.
Download(n, f) ==
  /\ pc[n] = "origin"
  /\ f \in Files \ have[n]
  /\ have' = [have EXCEPT ![n] = @ \cup {f}]
  /\ NextFile(n, have[n] \cup {f})
  /\ UNCHANGED <<trackerVars, booting, recorded, paid, excused, bounds>>

\* The new engine runs and the channel is recorded.
Swap(n) ==
  /\ pc[n] = "swap"
  /\ Goto(n, "tell")
  /\ booting' = booting \ {n}
  /\ recorded' = recorded \cup {n}
  /\ UNCHANGED <<trackerVars, have, resp, expired, paid, excused, bounds>>

\* The origin download fails, or the new engine does not start: changeover has
\* the old one serve until the next poll, a node that is starting up exits.
UpdateFails(n) ==
  /\ pc[n] \in {"origin", "swap"}
  /\ Fault
  /\ Goto(n, IF n \in booting THEN "gone" ELSE "poll")
  /\ UNCHANGED <<trackerVars, booting, have, recorded, resp, expired, paid, excused,
                 restarts>>

\* on_swapped: announce what is seeded, wanting nothing.
Tell(n) ==
  /\ pc[n] = "tell"
  /\ Announce(n, Seeds(n), {})
  /\ Goto(n, "done")
  /\ UNCHANGED <<booting, have, recorded, resp, expired, paid, excused, bounds>>

\* The announce is lost, and nothing repeats it.
TellFails(n) ==
  /\ pc[n] = "tell"
  /\ Fault
  /\ Goto(n, "done")
  /\ UNCHANGED <<trackerVars, booting, have, recorded, resp, expired, paid, excused, restarts>>

\* A node crashes; what it had verified stays on its disk.
Leave(n) ==
  /\ pc[n] # "gone"
  /\ Fault
  /\ Goto(n, "gone")
  /\ UNCHANGED <<trackerVars, booting, have, recorded, resp, expired, paid, excused, restarts>>

\* async_main: the node starts again, on the new manifest.
Return(n) ==
  /\ pc[n] = "gone"
  /\ booting' = booting \cup {n}
  /\ NextFile(n, have[n])
  /\ UNCHANGED <<trackerVars, have, recorded, paid, excused, bounds>>

Restart ==
  /\ Fault
  /\ restarts' = restarts + 1
  /\ TrackerRestart
  /\ UNCHANGED nodeVars

NodeStep(n) ==
  \/ Notice(n)
  \/ Ask(n)
  \/ \E s \in Nodes, f \in Files : Leech(n, s, f)
  \/ NoSeeder(n)
  \/ \E f \in Files : Download(n, f)
  \/ Swap(n)
  \/ Tell(n)

Mishap(n) == AskFails(n) \/ DialFails(n) \/ UpdateFails(n) \/ TellFails(n) \/ Leave(n)

Next ==
  \/ \E n \in Nodes : NodeStep(n) \/ Mishap(n) \/ Expire(n) \/ Return(n)
  \/ Restart

(***************************************************************************)
(* Every await of a running node ends, and its deadline passes some day.   *)
(* A crashed node need not come back.                                      *)
(***************************************************************************)
Fairness == \A n \in Nodes : WF_vars(NodeStep(n)) /\ WF_vars(Expire(n))

Spec == Init /\ [][Next]_vars /\ Fairness

-----------------------------------------------------------------------------
(***************************************************************************)
(* Properties.                                                             *)
(***************************************************************************)

\* Every origin download beyond the first is explained: its node was not named
\* leader (tracker or seeders out of reach, deadline passed), or the tracker
\* lost its table, which costs one more leader each time.
OriginPayersExplained ==
  Cardinality(paid \ excused) <= 1 + restarts

\* A node the tracker lists as a seeder of the new version has all its files.
SeedersHoldFiles ==
  \A n \in Nodes : New \in peers[n].seeding => have[n] = Files

\* No node is stuck behind a leader that failed: whatever happens to leader,
\* seeders and tracker, a node that stays up ends up on the new version.
EveryNodeUpdates ==
  \A n \in Nodes : <>(pc[n] \in {"done", "gone"})
=============================================================================
