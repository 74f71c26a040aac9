----------------------------- MODULE Rendezvous -----------------------------
(***************************************************************************)
(* The rendezvous tracker (rendezvous.py): an in-memory table with the     *)
(* last announce of every peer.  announce() is one synchronous call on the *)
(* control plane's event loop, so it is one step: it stores the announce   *)
(* and computes the answer from the table it just changed.                 *)
(*                                                                         *)
(* Entries never expire; a peer that left stays in the table.  `clock`     *)
(* stands for the readings of the tracker's clock: only the order of the   *)
(* readings kept in wanted_since matters, and they are taken to differ, so *)
(* the clock advances once for every announce that stores a new reading.   *)
(***************************************************************************)
EXTENDS Naturals

CONSTANTS
  Nodes,    \* node ids
  Hashes,   \* manifest hashes that can be seeded or wanted
  None      \* no leader

VARIABLES
  peers,    \* _peers: the last announce of each node, absent when unknown
  clock     \* the last reading stored in a wanted_since

Unknown == [known |-> FALSE, seeding |-> {}, wanted |-> {}, since |-> [h \in Hashes |-> 0]]

Peer == [known : BOOLEAN, seeding : SUBSET Hashes, wanted : SUBSET Hashes,
         since : [Hashes -> Nat]]

TrackerInit ==
  /\ peers = [n \in Nodes |-> Unknown]
  /\ clock = 0

\* The first announce of each wanted hash: kept while the node goes on wanting
\* it, taken from the clock otherwise, dropped when it is not wanted any more.
Since(n, wanted) ==
  [h \in Hashes |->
     IF h \notin wanted THEN 0
     ELSE IF h \in peers[n].wanted THEN peers[n].since[h]
     ELSE clock + 1]

\* The table after n announces.
Announced(n, seeding, wanted) ==
  [peers EXCEPT ![n] = [known |-> TRUE, seeding |-> seeding, wanted |-> wanted,
                        since |-> Since(n, wanted)]]

\* Peers named to an announcer that wants `wanted`, with the role "seeder".
Seeders(table, n, wanted) ==
  {p \in Nodes \ {n} : table[p].seeding \cap wanted # {}}

\* Fault: the latest starter wins.
LatestLeader(table, n, wanted) ==
  IF wanted = {} \/ Seeders(table, n, wanted) # {} THEN None
  ELSE LET h == CHOOSE x \in wanted : TRUE
           wanting == {p \in Nodes : h \in table[p].wanted \ table[p].seeding}
       IN  CHOOSE p \in wanting : \A q \in wanting : table[q].since[h] <= table[p].since[h]

(***************************************************************************)
(* The origin leader for the wanted content, when nobody else seeds it:    *)
(* the earliest starter among the peers that want it and do not seed it.   *)
(* A node that asks wants one hash at a time, so which wanted hash counts  *)
(* (the first in sorted order) is no choice.                               *)
(***************************************************************************)
Leader(table, n, wanted) ==
  IF wanted = {} \/ Seeders(table, n, wanted) # {} THEN None
  ELSE LET h == CHOOSE x \in wanted : TRUE
           wanting == {p \in Nodes : h \in table[p].wanted \ table[p].seeding}
       IN  IF wanting = {} THEN None
           ELSE CHOOSE p \in wanting :
                  \A q \in wanting : table[p].since[h] <= table[q].since[h]

\* announce(): store, and answer with the seeders and the leader.
Announce(n, seeding, wanted) ==
  /\ peers' = Announced(n, seeding, wanted)
  /\ clock' = IF wanted \subseteq peers[n].wanted THEN clock ELSE clock + 1

Answer(n, seeding, wanted) ==
  LET table == Announced(n, seeding, wanted)
  IN  [seeders |-> Seeders(table, n, wanted), leader |-> Leader(table, n, wanted)]

\* The control plane restarts: the table is gone, the clock is not.
TrackerRestart ==
  /\ peers' = [n \in Nodes |-> Unknown]
  /\ UNCHANGED clock
=============================================================================
