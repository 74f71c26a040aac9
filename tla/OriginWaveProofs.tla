-------------------------- MODULE OriginWaveProofs --------------------------
(***************************************************************************)
(* Proofs about OriginWave, for any set of nodes, any files and any number *)
(* of faults.                                                              *)
(***************************************************************************)
EXTENDS OriginWave, FiniteSetTheorems, WellFoundedInduction, TLAPS

\* What the tracker's table says of n and the new version.
Wants(n) == New \in peers[n].wanted
Lists(n) == New \in peers[n].seeding

\* The types these proofs rest on.
Types ==
  /\ peers \in [Nodes -> Peer]
  /\ clock \in Nat
  /\ pc \in [Nodes -> Phase]
  /\ have \in [Nodes -> SUBSET Files]
  /\ recorded \subseteq Nodes
  /\ DOMAIN resp = Nodes
  /\ paid \subseteq Nodes
  /\ faults \in Nat /\ restarts \in Nat

\* OriginWaveAssumption, and what it says of the hash of the wave.
LEMMA Constants == New \in Hashes /\ Files # {} /\ None \notin Nodes /\ MaxFaults \in Nat
BY OriginWaveAssumption DEF OriginWaveAssumption

\* A step of one node.
StepOf(n) == NodeStep(n) \/ Mishap(n) \/ Expire(n) \/ Return(n)

LEMMA SeedsNew ==
  ASSUME NEW n
  PROVE  Seeds(n) \in SUBSET {New} /\ (New \in Seeds(n) => n \in recorded)
BY DEF Seeds

\* The table after an announce of n, entry by entry.
LEMMA Table ==
  ASSUME Types, NEW n \in Nodes, NEW seeding \in SUBSET {New}, NEW wanted \in SUBSET {New}
  PROVE  /\ Announced(n, seeding, wanted) \in [Nodes -> Peer]
         /\ \A p \in Nodes \ {n} : Announced(n, seeding, wanted)[p] = peers[p]
         /\ Announced(n, seeding, wanted)[n].seeding = seeding
         /\ Announced(n, seeding, wanted)[n].wanted = wanted
         /\ New \in wanted =>
              Announced(n, seeding, wanted)[n].since[New]
                = IF Wants(n) THEN peers[n].since[New] ELSE clock + 1
<1>1. Since(n, wanted) \in [Hashes -> Nat]
  BY Constants DEF Since, Types, Peer
<1>2. New \in wanted => Since(n, wanted)[New] = IF Wants(n) THEN peers[n].since[New] ELSE clock + 1
  BY Constants DEF Since, Wants
<1>3. [known |-> TRUE, seeding |-> seeding, wanted |-> wanted, since |-> Since(n, wanted)] \in Peer
  BY <1>1, Constants DEF Peer
<1> QED  BY <1>1, <1>2, <1>3 DEF Announced, Types

\* The table after the announce of a node that wants the version and of one
\* that has it.
LEMMA AskTable ==
  ASSUME Types, NEW n \in Nodes, Seeds(n) = {}
  PROVE  /\ \A p \in Nodes \ {n} : Announced(n, Seeds(n), {New})[p] = peers[p]
         /\ Announced(n, Seeds(n), {New})[n].seeding = {}
         /\ Announced(n, Seeds(n), {New})[n].wanted = {New}
         /\ Announced(n, Seeds(n), {New})[n].since[New]
              = IF Wants(n) THEN peers[n].since[New] ELSE clock + 1
<1>1. Seeds(n) \in SUBSET {New} /\ {New} \in SUBSET {New} /\ New \in {New}
  BY SeedsNew
<1>2. \A p \in Nodes \ {n} : Announced(n, Seeds(n), {New})[p] = peers[p]
  BY <1>1, Table
<1>3. Announced(n, Seeds(n), {New})[n].seeding = {}
  BY DEF Announced, Types
<1>4. Announced(n, Seeds(n), {New})[n].wanted = {New}
  BY DEF Announced, Types
<1>5. Announced(n, Seeds(n), {New})[n].since[New]
        = IF Wants(n) THEN peers[n].since[New] ELSE clock + 1
  BY <1>1, Table
<1> QED  BY <1>2, <1>3, <1>4, <1>5

LEMMA TellTable ==
  ASSUME Types, NEW n \in Nodes
  PROVE  /\ \A p \in Nodes \ {n} : Announced(n, Seeds(n), {})[p] = peers[p]
         /\ Announced(n, Seeds(n), {})[n].seeding = Seeds(n)
         /\ Announced(n, Seeds(n), {})[n].wanted = {}
<1>1. Seeds(n) \in SUBSET {New}
  BY SeedsNew
<1>2. \A p \in Nodes \ {n} : Announced(n, Seeds(n), {})[p] = peers[p]
  BY <1>1, Table
<1>3. Announced(n, Seeds(n), {})[n].seeding = Seeds(n)
  BY DEF Announced, Types
<1>4. Announced(n, Seeds(n), {})[n].wanted = {}
  BY DEF Announced, Types
<1> QED  BY <1>2, <1>3, <1>4

LEMMA AnnounceTypes ==
  ASSUME Types, NEW n \in Nodes, NEW seeding \in SUBSET {New}, NEW wanted \in SUBSET {New},
         Announce(n, seeding, wanted)
  PROVE  peers' \in [Nodes -> Peer] /\ clock' \in Nat /\ clock' >= clock
<1>1. peers' \in [Nodes -> Peer]
  BY Table DEF Announce
<1>2. clock' = clock \/ clock' = clock + 1
  BY DEF Announce
<1>3. clock \in Nat
  BY DEF Types
<1> QED  BY <1>1, <1>2, <1>3

LEMMA InitTypes == Init => Types
<1> SUFFICES ASSUME Init PROVE Types
  OBVIOUS
<1>1. Unknown \in Peer
  BY DEF Unknown, Peer
<1> QED  BY <1>1 DEF Init, TrackerInit, Types, Phase

LEMMA StepTypes ==
  ASSUME Types, [Next]_vars PROVE Types'
<1> USE Constants DEF Types, trackerVars, bounds, Goto, Fault, Phase, NextFile
<1>1. ASSUME NEW n \in Nodes, StepOf(n) PROVE Types'
  <2> USE <1>1
  <2>1. CASE Notice(n) BY <2>1 DEF Notice
  <2>2. CASE Ask(n) BY <2>2, AnnounceTypes, SeedsNew DEF Ask
  <2>3. CASE \E s \in Nodes, f \in Files : Leech(n, s, f) BY <2>3 DEF Leech
  <2>4. CASE NoSeeder(n) BY <2>4 DEF NoSeeder, Settles
  <2>5. CASE \E f \in Files : Download(n, f) BY <2>5 DEF Download
  <2>6. CASE Swap(n) BY <2>6 DEF Swap
  <2>7. CASE Tell(n) BY <2>7, AnnounceTypes, SeedsNew DEF Tell
  <2>8. CASE AskFails(n)
    <3>1. peers' \in [Nodes -> Peer] /\ clock' \in Nat
      <4>1. CASE UNCHANGED trackerVars BY <4>1
      <4>2. CASE Announce(n, Seeds(n), {New}) BY <4>2, AnnounceTypes, SeedsNew
      <4> QED  BY <2>8, <4>1, <4>2 DEF AskFails, MayArrive
    <3>2. /\ pc' = [pc EXCEPT ![n] = "origin"] /\ faults' = faults + 1
          /\ paid' = paid \cup {n} /\ have' = have /\ recorded' = recorded
          /\ resp' = resp /\ restarts' = restarts
      BY <2>8 DEF AskFails
    <3> QED  BY <3>1, <3>2
  <2>9. CASE DialFails(n) BY <2>9 DEF DialFails, Settles
  <2>10. CASE UpdateFails(n) BY <2>10 DEF UpdateFails
  <2>11. CASE TellFails(n) BY <2>11 DEF TellFails
  <2>12. CASE Leave(n) BY <2>12 DEF Leave
  <2>13. CASE Expire(n) BY <2>13 DEF Expire
  <2>14. CASE Return(n) BY <2>14 DEF Return
  <2> QED  BY <2>1, <2>2, <2>3, <2>4, <2>5, <2>6, <2>7, <2>8, <2>9, <2>10, <2>11, <2>12,
              <2>13, <2>14 DEF StepOf, NodeStep, Mishap
<1>2. CASE Restart
  <2>1. Unknown \in Peer
    BY DEF Unknown, Peer
  <2> QED  BY <1>2, <2>1 DEF Restart, TrackerRestart, nodeVars
<1>3. CASE UNCHANGED vars
  BY <1>3 DEF vars
<1> QED  BY <1>1, <1>2, <1>3 DEF Next, StepOf

-----------------------------------------------------------------------------
(***************************************************************************)
(* The rest of the type invariant: what the tracker answers, and the       *)
(* counters.  That the leader is a node rests on the readings of the clock *)
(* being numbers, of which some are the least, however many nodes want it. *)
(***************************************************************************)
Rest ==
  /\ booting \subseteq Nodes
  /\ resp \in [Nodes -> [seeders : SUBSET Nodes, leader : Nodes \cup {None}]]
  /\ expired \subseteq Nodes
  /\ excused \subseteq paid
  /\ faults \in 0 .. MaxFaults
  /\ restarts \in 0 .. faults

\* Somebody of a nonempty set has the least reading.
LEMMA Earliest ==
  ASSUME NEW S, S # {}, NEW since, \A p \in S : since[p] \in Nat
  PROVE  \E p \in S : \A q \in S : since[p] <= since[q]
<1> DEFINE T == {since[p] : p \in S}
<1>1. T \subseteq Nat /\ T # {}
  OBVIOUS
<1> HIDE DEF T
<1>2. PICK m \in T : \A k \in T : ~(<<k, m>> \in OpToRel(<, Nat))
  BY <1>1, NatLessThanWellFounded, WFMin
<1>3. \A k \in T : ~(k < m)
  BY <1>1, <1>2 DEF OpToRel
<1>4. \A k \in T : m <= k
  BY <1>1, <1>3
<1> USE DEF T
<1>5. PICK p \in S : m = since[p]
  OBVIOUS
<1>6. \A q \in S : since[p] <= since[q]
  BY <1>4, <1>5
<1> QED  BY <1>6

\* The leader named to a node that wants the version.
LEMMA LeaderType ==
  ASSUME NEW table \in [Nodes -> Peer], NEW n \in Nodes
  PROVE  Leader(table, n, {New}) \in Nodes \cup {None}
<1> DEFINE wanting == {p \in Nodes : New \in table[p].wanted \ table[p].seeding}
           since == [p \in Nodes |-> table[p].since[New]]
<1>1. (CHOOSE h \in {New} : TRUE) = New
  OBVIOUS
<1>2. CASE wanting = {} \/ Seeders(table, n, {New}) # {}
  BY <1>1, <1>2 DEF Leader
<1>3. CASE wanting # {} /\ Seeders(table, n, {New}) = {}
  <2>1. \A p \in wanting : since[p] \in Nat
    BY Constants DEF Peer
  <2>2. \E p \in wanting : \A q \in wanting : since[p] <= since[q]
    <3> HIDE DEF wanting, since
    <3> QED  BY <1>3, <2>1, Earliest
  <2>3. PICK p \in wanting : \A q \in wanting : table[p].since[New] <= table[q].since[New]
    BY <2>2
  <2>4. Leader(table, n, {New})
          = CHOOSE x \in wanting : \A q \in wanting : table[x].since[New] <= table[q].since[New]
    BY <1>1, <1>3 DEF Leader
  <2>5. Leader(table, n, {New}) \in wanting
    <3> HIDE DEF wanting
    <3> QED  BY <2>3, <2>4
  <2> QED  BY <2>5
<1> QED  BY <1>2, <1>3

LEMMA AnswerType ==
  ASSUME Types, NEW n \in Nodes
  PROVE  Answer(n, Seeds(n), {New}) \in [seeders : SUBSET Nodes, leader : Nodes \cup {None}]
<1>1. Announced(n, Seeds(n), {New}) \in [Nodes -> Peer]
  BY Table, SeedsNew
<1>2. Leader(Announced(n, Seeds(n), {New}), n, {New}) \in Nodes \cup {None}
  BY <1>1, LeaderType
<1> QED  BY <1>2 DEF Answer, Seeders

LEMMA StepRest ==
  ASSUME Types, Rest, [Next]_vars PROVE Rest'
<1> USE Constants DEF Types, Rest, trackerVars, bounds, Goto, Fault, NextFile, NoAnswer
<1>1. ASSUME NEW n \in Nodes, StepOf(n) PROVE Rest'
  <2> USE <1>1
  <2>1. CASE Notice(n) BY <2>1 DEF Notice
  <2>2. CASE Ask(n) BY <2>2, AnswerType DEF Ask
  <2>3. CASE \E s \in Nodes, f \in Files : Leech(n, s, f) BY <2>3 DEF Leech
  <2>4. CASE NoSeeder(n) BY <2>4 DEF NoSeeder, Settles
  <2>5. CASE \E f \in Files : Download(n, f) BY <2>5 DEF Download
  <2>6. CASE Swap(n) BY <2>6 DEF Swap
  <2>7. CASE Tell(n) BY <2>7 DEF Tell
  <2>8. CASE AskFails(n) BY <2>8 DEF AskFails
  <2>9. CASE DialFails(n) BY <2>9 DEF DialFails, Settles
  <2>10. CASE UpdateFails(n) BY <2>10 DEF UpdateFails
  <2>11. CASE TellFails(n) BY <2>11 DEF TellFails
  <2>12. CASE Leave(n) BY <2>12 DEF Leave
  <2>13. CASE Expire(n) BY <2>13 DEF Expire
  <2>14. CASE Return(n) BY <2>14 DEF Return
  <2> QED  BY <2>1, <2>2, <2>3, <2>4, <2>5, <2>6, <2>7, <2>8, <2>9, <2>10, <2>11, <2>12,
              <2>13, <2>14 DEF StepOf, NodeStep, Mishap
<1>2. CASE Restart
  BY <1>2 DEF Restart, TrackerRestart, nodeVars
<1>3. CASE UNCHANGED vars
  BY <1>3 DEF vars
<1> QED  BY <1>1, <1>2, <1>3 DEF Next, StepOf

\* What every node keeps across its awaits has the type the code gives it: an
\* answer names peers as seeders and one of them, or nobody, as leader; a
\* restart is one of the faults (announce, PeerSwarm.fetch).
THEOREM TypeCorrect == Spec => []TypeOK
<1>1. Init => Rest
  BY Constants DEF Init, Rest, NoAnswer
<1>2. Types /\ Rest /\ [Next]_vars => Types' /\ Rest'
  BY StepTypes, StepRest
<1>3. Types /\ Rest => TypeOK
  BY DEF Types, Rest, TypeOK
<1> QED  BY InitTypes, <1>1, <1>2, <1>3, PTL DEF Spec

-----------------------------------------------------------------------------
(***************************************************************************)
(* Who holds the files.                                                    *)
(*                                                                         *)
(* A listed seeder has announced itself as one, so its state.json records  *)
(* the version; that is written after the last file was verified, which is *)
(* what "swap" says.  A node that has every file does not ask.             *)
(***************************************************************************)
Held ==
  \A n \in Nodes :
    /\ n \in recorded => have[n] = Files
    /\ pc[n] = "swap" => have[n] = Files
    /\ pc[n] \in {"ask", "dial", "origin"} => have[n] # Files
    /\ pc[n] = "tell" => n \in recorded
    /\ Lists(n) => n \in recorded

LEMMA StepHeld ==
  ASSUME Types, Held, [Next]_vars PROVE Held'
<1> USE Constants DEF Types, Held, Lists, trackerVars, bounds, Goto, Fault, NextFile
<1>1. ASSUME NEW n \in Nodes, StepOf(n) PROVE Held'
  <2> USE <1>1
  <2>1. CASE Notice(n) BY <2>1 DEF Notice
  <2>2. CASE Ask(n)
    <3>1. peers' = Announced(n, Seeds(n), {New})
      BY <2>2 DEF Ask, Announce
    <3> QED  BY <2>2, <3>1, Table, SeedsNew DEF Ask
  <2>3. CASE \E s \in Nodes, f \in Files : Leech(n, s, f) BY <2>3 DEF Leech
  <2>4. CASE NoSeeder(n) BY <2>4 DEF NoSeeder, Settles
  <2>5. CASE \E f \in Files : Download(n, f) BY <2>5 DEF Download
  <2>6. CASE Swap(n) BY <2>6 DEF Swap
  <2>7. CASE Tell(n)
    <3>1. peers' = Announced(n, Seeds(n), {})
      BY <2>7 DEF Tell, Announce
    <3>2. /\ \A p \in Nodes \ {n} : peers'[p] = peers[p]
          /\ peers'[n].seeding = Seeds(n)
      BY <3>1, TellTable
    <3> QED  BY <2>7, <3>2, SeedsNew DEF Tell
  <2>8. CASE AskFails(n)
    <3>1. /\ \A p \in Nodes \ {n} : peers'[p] = peers[p]
          /\ New \in peers'[n].seeding => n \in recorded
      <4>1. CASE UNCHANGED trackerVars BY <4>1
      <4>2. CASE Announce(n, Seeds(n), {New})
        <5>1. peers' = Announced(n, Seeds(n), {New})
          BY <4>2 DEF Announce
        <5>2. n \notin recorded /\ Seeds(n) = {}
          BY <2>8 DEF AskFails, Seeds
        <5>3. /\ \A p \in Nodes \ {n} : Announced(n, Seeds(n), {New})[p] = peers[p]
              /\ Announced(n, Seeds(n), {New})[n].seeding = {}
          BY <5>2, AskTable
        <5> QED  BY <5>1, <5>3
      <4> QED  BY <2>8, <4>1, <4>2 DEF AskFails, MayArrive
    <3> QED  BY <2>8, <3>1 DEF AskFails
  <2>9. CASE DialFails(n) BY <2>9 DEF DialFails, Settles
  <2>10. CASE UpdateFails(n) BY <2>10 DEF UpdateFails
  <2>11. CASE TellFails(n) BY <2>11 DEF TellFails
  <2>12. CASE Leave(n) BY <2>12 DEF Leave
  <2>13. CASE Expire(n) BY <2>13 DEF Expire
  <2>14. CASE Return(n) BY <2>14 DEF Return
  <2> QED  BY <2>1, <2>2, <2>3, <2>4, <2>5, <2>6, <2>7, <2>8, <2>9, <2>10, <2>11, <2>12,
              <2>13, <2>14 DEF StepOf, NodeStep, Mishap
<1>2. CASE Restart
  BY <1>2 DEF Restart, TrackerRestart, nodeVars, Unknown
<1>3. CASE UNCHANGED vars
  BY <1>3 DEF vars
<1> QED  BY <1>1, <1>2, <1>3 DEF Next, StepOf

LEMMA InitHeld == Init => Held
<1> SUFFICES ASSUME Init, NEW n \in Nodes PROVE ~Lists(n) /\ pc[n] = "poll" /\ n \notin recorded
  BY Zenon DEF Held
<1> QED  BY DEF Init, TrackerInit, Unknown, Lists

\* A node the tracker lists as a seeder of the new version has all its files
\* (seed_index goes by state.json, which is written after ensure_model).
THEOREM SeedersHold == Spec => []SeedersHoldFiles
<1>1. Types /\ Held /\ [Next]_vars => Types' /\ Held'
  BY StepTypes, StepHeld
<1>2. Types /\ Held => SeedersHoldFiles
  BY DEF Held, SeedersHoldFiles, Lists
<1> QED  BY InitTypes, InitHeld, <1>1, <1>2, PTL DEF Spec

-----------------------------------------------------------------------------
(***************************************************************************)
(* Who pays the origin.                                                    *)
(*                                                                         *)
(* Named are the nodes that paid as leaders or hold an answer that names   *)
(* them.  Between two restarts the tracker names at most one: the first to *)
(* want the version keeps the smallest reading until somebody seeds it,    *)
(* and from then on nobody is named.  A count of payers alone is not       *)
(* inductive; Life counts the named, in the three phases of a table.       *)
(***************************************************************************)
Named ==
  {n \in Nodes : (n \in paid /\ n \notin excused) \/ (pc[n] = "dial" /\ resp[n].leader = n)}

First(x) ==
  /\ Wants(x)
  /\ \A q \in Nodes \ {x} : Wants(q) => peers[x].since[New] < peers[q].since[New]

Nobody == \A n \in Nodes : ~Wants(n) /\ ~Lists(n)

Led(x) == First(x) /\ \A n \in Nodes : ~Lists(n)

Seeded == \E n \in Nodes : Lists(n)

Life ==
  /\ IsFiniteSet(Named)
  /\ \/ Nobody /\ Cardinality(Named) <= restarts
     \/ \E x \in Nodes : Led(x) /\ Cardinality(Named \cup {x}) <= 1 + restarts
     \/ Seeded /\ Cardinality(Named) <= 1 + restarts

Clocked == \A n \in Nodes : Wants(n) => peers[n].since[New] <= clock

LEMMA Adding ==
  ASSUME NEW S, IsFiniteSet(S), NEW x
  PROVE  /\ IsFiniteSet(S \cup {x})
         /\ Cardinality(S) \in Nat /\ Cardinality(S \cup {x}) \in Nat
         /\ Cardinality(S) <= Cardinality(S \cup {x})
         /\ Cardinality(S \cup {x}) <= 1 + Cardinality(S)
<1>1. Cardinality(S) \in Nat
  BY FS_CardinalityType
<1>2. /\ IsFiniteSet(S \cup {x})
      /\ Cardinality(S \cup {x}) = IF x \in S THEN Cardinality(S) ELSE Cardinality(S) + 1
  BY FS_AddElement
<1> QED  BY <1>1, <1>2

LEMMA Shrinking ==
  ASSUME NEW S, IsFiniteSet(S), NEW T, T \subseteq S
  PROVE  /\ IsFiniteSet(T)
         /\ Cardinality(S) \in Nat /\ Cardinality(T) \in Nat
         /\ Cardinality(T) <= Cardinality(S)
BY FS_Subset, FS_CardinalityType

LEMMA AtMost ==
  ASSUME Types, Life
  PROVE  IsFiniteSet(Named) /\ Cardinality(Named) \in Nat /\ Cardinality(Named) <= 1 + restarts
<1>1. IsFiniteSet(Named) /\ Cardinality(Named) \in Nat /\ restarts \in Nat
  BY FS_CardinalityType DEF Life, Types
<1>2. CASE Cardinality(Named) <= restarts
  BY <1>1, <1>2
<1>3. ASSUME NEW x \in Nodes, Cardinality(Named \cup {x}) <= 1 + restarts
      PROVE  Cardinality(Named) <= 1 + restarts
  BY <1>1, <1>3, Adding
<1> QED  BY <1>1, <1>2, <1>3 DEF Life

\* Nobody new is named, and the table stays as it is.
LEMMA QuietLife ==
  ASSUME Types, Life, Clocked, Named' \subseteq Named, UNCHANGED <<trackerVars, restarts>>
  PROVE  Life' /\ Clocked'
<1> USE DEF trackerVars
<1>1. IsFiniteSet(Named) /\ restarts \in Nat /\ restarts' = restarts
  BY DEF Life, Types
<1>2. /\ IsFiniteSet(Named')
      /\ Cardinality(Named) \in Nat /\ Cardinality(Named') \in Nat
      /\ Cardinality(Named') <= Cardinality(Named)
  BY <1>1, Shrinking
<1>3. (Nobody <=> Nobody') /\ (Seeded <=> Seeded') /\ (\A x \in Nodes : Led(x) => Led(x)')
  BY DEF Nobody, Seeded, Led, First, Wants, Lists
<1>4. ASSUME NEW x \in Nodes, Cardinality(Named \cup {x}) <= 1 + restarts
      PROVE  Cardinality(Named' \cup {x}) <= 1 + restarts'
  <2>1. IsFiniteSet(Named \cup {x})
    BY <1>1, Adding
  <2>2. /\ Cardinality(Named \cup {x}) \in Nat /\ Cardinality(Named' \cup {x}) \in Nat
        /\ Cardinality(Named' \cup {x}) <= Cardinality(Named \cup {x})
    BY <2>1, Shrinking
  <2> QED  BY <1>1, <1>4, <2>2
<1>5. Life'
  <2>1. CASE Nobody /\ Cardinality(Named) <= restarts
    <3>1. Cardinality(Named') <= restarts'
      BY <1>1, <1>2, <2>1
    <3> QED  BY <1>2, <1>3, <2>1, <3>1 DEF Life
  <2>2. CASE \E x \in Nodes : Led(x) /\ Cardinality(Named \cup {x}) <= 1 + restarts
    BY <1>2, <1>3, <1>4, <2>2 DEF Life
  <2>3. CASE Seeded /\ Cardinality(Named) <= 1 + restarts
    <3>1. Cardinality(Named') <= 1 + restarts'
      BY <1>1, <1>2, <2>3
    <3> QED  BY <1>2, <1>3, <2>3, <3>1 DEF Life
  <2> QED  BY <2>1, <2>2, <2>3 DEF Life
<1>6. Clocked'
  BY DEF Clocked, Wants
<1> QED  BY <1>5, <1>6

\* fetch() asks: named is the first of the table's life, if nobody seeds, and
\* if it hears of it.
LEMMA AskLife ==
  ASSUME Types, Held, Life, Clocked, NEW n \in Nodes,
         pc[n] = "ask", Announce(n, Seeds(n), {New}), Ask(n) \/ AskFails(n)
  PROVE  Life' /\ Clocked'
<1> DEFINE table == Announced(n, Seeds(n), {New})
           lead == Leader(table, n, {New})
<1> USE Constants
<1>1. n \notin recorded /\ Seeds(n) = {}
  BY DEF Held, Seeds
<1>2. peers' = table /\ restarts' = restarts /\ clock' = (IF Wants(n) THEN clock ELSE clock + 1)
  BY DEF Ask, AskFails, Announce, bounds, Wants
<1>3. /\ \A p \in Nodes \ {n} : table[p] = peers[p]
      /\ table[n].seeding = {} /\ table[n].wanted = {New}
      /\ table[n].since[New] = (IF Wants(n) THEN peers[n].since[New] ELSE clock + 1)
  BY <1>1, AskTable
<1>4. ~Lists(n)
  BY <1>1 DEF Held
<1>5. /\ \A p \in Nodes : Lists(p)' <=> Lists(p)
      /\ \A p \in Nodes : Wants(p)' <=> Wants(p) \/ p = n
  BY <1>1, <1>2, <1>3, <1>4 DEF Lists, Wants
<1>6. \A p \in Nodes : peers[p].since[New] \in Nat
  BY DEF Types, Peer
<1>7. Clocked'
  <2> SUFFICES ASSUME NEW p \in Nodes, Wants(p)' PROVE peers'[p].since[New] <= clock'
    BY DEF Clocked
  <2>1. clock \in Nat /\ clock' \in Nat /\ clock <= clock'
    BY <1>2 DEF Types
  <2>2. CASE Wants(p)
    <3>1. peers[p].since[New] <= clock /\ peers[p].since[New] \in Nat
      BY <2>2, <1>6 DEF Clocked
    <3>2. peers'[p].since[New] = peers[p].since[New]
      BY <2>2, <1>2, <1>3
    <3> QED  BY <2>1, <3>1, <3>2
  <2>3. CASE ~Wants(p)
    <3>1. p = n
      BY <2>3, <1>5
    <3> QED  BY <2>1, <2>3, <3>1, <1>2, <1>3
  <2> QED  BY <2>2, <2>3
<1>8. Named' \subseteq Named \cup (IF lead = n THEN {n} ELSE {})
  BY DEF Ask, AskFails, Answer, Named, Goto, Types
<1> HIDE DEF table
<1>9. CASE Seeded
  <2>1. PICK s \in Nodes : Lists(s)
    BY <1>9 DEF Seeded
  <2>2. s \in Seeders(table, n, {New})
    BY <2>1, <1>3, <1>4 DEF Seeders, Lists
  <2>3. lead # n
    BY <2>2 DEF Leader
  <2>4. Named' \subseteq Named
    BY <1>8, <2>3
  <2>5. IsFiniteSet(Named') /\ Cardinality(Named') <= 1 + restarts'
    <3>1. IsFiniteSet(Named) /\ Cardinality(Named) \in Nat /\ Cardinality(Named) <= 1 + restarts
      BY AtMost
    <3>2. /\ IsFiniteSet(Named') /\ Cardinality(Named') \in Nat
          /\ Cardinality(Named') <= Cardinality(Named)
      BY <2>4, <3>1, Shrinking
    <3> QED  BY <1>2, <3>1, <3>2 DEF Types
  <2>6. Seeded'
    BY <2>1, <1>5 DEF Seeded
  <2> QED  BY <1>7, <2>5, <2>6 DEF Life
<1>10. CASE ~Seeded
  <2>1. Seeders(table, n, {New}) = {}
    BY <1>10, <1>3 DEF Seeders, Seeded, Lists
  <2>2. \A p \in Nodes : New \in table[p].wanted \ table[p].seeding <=> Wants(p) \/ p = n
    BY <1>2, <1>5, <1>10 DEF Seeded, Wants, Lists
  <2>3. PICK x \in Nodes : /\ Wants(x) \/ x = n
                           /\ \A q \in Nodes \ {x} :
                                Wants(q) \/ q = n => table[x].since[New] < table[q].since[New]
                           /\ Cardinality(Named \cup {x}) <= 1 + restarts
    <3>1. CASE Nobody /\ Cardinality(Named) <= restarts
      <4>1. Cardinality(Named \cup {n}) <= 1 + restarts
        <5>1. IsFiniteSet(Named) /\ restarts \in Nat
          BY DEF Life, Types
        <5>2. /\ Cardinality(Named) \in Nat /\ Cardinality(Named \cup {n}) \in Nat
              /\ Cardinality(Named \cup {n}) <= 1 + Cardinality(Named)
          BY <5>1, Adding
        <5> QED  BY <3>1, <5>1, <5>2
      <4> QED  BY <3>1, <4>1 DEF Nobody
    <3>2. ASSUME NEW x \in Nodes, Led(x), Cardinality(Named \cup {x}) <= 1 + restarts
          PROVE  \A q \in Nodes \ {x} :
                   Wants(q) \/ q = n => table[x].since[New] < table[q].since[New]
      <4> SUFFICES ASSUME NEW q \in Nodes \ {x}, Wants(q) \/ q = n
                   PROVE  table[x].since[New] < table[q].since[New]
        OBVIOUS
      <4>1. /\ Wants(x) /\ peers[x].since[New] \in Nat /\ clock \in Nat
            /\ peers[x].since[New] <= clock
        BY <3>2, <1>6 DEF Led, First, Clocked, Types
      <4>2. table[x].since[New] = peers[x].since[New]
        BY <4>1, <1>3
      <4>3. CASE Wants(q)
        <5>1. table[q].since[New] = peers[q].since[New]
          BY <4>3, <1>3
        <5> QED  BY <3>2, <4>2, <4>3, <5>1 DEF Led, First
      <4>4. CASE ~Wants(q)
        <5>1. table[q].since[New] = clock + 1
          BY <4>4, <1>3
        <5> QED  BY <4>1, <4>2, <5>1
      <4> QED  BY <4>3, <4>4
    <3> QED  BY <3>1, <3>2, <1>10 DEF Life, Led, First
  <2>4. \A p \in Nodes : table[p].since[New] \in Nat
    <3>1. clock + 1 \in Nat
      BY DEF Types
    <3> QED  BY <3>1, <1>3, <1>6
  <2>5. lead = x
    <3> DEFINE wanting == {p \in Nodes : New \in table[p].wanted \ table[p].seeding}
    <3>1. (CHOOSE h \in {New} : TRUE) = New
      OBVIOUS
    <3>2. x \in wanting /\ \A q \in wanting : table[x].since[New] <= table[q].since[New]
      <4>1. \A q \in Nodes : Wants(q) \/ q = n =>
              q = x \/ table[x].since[New] < table[q].since[New]
        BY <2>3
      <4> QED  BY <2>2, <2>3, <2>4, <4>1
    <3>3. \A p \in wanting :
            (\A q \in wanting : table[p].since[New] <= table[q].since[New]) => p = x
      <4> SUFFICES ASSUME NEW p \in wanting,
                          \A q \in wanting : table[p].since[New] <= table[q].since[New], p # x
                   PROVE  FALSE
        OBVIOUS
      <4>1. table[x].since[New] < table[p].since[New]
        BY <2>2, <2>3
      <4>2. table[p].since[New] <= table[x].since[New]
        BY <3>2
      <4> QED  BY <4>1, <4>2, <2>4
    <3>4. lead = CHOOSE p \in wanting :
                   \A q \in wanting : table[p].since[New] <= table[q].since[New]
      BY <2>1, <3>1, <3>2 DEF Leader
    <3> HIDE DEF wanting, lead, table
    <3> QED  BY <3>2, <3>3, <3>4
  <2>6. Named' \cup {x} \subseteq Named \cup {x}
    BY <1>8, <2>5
  <2>7. IsFiniteSet(Named \cup {x})
    BY Adding DEF Life
  <2>8. IsFiniteSet(Named') /\ IsFiniteSet(Named' \cup {x})
    <3>1. Named' \subseteq Named \cup {x}
      BY <2>6
    <3> QED  BY <2>6, <2>7, <3>1, Shrinking
  <2>9. Cardinality(Named' \cup {x}) <= 1 + restarts'
    <3>1. /\ Cardinality(Named' \cup {x}) <= Cardinality(Named \cup {x})
          /\ Cardinality(Named' \cup {x}) \in Nat /\ Cardinality(Named \cup {x}) \in Nat
      BY <2>6, <2>7, Shrinking
    <3> QED  BY <1>2, <2>3, <3>1 DEF Types
  <2>10. Led(x)'
    BY <1>2, <1>5, <1>10, <2>3 DEF Led, First, Seeded
  <2> QED  BY <1>7, <2>8, <2>9, <2>10 DEF Life
<1> QED  BY <1>9, <1>10

\* on_swapped announces: the node is listed from now on.
LEMMA TellLife ==
  ASSUME Types, Held, Life, Clocked, NEW n \in Nodes, Tell(n)
  PROVE  Life' /\ Clocked'
<1> USE Constants
<1>1. Seeds(n) = {New}
  BY DEF Tell, Held, Seeds
<1>2. peers' = Announced(n, {New}, {}) /\ clock' = clock /\ restarts' = restarts
  BY <1>1 DEF Tell, Announce, bounds
<1>3. Seeded'
  BY <1>2, Table DEF Seeded, Lists
<1>4. Clocked'
  BY <1>2, Table DEF Clocked, Wants
<1>5. Named' \subseteq Named
  BY DEF Tell, Goto, Named, Types
<1>6. IsFiniteSet(Named') /\ Cardinality(Named') <= 1 + restarts'
  <2>1. IsFiniteSet(Named) /\ Cardinality(Named) \in Nat /\ Cardinality(Named) <= 1 + restarts
    BY AtMost
  <2>2. /\ IsFiniteSet(Named') /\ Cardinality(Named') \in Nat
        /\ Cardinality(Named') <= Cardinality(Named)
    BY <1>5, <2>1, Shrinking
  <2> QED  BY <1>2, <2>1, <2>2 DEF Types
<1> QED  BY <1>3, <1>4, <1>6 DEF Life

\* The table is lost: the next life may name one more.
LEMMA RestartLife ==
  ASSUME Types, Life, Restart
  PROVE  Life' /\ Clocked'
<1>1. Named' = Named
  BY DEF Restart, nodeVars, Named
<1>2. \A n \in Nodes : ~Wants(n)' /\ ~Lists(n)'
  BY DEF Restart, TrackerRestart, Unknown, Wants, Lists
<1>3. IsFiniteSet(Named) /\ Cardinality(Named) <= 1 + restarts
  BY AtMost
<1>4. restarts' = 1 + restarts
  BY DEF Restart, Types
<1>5. Nobody' /\ Clocked'
  BY <1>2 DEF Nobody, Clocked
<1> QED  BY <1>1, <1>3, <1>4, <1>5 DEF Life

\* fetch() goes to the origin as leader only on an answer that names it.
LEMMA QuietNamed ==
  ASSUME Types, NEW n \in Nodes, StepOf(n), ~Ask(n), ~Tell(n),
         AskFails(n) => UNCHANGED trackerVars
  PROVE  Named' \subseteq Named /\ UNCHANGED <<trackerVars, restarts>>
<1> USE Constants DEF Types, trackerVars, bounds, Goto, NextFile, Named
<1>1. CASE Notice(n) BY <1>1 DEF Notice
<1>2. CASE \E s \in Nodes, f \in Files : Leech(n, s, f) BY <1>2 DEF Leech
<1>3. CASE NoSeeder(n) BY <1>3 DEF NoSeeder, Settles
<1>4. CASE \E f \in Files : Download(n, f) BY <1>4 DEF Download
<1>5. CASE Swap(n) BY <1>5 DEF Swap
<1>6. CASE AskFails(n) BY <1>6 DEF AskFails
<1>7. CASE DialFails(n) BY <1>7 DEF DialFails, Settles
<1>8. CASE UpdateFails(n) BY <1>8 DEF UpdateFails
<1>9. CASE TellFails(n) BY <1>9 DEF TellFails
<1>10. CASE Leave(n) BY <1>10 DEF Leave
<1>11. CASE Expire(n) BY <1>11 DEF Expire
<1>12. CASE Return(n) BY <1>12 DEF Return
<1> QED  BY <1>1, <1>2, <1>3, <1>4, <1>5, <1>6, <1>7, <1>8, <1>9, <1>10, <1>11, <1>12
         DEF StepOf, NodeStep, Mishap

LEMMA StepLife ==
  ASSUME Types, Held, Life, Clocked, [Next]_vars
  PROVE  Life' /\ Clocked'
<1>1. ASSUME NEW n \in Nodes, StepOf(n) PROVE Life' /\ Clocked'
  <2>1. Ask(n) \/ AskFails(n) => pc[n] = "ask"
    BY DEF Ask, AskFails
  <2>2. Ask(n) => Announce(n, Seeds(n), {New})
    BY DEF Ask
  <2>3. AskFails(n) => UNCHANGED trackerVars \/ Announce(n, Seeds(n), {New})
    BY DEF AskFails, MayArrive
  <2>4. CASE Announce(n, Seeds(n), {New}) /\ (Ask(n) \/ AskFails(n))
    BY <2>1, <2>4, AskLife
  <2>5. CASE Tell(n)
    BY <2>5, TellLife
  <2>6. CASE ~Ask(n) /\ ~Tell(n) /\ (AskFails(n) => UNCHANGED trackerVars)
    BY <1>1, <2>6, QuietNamed, QuietLife
  <2> QED  BY <2>2, <2>3, <2>4, <2>5, <2>6
<1>2. CASE Restart
  BY <1>2, RestartLife
<1>3. CASE UNCHANGED vars
  <2>1. Named' \subseteq Named /\ UNCHANGED <<trackerVars, restarts>>
    BY <1>3 DEF vars, Named, trackerVars
  <2> QED  BY <2>1, QuietLife
<1> QED  BY <1>1, <1>2, <1>3 DEF Next, StepOf

LEMMA InitLife == Init => Life /\ Clocked
<1> SUFFICES ASSUME Init PROVE Life /\ Clocked
  OBVIOUS
<1>1. Named = {}
  BY DEF Init, Named
<1>2. Nobody /\ Clocked /\ restarts = 0
  BY DEF Init, TrackerInit, Unknown, Nobody, Clocked, Wants, Lists
<1> QED  BY <1>1, <1>2, FS_EmptySet DEF Life

\* However many nodes update at once and whatever fails, the origin serves one
\* node, one more for each restart of the tracker, and those that went there
\* without being named (announce and its leader, fetch and its exceptions).
THEOREM PayersExplained == Spec => []OriginPayersExplained
<1>1. Types /\ Held /\ Life /\ Clocked /\ [Next]_vars => Types' /\ Held' /\ Life' /\ Clocked'
  BY StepTypes, StepHeld, StepLife
<1>2. Types /\ Life => OriginPayersExplained
  <2> SUFFICES ASSUME Types, Life PROVE Cardinality(paid \ excused) <= 1 + restarts
    BY DEF OriginPayersExplained
  <2>1. paid \ excused \in SUBSET Named
    BY DEF Named, Types
  <2>2. IsFiniteSet(Named) /\ Cardinality(Named) \in Nat /\ Cardinality(Named) <= 1 + restarts
    BY AtMost
  <2>3. Cardinality(paid \ excused) \in Nat /\ Cardinality(paid \ excused) <= Cardinality(Named)
    BY <2>1, <2>2, Shrinking
  <2> QED  BY <2>2, <2>3 DEF Types
<1> QED  BY InitTypes, InitHeld, InitLife, <1>1, <1>2, PTL DEF Spec
=============================================================================
