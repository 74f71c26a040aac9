------------------------- MODULE FileTransferProofs -------------------------
(***************************************************************************)
(* Proofs about FileTransfer, for every number of chunks, every set of     *)
(* seeders and every value of the bounds.                                  *)
(***************************************************************************)
EXTENDS FileTransfer, TLAPS

\* FileTransferAssumption, and what every proof below unfolds.
LEMMA Constants ==
  /\ N \in Nat \ {0} /\ Addresses \in Nat \ {0} /\ Retries \in Nat \ {0} /\ MaxFaults \in Nat
  /\ None \notin Seeders
  /\ Chunks = 1 .. N
BY FileTransferAssumption DEF FileTransferAssumption, Chunks

-----------------------------------------------------------------------------
(***************************************************************************)
(* Type correctness.                                                       *)
(*                                                                         *)
(* TypeOK is not inductive: that the address counter of a dial and the     *)
(* index of a request stay in bounds needs to know what the counters are   *)
(* at the stages before (Staged).                                          *)
(***************************************************************************)
Staged ==
  /\ stage \in {"idle", "rounds", "origin", "stream", "ready"} => peer = None
  /\ stage \in {"hello", "leech", "asked", "check"} => peer \in Seeders
  /\ peer = None => tries = 0
  /\ stage \notin {"leech", "asked", "check"} => idx = 1
  /\ stage \in {"asked"} => idx <= N /\ tries >= 1
  /\ wire \in {"want", "have", "nack"} => stage = "hello"
  /\ wire \in {"ask", "good", "bad", "damaged"} => stage = "asked"

LEMMA StagedInit == Init => TypeOK /\ Staged
<1> SUFFICES ASSUME Init PROVE TypeOK /\ Staged
  OBVIOUS
<1> USE Constants
<1>1. pinned \in BOOLEAN /\ exists \in BOOLEAN /\ cutCommit \in BOOLEAN
  BY Zenon DEF Init
<1>2. TypeOK
  BY <1>1 DEF Init, TypeOK, Blank, NoIds, Ids, Bytes, Stage, Frames
<1>3. Staged
  BY DEF Init, Staged
<1> QED BY <1>2, <1>3

\* Seeders, the tracker and the peers' stream.
LEMMA StagedPeers ==
  ASSUME TypeOK, Staged, Peers PROVE TypeOK' /\ Staged'
<1> USE Constants DEF TypeOK, Staged, seederVars, diskVars, peerVars, leechVars, ghosts,
                      Stage, Frames, StreamClosed, Ids, Bytes, NoIds
<1>1. ASSUME NEW s \in Seeders, PickPeer(s) PROVE TypeOK' /\ Staged'
  BY <1>1 DEF PickPeer
<1>2. CASE Dial BY <1>2 DEF Dial
<1>3. CASE DialFails BY <1>3 DEF DialFails
<1>4. CASE RoundOver BY <1>4 DEF RoundOver
<1>5. CASE Broken BY <1>5 DEF Broken
<1>6. CASE ServeHello BY <1>6 DEF ServeHello
<1>7. CASE ServeChunk
  <2>1. copy[peer][idx] \in {"good", "bad"} BY <1>7 DEF ServeChunk
  <2> QED BY <1>7, <2>1 DEF ServeChunk
<1>8. CASE Have
  <2>1. pinned' \in BOOLEAN /\ exists' \in BOOLEAN /\ cutCommit' \in BOOLEAN
    BY <1>8, Zenon DEF Have
  <2> QED BY <1>8, <2>1 DEF Have, Blank
<1>9. CASE Nack BY <1>9 DEF Nack
<1>10. CASE Skip BY <1>10 DEF Skip
<1>11. CASE Ask BY <1>11 DEF Ask
<1>12. CASE Land BY <1>12 DEF Land
<1>13. CASE AskAgain BY <1>13 DEF AskAgain
<1>14. CASE ChunkFails BY <1>14 DEF ChunkFails
<1>15. CASE AllLanded BY <1>15 DEF AllLanded
<1>16. CASE Leeched BY <1>16 DEF Leeched
<1>17. CASE Mismatch BY <1>17 DEF Mismatch
<1> QED
  BY <1>1, <1>2, <1>3, <1>4, <1>5, <1>6, <1>7, <1>8, <1>9, <1>10, <1>11, <1>12, <1>13,
     <1>14, <1>15, <1>16, <1>17 DEF Peers

\* ensure_model and the origin.
LEMMA StagedOrigin ==
  ASSUME TypeOK, Staged,
         Begin \/ (\E seeders \in SUBSET Seeders : Announced(seeders)) \/ GoToOrigin \/ Origin
  PROVE  TypeOK' /\ Staged'
<1> USE Constants DEF TypeOK, Staged, seederVars, diskVars, peerVars, leechVars, ghosts,
                      Stage, Frames, Ids, Bytes
<1>1. CASE Begin BY <1>1 DEF Begin
<1>2. ASSUME NEW seeders \in SUBSET Seeders, Announced(seeders) PROVE TypeOK' /\ Staged'
  BY <1>2 DEF Announced
<1>3. CASE GoToOrigin BY <1>3 DEF GoToOrigin
<1>4. CASE OriginSendsAll BY <1>4 DEF OriginSendsAll
<1>5. CASE OriginResumes BY <1>5 DEF OriginResumes
<1>6. CASE OriginRefuses BY <1>6 DEF OriginRefuses
<1>7. CASE OriginBytes BY <1>7 DEF OriginBytes
<1>8. CASE Commit
  <2>1. pinned' \in BOOLEAN /\ exists' \in BOOLEAN /\ cutCommit' \in BOOLEAN
    BY <1>8, Zenon DEF Commit
  <2>2. part \in [Chunks -> {"good", "rot"}]
    BY <1>8 DEF Commit
  <2>3. stage' \in {"idle", "ready"} /\ (dest' = dest \/ dest' = part) /\ part' = <<>>
    BY <1>8 DEF Commit
  <2>4. dest' \in [Chunks -> Bytes] /\ part' \in Seq({"good", "rot"}) /\ Len(part') <= N
    BY <2>2, <2>3
  <2>5. UNCHANGED <<copy, holds, sidecar, todo, peer, tries, idx, progress, unflushed, wire,
                    faults>>
    BY <1>8 DEF Commit
  <2>6. stage = "stream"
    BY <1>8 DEF Commit
  <2> QED BY <2>1, <2>3, <2>4, <2>5, <2>6
<1> QED BY <1>1, <1>2, <1>3, <1>4, <1>5, <1>6, <1>7, <1>8 DEF Origin

LEMMA StagedFaults ==
  ASSUME TypeOK, Staged, Faults PROVE TypeOK' /\ Staged'
<1> USE Constants DEF TypeOK, Staged, Fault, seederVars, diskVars, peerVars, leechVars, ghosts,
                      Stage, Frames, Ids, Bytes, NoIds
<1>1. CASE Damaged BY <1>1 DEF Damaged
<1>2. CASE Crash
  <2>1. pinned' \in BOOLEAN /\ exists' \in BOOLEAN /\ cutCommit' \in BOOLEAN
    BY <1>2 DEF Crash
  <2>2. dest' \in [Chunks -> Bytes] /\ sidecar' \in Ids
    BY <1>2 DEF Crash
  <2> QED BY <1>2, <2>1, <2>2 DEF Crash, StreamClosed
<1>3. CASE OriginFails BY <1>3 DEF OriginFails
<1>4. ASSUME NEW count \in 1 .. 3, Sweep(count) PROVE TypeOK' /\ Staged'
  <2>1. pinned' \in BOOLEAN /\ exists' \in BOOLEAN /\ cutCommit' \in BOOLEAN
    BY <1>4, Zenon DEF Sweep
  <2> QED BY <1>4, <2>1 DEF Sweep, Blank
<1>5. ASSUME NEW c \in Chunks, Decay(c) PROVE TypeOK' /\ Staged'
  <2>1. dest' \in [Chunks -> Bytes]
    BY <1>5 DEF Decay
  <2>2. part' \in Seq({"good", "rot"}) /\ Len(part') <= N
    <3>1. c <= Len(part) => /\ [part EXCEPT ![c] = "rot"] \in Seq({"good", "rot"})
                            /\ Len([part EXCEPT ![c] = "rot"]) = Len(part)
      OBVIOUS
    <3> QED BY <1>5, <3>1 DEF Decay
  <2> QED BY <1>5, <2>1, <2>2 DEF Decay
<1>6. ASSUME NEW s \in Seeders, NEW c \in Chunks, SeederDecays(s, c) PROVE TypeOK' /\ Staged'
  BY <1>6 DEF SeederDecays
<1>7. ASSUME NEW s \in Seeders, SeederMovesOn(s) PROVE TypeOK' /\ Staged'
  BY <1>7 DEF SeederMovesOn
<1>8. CASE OriginDamaged
  <2>1. part' \in Seq({"good", "rot"}) /\ Len(part') <= N
    BY <1>8 DEF OriginDamaged
  <2> QED BY <1>8, <2>1 DEF OriginDamaged
<1> QED BY <1>1, <1>2, <1>3, <1>4, <1>5, <1>6, <1>7, <1>8 DEF Faults

LEMMA StagedStep ==
  ASSUME TypeOK, Staged, [Next]_vars PROVE TypeOK' /\ Staged'
<1>1. CASE UNCHANGED vars
  BY <1>1 DEF vars, TypeOK, Staged, seederVars, diskVars, peerVars, leechVars, ghosts
<1>2. CASE Next
  BY <1>1, <1>2, StagedPeers, StagedOrigin, StagedFaults DEF Next, Ready
<1> QED BY <1>1, <1>2

\* Every reachable state of a transfer is well typed.
THEOREM TypeCorrect == Spec => [](TypeOK /\ Staged)
<1>1. TypeOK /\ Staged /\ [Next]_vars => TypeOK' /\ Staged'
  BY StagedStep
<1> QED BY <1>1, StagedInit, PTL DEF Spec
-----------------------------------------------------------------------------
(***************************************************************************)
(* What a transfer from peers leaves on the disk.                          *)
(*                                                                         *)
(* LeechedIsServed says something of the last stage only.  Inductive is    *)
(* that behind the index every chunk on the disk is what the progress says *)
(* (Behind), and that a bad chunk named by the progress, the sidecar or    *)
(* the wire is one a seeder's copy has (Named): copies only get worse.     *)
(***************************************************************************)
Decayed(c) == \E s \in Seeders : copy[s][c] = "bad"

Behind ==
  stage \in {"leech", "asked", "check"} =>
    \A c \in Chunks : c < idx => progress[c] # "none" /\ dest[c] = progress[c]

Named ==
  /\ \A c \in Chunks : progress[c] = "bad" \/ sidecar[c] = "bad" => Decayed(c)
  /\ wire = "bad" => Decayed(idx)

LInv == Behind /\ Named /\ (stage = "check" => idx = N + 1)

\* Copies only decay.
LEMMA DecayedStays ==
  ASSUME TypeOK, [Next]_vars, NEW c \in Chunks, Decayed(c) PROVE Decayed(c)'
<1>1. CASE UNCHANGED copy
  BY <1>1 DEF Decayed
<1>2. ASSUME NEW s \in Seeders, NEW d \in Chunks, SeederDecays(s, d) PROVE Decayed(c)'
  BY <1>2 DEF SeederDecays, Decayed, TypeOK
<1>3. CASE ~UNCHANGED copy
  <2>1. \E s \in Seeders, d \in Chunks : SeederDecays(s, d)
    BY <1>3 DEF Next, vars, seederVars, Begin, Announced, GoToOrigin, Peers, Origin, Faults,
       Ready, PickPeer, Dial, DialFails, RoundOver, Broken, ServeHello, ServeChunk, Have,
       Nack, Skip, Ask, Land, AskAgain, ChunkFails, AllLanded, Leeched, Mismatch,
       OriginSendsAll, OriginResumes, OriginRefuses, OriginBytes, Commit, Damaged, Crash,
       OriginFails, OriginDamaged, Sweep, Decay, SeederMovesOn
  <2> QED BY <1>2, <2>1
<1> QED BY <1>1, <1>3

\* What the progress, the sidecar and the wire name next was named before, or
\* is what a copy of a seeder holds now.
LEMMA NamedStep ==
  ASSUME TypeOK, Staged, LInv, [Next]_vars PROVE Named'
<1> USE Constants
<1>1. CASE wire = "ask" /\ ServeChunk
  <2>1. /\ UNCHANGED <<copy, progress, sidecar, idx>> /\ wire' = copy[peer][idx]
        /\ peer \in Seeders
    BY <1>1 DEF ServeChunk, Staged, seederVars, diskVars
  <2> QED BY <2>1 DEF Named, LInv, Decayed
<1>2. CASE Land
  <2>1. /\ wire \in {"good", "bad"} /\ idx \in Chunks /\ UNCHANGED copy /\ wire' = "none"
        /\ progress' = [progress EXCEPT ![idx] = wire] /\ sidecar' = progress'
        /\ progress \in [Chunks -> {"none", "good", "bad"}]
    BY <1>2 DEF Land, TypeOK, Staged, Ids, seederVars
  <2> QED BY <2>1 DEF Named, LInv, Decayed
<1>3. CASE Have
  <2>1. /\ progress' \in {sidecar, NoIds} /\ UNCHANGED <<copy, sidecar>> /\ wire' = "none"
    BY <1>3 DEF Have, seederVars
  <2> QED BY <2>1 DEF Named, LInv, Decayed, NoIds
<1>4. CASE ~ServeChunk /\ ~Land /\ ~Have
  <2>1. \A c \in Chunks : /\ progress'[c] = "bad" => progress[c] = "bad"
                          /\ sidecar'[c] = "bad" => sidecar[c] = "bad"
    BY <1>4 DEF Next, vars, leechVars, diskVars, Begin, Announced, GoToOrigin, Peers, Origin,
       Faults, Ready, PickPeer, Dial, DialFails, RoundOver, Broken, ServeHello, Nack, Skip,
       Ask, AskAgain, ChunkFails, AllLanded, Leeched, Mismatch, OriginSendsAll,
       OriginResumes, OriginRefuses, OriginBytes, Commit, Damaged, Crash, OriginFails,
       OriginDamaged, Sweep, Decay, SeederDecays, SeederMovesOn, StreamClosed, NoIds, TypeOK, Ids,
       Staged
  <2>2. wire' = "bad" => wire = "bad" /\ idx' = idx /\ idx \in Chunks
    BY <1>4 DEF Next, vars, leechVars, diskVars, Begin, Announced, GoToOrigin, Peers, Origin,
       Faults, Ready, PickPeer, Dial, DialFails, RoundOver, Broken, ServeHello, Nack, Skip,
       Ask, AskAgain, ChunkFails, AllLanded, Leeched, Mismatch, OriginSendsAll,
       OriginResumes, OriginRefuses, OriginBytes, Commit, Damaged, Crash, OriginFails,
       OriginDamaged, Sweep, Decay, SeederDecays, SeederMovesOn, StreamClosed, Staged, TypeOK
  <2>3. \A c \in Chunks : progress'[c] = "bad" \/ sidecar'[c] = "bad" => Decayed(c)'
    BY <2>1, DecayedStays DEF LInv, Named
  <2>4. wire' = "bad" => Decayed(idx)'
    <3> SUFFICES ASSUME wire' = "bad" PROVE Decayed(idx)'
      OBVIOUS
    <3>1. wire = "bad" /\ idx' = idx /\ idx \in Chunks
      BY <2>2
    <3>2. Decayed(idx)
      BY <3>1 DEF LInv, Named
    <3>3. \A c \in Chunks : Decayed(c) => Decayed(c)'
      BY DecayedStays
    <3> QED BY <3>1, <3>2, <3>3 DEF Decayed
  <2> QED BY <2>3, <2>4 DEF Named
<1> QED BY <1>1, <1>2, <1>3, <1>4 DEF ServeChunk

\* The index moves past a chunk that was found intact or has just landed.
LEMMA BehindStep ==
  ASSUME TypeOK, Staged, LInv, [Next]_vars
  PROVE  Behind' /\ (stage' = "check" => idx' = N + 1)
<1> USE Constants DEF LInv, Behind
<1>1. CASE Have
  BY <1>1 DEF Have, Staged, TypeOK
<1>2. CASE Skip
  BY <1>2 DEF Skip, Intact, TypeOK, diskVars
<1>3. CASE Ask
  BY <1>3 DEF Ask, TypeOK, Ids, diskVars
<1>4. CASE Land
  BY <1>4 DEF Land, TypeOK, Ids, Staged
<1>5. CASE AllLanded
  BY <1>5 DEF AllLanded, diskVars, TypeOK
<1>6. CASE ~Have /\ ~Skip /\ ~Ask /\ ~Land /\ ~AllLanded
  <2> DEFINE Goal == \/ stage' \notin {"leech", "asked", "check"}
                     \/ UNCHANGED <<stage, idx, progress, dest>>
  <2>1. ASSUME Peers PROVE Goal
    BY <1>6, <2>1 DEF Peers, leechVars, diskVars, PickPeer, Dial, DialFails, RoundOver, Broken,
       ServeHello, ServeChunk, Nack, AskAgain, ChunkFails, Leeched, Mismatch
  <2>2. ASSUME Origin \/ Begin \/ GoToOrigin
               \/ (\E seeders \in SUBSET Seeders : Announced(seeders))
        PROVE  Goal
    BY <2>2 DEF Origin, Begin, GoToOrigin, Announced, OriginSendsAll, OriginResumes,
       OriginRefuses, OriginBytes, Commit
  <2>3. ASSUME Faults PROVE Goal
    BY <2>3 DEF Faults, leechVars, diskVars, Damaged, Crash, OriginFails, OriginDamaged, Sweep,
       Decay,
       SeederDecays, SeederMovesOn
  <2>4. ASSUME Ready \/ UNCHANGED vars PROVE Goal
    BY <2>4 DEF Ready, vars, leechVars, diskVars
  <2>5. Goal
    BY <2>1, <2>2, <2>3, <2>4 DEF Next
  <2> QED BY <2>5
<1> QED BY <1>1, <1>2, <1>3, <1>4, <1>5, <1>6

\* A file taken over from peers holds what seeders served and nothing else,
\* whatever is resumed, torn, decayed or damaged on the way.
THEOREM Leeches == Spec => []LeechedIsServed
<1>1. Init => LInv
  BY DEF Init, LInv, Behind, Named, NoIds
<1>2. TypeOK /\ Staged /\ LInv /\ [Next]_vars => LInv'
  BY NamedStep, BehindStep DEF LInv
<1>3. TypeOK /\ LInv => LeechedIsServed
  BY Constants DEF TypeOK, LInv, Behind, Named, LeechedIsServed, Decayed, Ids
<1> QED BY <1>1, <1>2, <1>3, TypeCorrect, PTL DEF Spec

\* A pinned file is returned only as it was published, by whichever of the
\* three ways ensure_model took.
THEOREM Pinned == Spec => PinnedReadyIsGood
<1>1. [Next]_vars
        => [stage # "ready" /\ stage' = "ready" /\ pinned'
              => \A c \in Chunks : dest'[c] = "good"]_vars
  <2> SUFFICES ASSUME Next, stage # "ready", stage' = "ready", pinned'
               PROVE  \A c \in Chunks : dest'[c] = "good"
    OBVIOUS
  <2>1. Begin \/ Leeched \/ Commit
    BY DEF Next, Ready, Announced, GoToOrigin, Peers, Origin, Faults, PickPeer, Dial,
       DialFails, RoundOver, Broken, ServeHello, ServeChunk, Have, Nack, Skip, Ask, Land,
       AskAgain, ChunkFails, AllLanded, Mismatch, OriginSendsAll, OriginResumes,
       OriginRefuses, OriginBytes, Damaged, Crash, OriginFails, OriginDamaged, Sweep,
       Decay,
       SeederDecays, SeederMovesOn
  <2>2. pinned
    BY <2>1 DEF Begin, Leeched, Commit
  <2> QED BY <2>1, <2>2 DEF Begin, Leeched, Commit, Verified, diskVars
<1> QED BY <1>1, PTL DEF Spec, PinnedReadyIsGood
=============================================================================
