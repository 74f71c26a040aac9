---------------------------- MODULE FileTransfer ----------------------------
(***************************************************************************)
(* One model file reaching one node: ensure_model asks the swarm first     *)
(* (PeerSwarm.fetch and leech_file over a QUIC stream) and the origin      *)
(* after it (_download_hf_file).  Changeover takes a file as present or    *)
(* not; this module is what happens in between, chunk by chunk, with the   *)
(* partial file, its sidecar and the .part file surviving a crash.         *)
(*                                                                         *)
(* The contents of a chunk are "good" (what the publisher released),       *)
(* "bad" (a seeder's copy decayed on its disk; its chunk id is computed    *)
(* from those same bytes, so it matches), "rot" (decayed, or torn by a     *)
(* crash, on this node's disk, or sent wrong by the origin) or "hole"      *)
(* (preallocated, never written).                                          *)
(* A chunk id identifies the contents, so the sidecar keeps contents.      *)
(*                                                                         *)
(* Leecher and seeder take turns on their stream, so one frame at most is  *)
(* under way: `wire`.                                                      *)
(***************************************************************************)
EXTENDS Naturals, Sequences, FiniteSets

CONSTANTS
  N,          \* num_chunks_for(size_bytes, chunk_bytes)
  Seeders,    \* peers the tracker may name
  None,       \* no peer
  Addresses,  \* how many addresses a peer announces
  Retries,    \* max_retries_per_chunk
  MaxFaults   \* bound: crashes, decayed chunks, damaged frames, origin errors

ASSUME FileTransferAssumption ==
  /\ N \in Nat \ {0} /\ Addresses \in Nat \ {0} /\ Retries \in Nat \ {0}
  /\ MaxFaults \in Nat
  /\ None \notin Seeders

VARIABLES
  pinned,    \* the manifest states the file's hash, not a PENDING placeholder
  copy,      \* the file of each seeder                       (on its disk)
  holds,     \* seeders with the file in their seed_index
  exists,    \* the destination file exists                   (on disk)
  dest,      \* its chunks                                    (on disk)
  sidecar,   \* <dest>.mcprogress.json: ids by chunk          (on disk)
  part,      \* <dest>.part                                   (on disk)
  stage,     \* where ensure_model is
  todo,      \* seeders of the last announce not tried yet
  peer,      \* the seeder being tried
  tries,     \* addresses tried of it, or requests made for the chunk
  idx,       \* the chunk leech_file is at
  progress,  \* leech_file's progress                         (in memory)
  unflushed, \* the chunk whose tail is still in the write buffer, or 0
  wire,      \* the frame under way
  faults,    \* faults so far
  cutCommit  \* history: a crash fell between the last byte and the rename

seederVars == <<copy, holds>>
diskVars   == <<exists, dest, sidecar, part>>
peerVars   == <<todo, peer, tries>>
leechVars  == <<idx, progress, unflushed, wire>>
ghosts     == <<faults, cutCommit>>
vars == <<pinned, seederVars, diskVars, stage, peerVars, leechVars, ghosts>>

Chunks == 1 .. N
Bytes  == {"good", "bad", "rot", "hole"}
Blank  == [c \in Chunks |-> "hole"]
NoIds  == [c \in Chunks |-> "none"]
Ids    == [Chunks -> {"none", "good", "bad"}]

\* "idle": no ensure_model running; "rounds": PeerSwarm.fetch, between two
\* announces; "dial", "hello", "leech" (at a chunk), "asked" (for a chunk),
\* "check" (all chunks landed), "origin" (request sent), "stream", "ready".
Stage == {"idle", "rounds", "dial", "hello", "leech", "asked", "check",
          "origin", "stream", "ready"}

Frames == {"none", "want", "have", "nack", "ask", "good", "bad", "damaged"}

TypeOK ==
  /\ pinned \in BOOLEAN
  /\ copy \in [Seeders -> [Chunks -> {"good", "bad"}]]
  /\ holds \subseteq Seeders
  /\ exists \in BOOLEAN
  /\ dest \in [Chunks -> Bytes]
  /\ sidecar \in Ids /\ progress \in Ids
  /\ part \in Seq({"good", "rot"}) /\ Len(part) <= N
  /\ stage \in Stage
  /\ todo \subseteq Seeders /\ peer \in Seeders \cup {None}
  /\ tries \in 0 .. (IF stage = "dial" THEN Addresses - 1 ELSE Retries)
  /\ idx \in 1 .. N + 1
  /\ unflushed \in 0 .. N
  /\ wire \in Frames
  /\ faults \in 0 .. MaxFaults
  /\ cutCommit \in BOOLEAN

Init ==
  /\ pinned \in BOOLEAN
  /\ copy = [s \in Seeders |-> [c \in Chunks |-> "good"]]
  /\ holds = Seeders
  /\ exists = FALSE /\ dest = Blank /\ sidecar = NoIds /\ part = <<>>
  /\ stage = "idle"
  /\ todo = {} /\ peer = None /\ tries = 0
  /\ idx = 1 /\ progress = NoIds /\ unflushed = 0 /\ wire = "none"
  /\ faults = 0 /\ cutCommit = FALSE

Fault == faults < MaxFaults /\ faults' = faults + 1

\* Fault: a file of the right size is taken for the file.
VerifiedBySize == exists

\* _verified: the size is right as soon as the file exists, because it is
\* preallocated; the hash counts when the manifest states one.
Verified == exists /\ (pinned => \A c \in Chunks : dest[c] = "good")

(***************************************************************************)
(* ensure_model and PeerSwarm.fetch.                                       *)
(***************************************************************************)
Begin ==
  /\ stage = "idle"
  /\ stage' = IF Verified THEN "ready" ELSE "rounds"
  /\ UNCHANGED <<pinned, seederVars, diskVars, peerVars, leechVars, ghosts>>

\* The tracker names some seeders.
Announced(seeders) ==
  /\ stage = "rounds"
  /\ seeders # {}
  /\ stage' = "dial"
  /\ todo' = seeders
  /\ UNCHANGED <<pinned, seederVars, diskVars, peer, tries, leechVars, ghosts>>

\* The tracker is out of reach, names this node, or the deadline has passed.
GoToOrigin ==
  /\ stage = "rounds"
  /\ stage' = "origin"
  /\ UNCHANGED <<pinned, seederVars, diskVars, peerVars, leechVars, ghosts>>

\* _try_seeders takes the next peer.
PickPeer(s) ==
  /\ stage = "dial" /\ peer = None /\ s \in todo
  /\ peer' = s
  /\ todo' = todo \ {s}
  /\ UNCHANGED <<pinned, seederVars, diskVars, stage, tries, leechVars, ghosts>>

\* An address does not answer: the next one, or the next peer.
DialFails ==
  /\ stage = "dial" /\ peer # None
  /\ IF tries + 1 < Addresses
     THEN tries' = tries + 1 /\ peer' = peer
     ELSE tries' = 0 /\ peer' = None
  /\ UNCHANGED <<pinned, seederVars, diskVars, stage, todo, leechVars, ghosts>>

\* dial connects, open_stream, and leech_file says which file it wants.
Dial ==
  /\ stage = "dial" /\ peer # None
  /\ stage' = "hello"
  /\ tries' = 0
  /\ wire' = "want"
  /\ UNCHANGED <<pinned, seederVars, diskVars, todo, peer, idx, progress, unflushed, ghosts>>

\* No peer left: fetch polls again or gives up.
RoundOver ==
  /\ stage = "dial" /\ peer = None /\ todo = {}
  /\ stage' = "rounds"
  /\ UNCHANGED <<pinned, seederVars, diskVars, peerVars, leechVars, ghosts>>

\* leech_file raised or returned: its file object is closed (and flushed), the
\* stream is gone.
StreamClosed ==
  /\ peer' = None /\ tries' = 0
  /\ idx' = 1 /\ progress' = NoIds /\ unflushed' = 0 /\ wire' = "none"

\* A timeout, a closed connection or an undecodable frame: on to the next peer.
Broken ==
  /\ stage \in {"hello", "asked"}
  /\ stage' = "dial"
  /\ StreamClosed
  /\ UNCHANGED <<pinned, seederVars, diskVars, todo, ghosts>>

(***************************************************************************)
(* The seeder's side of the stream (_dispatch_stream, serve_chunk_stream,  *)
(* seed_file).                                                             *)
(***************************************************************************)
ServeHello ==
  /\ wire = "want"
  /\ wire' = IF peer \in holds THEN "have" ELSE "nack"
  /\ UNCHANGED <<pinned, seederVars, diskVars, stage, peerVars, idx, progress, unflushed, ghosts>>

\* The bytes at the offset are read from the disk when they are asked for.
ServeChunk ==
  /\ wire = "ask"
  /\ wire' = copy[peer][idx]
  /\ UNCHANGED <<pinned, seederVars, diskVars, stage, peerVars, idx, progress, unflushed, ghosts>>

\* Damage on the way that the frame's 16-bit checksum does not notice.
Damaged ==
  /\ wire \in {"good", "bad"}
  /\ Fault
  /\ wire' = "damaged"
  /\ UNCHANGED <<pinned, seederVars, diskVars, stage, peerVars, idx, progress, unflushed,
                 cutCommit>>

(***************************************************************************)
(* leech_file.                                                             *)
(***************************************************************************)
\* The peer has the file: load the progress, or preallocate and start anew.
Have ==
  /\ stage = "hello" /\ wire = "have"
  /\ stage' = "leech"
  /\ progress' = IF exists THEN sidecar ELSE NoIds
  /\ exists' = TRUE
  /\ dest' = IF exists THEN dest ELSE Blank
  /\ wire' = "none"
  /\ UNCHANGED <<pinned, seederVars, sidecar, part, peerVars, idx, unflushed, ghosts>>

\* PeerLacksFile
Nack ==
  /\ stage = "hello" /\ wire = "nack"
  /\ stage' = "dial"
  /\ StreamClosed
  /\ UNCHANGED <<pinned, seederVars, diskVars, todo, ghosts>>

\* Fault: a recorded chunk is not hashed again.
IntactAsRecorded(c) == progress[c] # "none"

\* verify_chunk of a recorded chunk against what is on the disk.
Intact(c) == progress[c] # "none" /\ dest[c] = progress[c]

Skip ==
  /\ stage = "leech" /\ idx <= N
  /\ Intact(idx)
  /\ idx' = idx + 1
  /\ unflushed' = 0
  /\ UNCHANGED <<pinned, seederVars, diskVars, stage, peerVars, progress, wire, ghosts>>

\* The record, if any, is stale; request the chunk.
Ask ==
  /\ stage = "leech" /\ idx <= N
  /\ ~Intact(idx)
  /\ stage' = "asked"
  /\ progress' = [progress EXCEPT ![idx] = "none"]
  /\ tries' = 1
  /\ wire' = "ask"
  /\ UNCHANGED <<pinned, seederVars, diskVars, todo, peer, idx, unflushed, ghosts>>

\* A chunk that matches its id is written and recorded.
Land ==
  /\ stage = "asked" /\ wire \in {"good", "bad"}
  /\ dest' = [dest EXCEPT ![idx] = wire]
  /\ progress' = [progress EXCEPT ![idx] = wire]
  /\ sidecar' = [progress EXCEPT ![idx] = wire]
  /\ unflushed' = idx
  /\ idx' = idx + 1
  /\ stage' = "leech"
  /\ wire' = "none"
  /\ UNCHANGED <<pinned, seederVars, exists, part, peerVars, ghosts>>

\* One that does not is asked for again, a few times.
AskAgain ==
  /\ stage = "asked" /\ wire = "damaged" /\ tries < Retries
  /\ tries' = tries + 1
  /\ wire' = "ask"
  /\ UNCHANGED <<pinned, seederVars, diskVars, stage, todo, peer, idx, progress, unflushed, ghosts>>

ChunkFails ==
  /\ stage = "asked" /\ wire = "damaged" /\ tries = Retries
  /\ stage' = "dial"
  /\ StreamClosed
  /\ UNCHANGED <<pinned, seederVars, diskVars, todo, ghosts>>

AllLanded ==
  /\ stage = "leech" /\ idx = N + 1
  /\ stage' = "check"
  /\ unflushed' = 0
  /\ UNCHANGED <<pinned, seederVars, diskVars, peerVars, idx, progress, wire, ghosts>>

\* The whole file hashes as the manifest says, or the manifest says nothing:
\* the sidecar goes, and ensure_model verifies the file once more.
Leeched ==
  /\ stage = "check" /\ Verified
  /\ stage' = "ready"
  /\ sidecar' = NoIds
  /\ StreamClosed
  /\ UNCHANGED <<pinned, seederVars, exists, dest, part, todo, ghosts>>

\* ChunkVerifyError: the file and the sidecar stay as they are.
Mismatch ==
  /\ stage = "check" /\ ~Verified
  /\ stage' = "dial"
  /\ StreamClosed
  /\ UNCHANGED <<pinned, seederVars, diskVars, todo, ghosts>>

(***************************************************************************)
(* _download_hf_file.                                                      *)
(***************************************************************************)
\* 206 to a range request: the bytes are appended to what is there.
OriginResumes ==
  /\ stage = "origin"
  /\ 0 < Len(part) /\ Len(part) < N
  /\ stage' = "stream"
  /\ UNCHANGED <<pinned, seederVars, diskVars, peerVars, leechVars, ghosts>>

\* 200, to a plain request or to a range it ignored: start over.
OriginSendsAll ==
  /\ stage = "origin"
  /\ stage' = "stream"
  /\ part' = <<>>
  /\ UNCHANGED <<pinned, seederVars, exists, dest, sidecar, peerVars, leechVars, ghosts>>

\* 416: the range starts at the end of the file; raise_for_status.
OriginRefuses ==
  /\ stage = "origin"
  /\ Len(part) = N
  /\ stage' = "idle"
  /\ UNCHANGED <<pinned, seederVars, diskVars, peerVars, leechVars, ghosts>>

OriginFails ==
  /\ stage = "origin" \/ (stage = "stream" /\ Len(part) < N)
  /\ Fault
  /\ stage' = "idle"
  /\ UNCHANGED <<pinned, seederVars, diskVars, peerVars, leechVars, cutCommit>>

OriginBytes ==
  /\ stage = "stream" /\ Len(part) < N
  /\ part' = Append(part, "good")
  /\ UNCHANGED <<pinned, seederVars, exists, dest, sidecar, stage, peerVars, leechVars, ghosts>>

\* Fault: a .part with the wrong hash is left for the next attempt.
CommitKeepsPart ==
  /\ stage = "stream" /\ Len(part) = N
  /\ IF pinned /\ \E c \in Chunks : part[c] # "good"
     THEN stage' = "idle" /\ UNCHANGED <<exists, dest, part>>
     ELSE stage' = "ready" /\ exists' = TRUE /\ dest' = part /\ part' = <<>>
  /\ UNCHANGED <<pinned, seederVars, sidecar, peerVars, leechVars, ghosts>>

\* The stream ended: verify the .part and rename it, or drop it and raise.
Commit ==
  /\ stage = "stream" /\ Len(part) = N
  /\ part' = <<>>
  /\ IF pinned /\ \E c \in Chunks : part[c] # "good"
     THEN stage' = "idle" /\ UNCHANGED <<exists, dest>>
     ELSE stage' = "ready" /\ exists' = TRUE /\ dest' = part
  /\ UNCHANGED <<pinned, seederVars, sidecar, peerVars, leechVars, ghosts>>

(***************************************************************************)
(* What may go wrong.                                                      *)
(***************************************************************************)
\* The process dies.  The last chunk written may be torn although the sidecar
\* names it; the sidecar, which is rewritten in place, may be unreadable.
Crash ==
  /\ stage # "idle"
  /\ Fault
  /\ stage' = "idle"
  /\ todo' = {}
  /\ StreamClosed
  /\ cutCommit' = (cutCommit \/ (stage = "stream" /\ Len(part) = N))
  /\ \/ dest' = dest
     \/ unflushed # 0 /\ dest' = [dest EXCEPT ![unflushed] = "rot"]
  /\ \/ sidecar' = sidecar
     \/ unflushed # 0 /\ sidecar' = NoIds
  /\ UNCHANGED <<pinned, seederVars, exists, part>>

\* sweep_orphans of a start that follows another version: it removes the file,
\* its sidecar and the .part, in this order, and may be cut short.
Sweep(count) ==
  /\ stage = "idle"
  /\ exists /\ Fault
  /\ exists' = FALSE /\ dest' = Blank
  /\ sidecar' = IF count > 1 THEN NoIds ELSE sidecar
  /\ part' = IF count > 2 THEN <<>> ELSE part
  /\ UNCHANGED <<pinned, seederVars, stage, peerVars, leechVars, cutCommit>>

\* A chunk decays on the disk while no transfer runs.
Decay(c) ==
  /\ stage = "idle"
  /\ Fault
  /\ \/ exists /\ dest' = [dest EXCEPT ![c] = "rot"] /\ UNCHANGED part
     \/ c <= Len(part) /\ part' = [part EXCEPT ![c] = "rot"] /\ UNCHANGED dest
  /\ UNCHANGED <<pinned, seederVars, exists, sidecar, stage, peerVars, leechVars, cutCommit>>

SeederDecays(s, c) ==
  /\ copy[s][c] = "good"
  /\ Fault
  /\ copy' = [copy EXCEPT ![s][c] = "bad"]
  /\ UNCHANGED <<pinned, holds, diskVars, stage, peerVars, leechVars, cutCommit>>

\* A seeder changes over to another version; the stream it serves keeps its
\* open file.
SeederMovesOn(s) ==
  /\ s \in holds
  /\ Fault
  /\ holds' = holds \ {s}
  /\ UNCHANGED <<pinned, copy, diskVars, stage, peerVars, leechVars, cutCommit>>

\* The origin sends other bytes than those that were published.
OriginDamaged ==
  /\ stage = "stream" /\ Len(part) < N
  /\ Fault
  /\ part' = Append(part, "rot")
  /\ UNCHANGED <<pinned, seederVars, exists, dest, sidecar, stage, peerVars, leechVars, cutCommit>>

\* The engine runs on the file.
Ready == stage = "ready" /\ UNCHANGED vars

Origin == OriginSendsAll \/ OriginResumes \/ OriginRefuses \/ OriginBytes \/ Commit

Peers ==
  \/ \E s \in Seeders : PickPeer(s)
  \/ Dial \/ DialFails \/ RoundOver \/ Broken
  \/ ServeHello \/ ServeChunk
  \/ Have \/ Nack \/ Skip \/ Ask \/ Land \/ AskAgain \/ ChunkFails
  \/ AllLanded \/ Leeched \/ Mismatch

Faults ==
  \/ Damaged \/ Crash \/ OriginFails \/ OriginDamaged
  \/ \E count \in 1 .. 3 : Sweep(count)
  \/ \E c \in Chunks : Decay(c)
  \/ \E s \in Seeders, c \in Chunks : SeederDecays(s, c)
  \/ \E s \in Seeders : SeederMovesOn(s)

Next ==
  \/ Begin
  \/ \E seeders \in SUBSET Seeders : Announced(seeders)
  \/ GoToOrigin \/ Peers \/ Origin \/ Faults \/ Ready

\* ensure_model is called again by the next start or the next poll of the
\* update loop; every wait of a transfer has a timeout; fetch looks at its
\* deadline once per round of announces, so it does not poll for ever.
Fairness == WF_vars(Begin) /\ WF_vars(Peers) /\ WF_vars(Origin) /\ SF_vars(GoToOrigin)

Spec == Init /\ [][Next]_vars /\ Fairness

-----------------------------------------------------------------------------
(***************************************************************************)
(* Properties.                                                             *)
(***************************************************************************)

\* ensure_model returns a file whose hash is pinned only with the contents the
\* publisher released: from the cache, from peers with decayed copies, from
\* resumed and torn transfers alike (_verified, leech_file and
\* _download_hf_file each decide it on their own).
PinnedReadyIsGood ==
  [][stage # "ready" /\ stage' = "ready" /\ pinned' => \A c \in Chunks : dest'[c] = "good"]_vars

\* When leech_file has passed its last chunk, every chunk is one a seeder
\* served: no hole, nothing torn by a crash, decayed between two attempts or
\* damaged on the way was taken over by the resume; and a chunk is bad only if
\* a seeder's copy is.
LeechedIsServed ==
  stage = "check" => \A c \in Chunks :
    \/ dest[c] = "good"
    \/ dest[c] = "bad" /\ \E s \in Seeders : copy[s][c] = "bad"

\* The file is installed in the end, whatever the seeders hold and however
\* often the transfer breaks off, except when a crash fell between the last
\* byte of an origin download and its rename: the complete .part is then
\* resumed past its end.
InstalledInTheEnd == <>(stage = "ready" \/ cutCommit)
=============================================================================
