# TLA+ models of MeshCompute

MeshCompute lets machines share local language models. A *control plane* keeps a
table of nodes, plans where a request runs, pays for finished work and introduces
peers to each other. Each *node* runs an engine on a model channel, follows the
versions the control plane publishes, fetches the files from peers or from the
origin, and heartbeats while it contributes. A *gateway* turns chat requests into
scheduled calls. A *replicated ledger* lets anyone re-verify what was paid.

This directory holds TLA+ modules of that code, TLC instances that check them and
TLAPS proofs. File and line numbers refer to the repository (`src/...`).

## 1. Inventory

| Part | State it keeps | Operations | What is hard |
|---|---|---|---|
| Control plane: registry and accounting (`app.py`, `store.py`) | SQLite: nodes, capabilities, sessions (plans), receipts, ledger; memory: `issued_nonces`, `live_heartbeats` | register, capabilities, heartbeat, list, schedule, submit receipt | the two transactions of a receipt and a crash between them; resubmission; nonces lost by eviction and restart |
| Model catalog (`scan_manifests`) | manifests table | publish when a file changes and its version is not lower | order of publications; same version, other contents |
| Rendezvous tracker (`rendezvous.py`) | memory: last announce of each peer, connect tickets, relay pairs | announce, connect, relay | agreeing on one origin downloader; entries never expire; the table is lost on restart |
| Scheduler, topology (`scheduler.py`, `topology.py`) | the capabilities and heartbeats it reads | cost model, strategies, placement | zero taken for unknown; even splits of uneven nodes; samples in any order |
| Node daemon (`daemon.py`) | memory: `NodeRuntime`; tasks: heartbeat, update loop, seeding | start, register, poll, changeover, fetch, announce | awaits between reading an answer and using it; failures at each step of a changeover |
| Runtime installer (`runtime_installer.py`) | disk: model files, `state.json` | ensure_model, record_channel, save_state, delete_files, sweep_orphans, check_storage | crashes between a file, its record and the deletion of what it replaces; files that cannot be deleted |
| Relay (`rendezvous.py`, `rendezvous_relay` of `app.py`) | memory: tickets, queue pairs; two tasks per websocket | connect, claim, pump, drop | two tasks and two handlers per pair; pairs dropped by session id; full queues |
| Chunk transfer (`runtime/swarm.py`), QUIC (`transport_quic.py`), origin download (`_download_hf_file`) | disk: preallocated file, progress file, `.part`; memory: streams | request, serve, verify, resume | broken streams, decayed copies, crashes between a byte and its record |
| Contribution controller (`contribution.py`) | ACTIVE or PAUSED | tick | different bars for starting and stopping; nothing withdraws a node but silence, and a POST may land late |
| Engine builds and backends (`runtime_installer.py`, `backends/`) | disk: builds and a marker; child processes | install, start, stop, swap | a build that half installs, a marker that outlives what it found, a child that outlives its daemon, a port somebody else answers |
| Replicated ledger (`protocol/ledger.py`) | blocks, seen nonces | produce, append, verify, balances, fork choice | unsigned entries under a signed header; branches that use one nonce; state kept beside the blocks |
| Gateway (`apps/gateway`) | memory: sessions, events, cancel events, router caches | create, message, delete, cancel, route | sessions deleted or evicted during an await; stale caches |
| CLI, host probes, packaging | configuration file | | no concurrent state |

Interactions: nodes call the control plane over HTTP (register, capability,
heartbeat, announce, receipts, manifests); the tracker's answers send nodes to each
other (QUIC) or to the origin; the gateway calls `/schedule` and then a node. The
handlers of the control plane run on one event loop without an await, so each is
atomic with respect to the others; what interleaves are the handlers, the processes
and the crashes.

What makes each part correct:

- accounting: a receipt is credited at most once, to the node that was given its
  nonce and served in the plan, by the formula; it goes unpaid only through a crash
  or a failed write;
- registry: no request takes an outstanding nonce away but the receipt that uses it and
  the draw that needs its room;
- tracker and update wave: one origin download per wave unless something failed;
  nobody waits for ever; a listed seeder has the file;
- installer and changeover: the record, the engine and the disk agree at every crash
  point; no junk but what could not be deleted, no downgrade, and the node catches up
  whatever fails;
- replicated ledger: what a replica holds is what a stranger would accept; a nonce
  is credited once; a head fixes the balances; fork choice never steps back;
- relay: a message reaches the partner and nobody else, in order, or the relay ends;
- transfer: a file counts only when it is what the manifest pins, and it arrives in
  the end however often the transfer breaks off;
- gateway: an answer is recorded once, in its session; a cancelled stream stops;
- scheduler: links are as measured, more nodes help, placements fit their donors;
- availability: a gate that closed opens only after the full idle bar; a node is listed
  no longer than the timeout and a POST after it contributed, unless it registers;
- engine: no process is left behind, and the one that answers is the daemon's own.

## 2. Modules

```
WorkReceipt <-- ControlPlane <-- MCControlPlane        CreditLedger (abstract)
     ^              ^   `-- INSTANCE CreditLedger WITH ...
     |              |
     |              `------- CreditProofs
     |              ,-----------'
     `------- LedgerChain <-- MCLedgerChain
Rendezvous <-- OriginWave <-- OriginWaveProofs
Changeover <-- MCChangeover           Relay <-- RelayProofs
     ^-- ChangeoverProofs             Gateway <-- MCGateway
Availability <--.                          ^-- GatewayProofs
                |-- SchedulingProofs  Engine <-- MCEngine
Scheduler <-----'                          ^-- EngineProofs
     ^-- MCScheduler                  FileTransfer <-- FileTransferProofs
```

Where two modules touch the same code each leaves open what the other decides:
ControlPlane takes any candidates that Scheduler may choose; a wave (OriginWave) and a
changeover (Changeover) take a file as fetched or not, FileTransfer is what happens in
between; Changeover starts an engine or fails to, Engine has the processes; Availability
has a changeover as a flag.

**ControlPlane** has the tables as variables (`registered`, `pools`, `caps`, `age`,
`plans`, `receipts`, `ledger`), `issued` for `issued_nonces`, and one action per
handler. A handler is one action because it has no await. `submit_receipt` is two,
`PutReceipt` and `AppendLedger`, because a crash can fall between its two transactions,
and the second can fail (`AppendFails`); `paying` is its local state, and `Idle` keeps
other handlers out in between, as the event loop does. A nonce is the pair of a node and
the number of the draw (random tokens do not collide). Time is the saturating age of
`last_seen`. Which candidates a plan uses is left open, so what holds here holds for
every cost model. Refused requests change nothing and are not steps. Signatures are what
they establish: a request comes from the node it names. Errors of SQLite other than a
violated constraint are modelled where they leave something half done, between the two
transactions of a receipt; elsewhere a handler that raises has changed nothing that is
modelled here.

**CreditLedger** is what the accounting promises, without nodes, plans or crashes:
`Accept` an identity with an unused token, `Pay` it at most once. `ControlPlane!CL`
instantiates it over the tables.

**LedgerChain** has the blocks of each replica and its `_seen_nonces`. A header is
opaque except for what `verify_block` compares; the entries under it may be replaced
on the way (`AppendBlock` takes any body, `Arrives` swaps one), because only the
header is signed. `MerkleRoot` keeps the tree with its doubled last node instead of
a hash, so two lists collide exactly where the code's do (BLAKE3 itself is taken to
be injective). Nothing in `src/` but the tests calls `pick_best_chain`; who sends what
is therefore left open (`Adopt` of any replica's chain at any time).

**Rendezvous** is the tracker's table and the answer of `announce`. **OriginWave** puts
the nodes around it: `pc` is the await a node is at inside `fetch`, `resp` the answer
it holds meanwhile, `expired` that its deadline has passed, `have` its verified files,
`recorded` that `state.json` names the new version (what `seed_index` goes by). One
version wave is modelled. Readings of the tracker's clock are taken to differ, so
ties on `wanted_since` (decided by node id in the code) do not occur.
A call of the tracker that fails may have arrived (`MayArrive`). Faults
(`AskFails`, `DialFails`, `UpdateFails`, `TellFails`, `Leave`, `Restart`) share one
budget.

**Changeover** is one node on one channel: catalog, disk, `state.json`, engine, and `pc`
for the point reached in `async_main`, `_update_loop` or `changeover`. Steps are cut at
awaits and where a crash leaves a trace on disk. A file is there or not. `Clean` and
`Delete` leave any of the files they go through where an OSError keeps them (`Unlink`);
`stuck` remembers which, and the caller does not look. Channel switching, the smoke
model and `--quant` changes are left out. Two manifests may have one version number
(`_update_loop` compares hashes and refuses only lower versions).

**FileTransfer** is one file on its way to one node. `stage` is the await
`ensure_model` is at; `dest`, `sidecar` and `part` are the preallocated file, its
progress file and the `.part` file, chunk by chunk, and survive a crash. A chunk is
"good", "bad" (a seeder's decayed copy, whose chunk id matches because it is computed
from the same bytes), "rot" or "hole". Leecher and seeder take turns, so `wire` is
the one frame under way. `pinned` is whether the manifest states a hash or PENDING. A
chunk stands for the request unit of the swarm and for a part of an origin download.
`unflushed` is the chunk a crash may tear although the progress file names it. The
origin may send other bytes than were published (`OriginDamaged`).

**Relay** has tickets, the table of pairs, the two queues of each pair, and per
websocket `hand` (what `pump_in` received and has not put) and `out` (what `pump_out`
got and has not sent). `End` is the `finally` of the endpoint: it cancels both tasks and
drops whatever pair the table has for the session by then.

**Gateway** cuts the handlers at their awaits. `turn[t].stage` is where a call is:
"planning" (waiting for `/schedule`), "asking" (for `/v1/models` of the node), "ready"
(response returned, generator not yet started), "running". `signal` is `_cancel_events`,
whose events are named after who created them, so that a shared event is seen to be
shared. `cache` is `_models_cache`. A reading is the set of models a node reported; an
empty one lets every request through and is kept like any other. Readings, answers under
way and changes of a node have ages in ticks (`Tick`). An httpx error of the question
lets the request go on (`NodeWontSay`); an answer that is no list of models is a 500
(`AskRaises`).

**Scheduler** has what nodes posted (`cap`, `beat`); `Graph`, `Candidates`, `Plan` and
`Assign` are the pure functions of `topology.py` and `scheduler.py` in whole
milliseconds and gigabytes, evaluated in every reachable state. A heartbeat's free RAM
overrides the capability's, and nodes without a backend of the model are no candidates.
The order of rows, of samples and of candidates is that of the code, because ties and
defaults depend on it. Rounding to integers replaces floating point; the constants are
chosen such that no comparison depends on a fraction. A sort of which only the head is
used, a `min` and a `max` are all `FirstLeast`: the first of the least, as Python's are.

**Availability** is the gate (`_tick` with its two bars), the process, the flag of a
changeover, the heartbeat loop and the row at the control plane. Time runs in ticks: the
loop sleeps for `Interval` after its POST is over, a POST lasts up to `MaxPost` (httpx
allows 10 s for each of its phases), and so long may its request be under way, also when
the loop has given it up or the daemon is gone (`flying`). An exception that is no
`httpx.HTTPError` ends the loop (`LoopDies`). A registration lists the node whatever its
gate says (`touch`). `idled`, `closed`, `missed`, `lead` and `silent` are histories.

**Engine** is `ensure_llama_server` (cascade of accelerators, releases, marker) and
the processes: `proc` is a child's state, `at` its port. A child outlives a daemon
that is killed; the next daemon probes port 1 and takes another one if it is busy.
`racing` and `ended` remember why a process may be one nobody owns. What the machine can
run (`works`) is chosen anew at each start of the daemon, as drivers and libraries are
installed and removed; `--version` may also fail to answer in time (`TimesOut`). `could`
remembers what worked, and met no failure, in the search that wrote the marker.

Operators named under a comment that begins with `Fault:` are plausible mistakes in
the definition that follows them. They are used by no specification; replacing the
definition by one shows that a property can fail.

## 3. Runs

| Run | Configuration | Bounds | Question |
|---|---|---|---|
| accounting | MCAccounting | 2 nodes, 2 models, 2 receipt ids, buckets of 1, 2 draws per node, 2 plans, 1 crash, 1 failed write, timeout 0 | is every credit owed, paid once, what leaves a receipt unpaid, and where do nonces go |
| origin_wave | MCOriginWave | 3 nodes, 1 file, 1 fault | who pays the origin, who is listed, does everyone finish |
| ledger_chain | MCLedgerChain | 2 replicas, 3 signed headers, 5 entry lists | does every chain kept verify again and agree on balances |
| changeover | MCChangeover | 4 manifests, two of one version, 2 files each, room for 4, 4 faults | do disk, record and engine agree; does the node catch up |
| transfer | MCFileTransfer | 3 chunks, 2 seeders with 2 addresses, 2 tries per chunk, 3 faults | is what is installed what was published, and does it get there |
| relay | MCRelay | 1 session, 3 connections, queues of 1, 6 messages | do messages arrive once, in order, at the partner |
| gateway | MCGateway | 2 turns, a store of 1 session, 2 sessions created, 3 lists a node may report, 1 chunk, 1 change, time to live and flight of 1 tick | do answers, cancellations and readings of a node reach the right turn |
| scheduler | MCScheduler | 3 nodes of 5 kinds, 2 round trips, 2 queue depths, 1 reading of the RAM, 2 nodes with heartbeats | do links, choice and placement keep what they promise |
| availability | MCAvailability | timeout of 3 ticks, interval and POST of 1, 2 starts, 2 faults, 1 changeover | who is listed, and why not |
| engine | MCEngine | 7 machines, 2 releases, 2 starts, 4 processes at a time, 2 faults | which build runs, which process answers, which is left |
| nonce_binding | MCNonceBinding | 2 replicas, 3 headers | is a receipt's nonce credited once (it is not) |
| idle_start | MCIdleStart | 1 start, no faults | does an idle_only node contribute only after the machine was idle (it does not) |

What each property rests on is said at its definition.

Why the bounds are enough for the interesting cases. *accounting*: two receipt ids and
two nonces give every pairing of same or different id and nonce; a crash and a failed
write can each leave one of the two receipts unpaid; the two models separate the plan's
model from the receipt's. The second draw finds the bucket of one full. *origin_wave*:
three nodes are a leader and two followers, one of which takes over; the fault hits any
of them, or the tracker, at any await. A second file only repeats `fetch` (two nodes
with two files and two faults were also explored). *ledger_chain*: three headers make
two branches of which one overtakes the other, and the lists contain a stripped receipt,
and an odd list with its last entry doubled. *changeover*: four manifests allow an
upgrade, one that fails, one published meanwhile, a checkout older than the catalog and
a catalog that comes back; four faults cover a failed start, a failed rollback, a failed
save and a crash in one behaviour. *transfer*: three chunks are one before, one at and
one after the point where a transfer is cut; three faults let a transfer be cut, its
rest decay and the resume be cut again. *relay*: the third connection is the one that
finds the pair full, or comes after a departure and makes a pair of its own while the
old one is still in use. Six messages are what it takes for everything to stand at once:
one in each `out`, one in each queue and one in each `hand`, with both writers waiting
in `put`; only then would a handler whose writer blocks its reader never move again.
Sessions share nothing but the pruning of tickets, so there is one. *gateway*: a store
of one evicts with each creation; two turns share a session, its event, or a node's
cached reading; a node goes between a list with the model, one without it and an empty
one, before, while and after its answer is under way. *scheduler*: three nodes are the
smallest pod and leave a node beside a split pair; the kinds have a share of zero, a
share that binds, several cards, no card and too little memory for half of a pipeline,
one declared by the script, and the fastest of them without a backend of the model.
*availability*: a tick is 30 s, so that the timeout, the interval and the longest POST
keep to the proportions of the code; one heartbeat can be missed within the timeout, and
two or not as long as the POSTs last; two starts show a gate that was closed in an
earlier life, and a request of the first daemon that lands in the second one's.
*engine*: there is a machine for every branch of the cascade (`MCMachines`); with two
releases an asset may be late in the newest; four processes hold the left-over of one
life beside an exchange in the next.

Symmetry sets are used in *accounting* and *gateway*, which check no
liveness. Deadlock is checked except in OriginWave (a finished wave), Changeover (polls
find nothing), Gateway (every turn is over) and Relay (every connection is closed),
which really stop. In FileTransfer and Engine an action (`Ready`, `Done`) names the
state in which the system may rest.

Type invariants are checked by none of these runs: they are proved, for every module
that has a run of its own.

Fairness. OriginWave: weak fairness of each node's own step, because every await it
makes has a timeout or ends (HTTP, dial, sleep), and of the deadline, which is
wall-clock time; none for faults, `Return` and `Restart`. Changeover: weak fairness of
the node's steps, because the poll is a timer and downloads and engine starts end or
raise; none for publication, starting the process and faults. FileTransfer: weak
fairness of the transfer's steps, each of which has a timeout, of `Begin` (the next
start or poll calls `ensure_model` again), and strong fairness of `GoToOrigin`, because
`fetch` looks at its deadline once in each round of announces and so does not stay with
the peers for ever. Relay: weak fairness of `Put`, `Get`, `Send`, `Disconnected` and
`TimesOut` of each connection: tasks that can run do, clients that stay read, the idle
timeout fires; clients need not send or leave. Availability: weak fairness of the poll
of the controller and of the loop's decision (timers), of the end of a POST, answered,
lost or landed (its timeout), of the clock, of the end of a changeover and of an outage;
none for starts, joining, faults and the machine. The liveness properties hold because
faults and publications are finite in the instances. The other specifications state no
fairness.

## 4. Disagreements met between code and documentation

Runs show these two:

- *nonce_binding*: `docs/DECENTRALIZATION.md:25-26` says every receipt's nonce is
  credited once; `verify_block` compares only the nonces written in entries.
- *idle_start*: `docs/QUICKSTART.md:120-121` says of `--idle-only` "Only contribute
  while this machine is idle" and of `--idle-minutes` "Minutes without keyboard/mouse
  input before contributing". A controller starts ACTIVE and, once ACTIVE, looks at the
  input only with `pause_on_user_activity` (`contribution.py:252-279`): with
  `--no-pause-on-activity` a daemon started while somebody types contributes at once.

These were met while modelling; the properties are stated as the code has them:

- `app.py:197-198` calls `issued_nonces` the nonces issued "and not yet seen in a
  receipt"; a full bucket drops an arbitrary one (`app.py:206-207`). See
  `NonceSurvives`.
- `rendezvous.py` says its table is "rebuilt from announces"; a node that is done
  announces only after its next swap or start (`daemon.py:644, 651`). See
  `OriginPayersExplained`, where a restart of the tracker explains a second payer.
- `docs/QUICKSTART.md:126` calls `--max-storage` the maximum of files kept;
  `check_storage` counts only what `state.json` records.
- `scheduler.py:234-236` says every node that can run the model is a replica; a node
  measures its free memory with the model loaded, so that a running node may be taken
  not to fit. The daemon's comment that the scheduler "never over-places"
  (`daemon.py:354-355`) has the exceptions that `OverPlacedOnlyIf` names.
- `docs/QUICKSTART.md:31` has a machine without `libvulkan1` fall back to the CPU build
  and the user install the library "to get the GPU path". The marker of the fallback is
  taken at every later start as long as its binary runs
  (`runtime_installer.py:229-234`), so the GPU build is not looked for again. See
  `SlowerOnlyAfterTrouble`, which speaks of what worked when the marker was written.
- `_heartbeat_loop` says the timeout "ages a silent node to offline"
  (`daemon.py:386-388`). A heartbeat under way when the node pauses lands up to a POST
  later and counts from there, and a registration lists a node that starts paused for a
  whole timeout. See `FadesInTime`.
- `_assert_serves` (`router.py:100`) keeps requests from "a node that is up but serving
  a different channel"; a node that reports an empty list, or does not say, gets every
  request, for 60 s after it reported one. See `MisroutedOnlyByChange`.
- GET /nodes lists a node silent for less than 90 s, POST /schedule takes one silent for
  90 s as well (`app.py:263, 306`): the two differ at that instant alone.
- `_sse_chunks` of the gateway (`app.py:79`) "honours explicit cancel"; a later message
  of the same session clears the event before the stream has looked at it. See
  `CancelStops`.
- `ensure_model` (`runtime_installer.py:530`) makes files "present + verified"; with a
  PENDING root a file of the right size passes, which a transfer cut short has because
  it is preallocated. See `PinnedReadyIsGood`, which is about pinned files only.

## 5. Proofs

For every value of the constants, under the assumptions named in the modules
(`ControlPlaneAssumption`, `LedgerChainAssumption`, `ChangeoverAssumption`,
`NamesAssumption`, `OriginWaveAssumption`, `AvailabilityAssumption`,
`SchedulerAssumption`, `FileTransferAssumption`, `RelayAssumption`, `GatewayAssumption`,
`EngineAssumption`). They say of what kind the constants are, that `None` and the like
are none of the values they stand beside, and that entry lists and rows are sequences.

- **CreditProofs**, accounting: `TypeCorrect`, then `AccountInvariant`, which
  strengthens the three accounting properties to an inductive one. `ReceiptPaidOnce`
  alone is not inductive: nothing in it says that the receipt being paid has no row yet.
  The invariant adds that stored receipts have distinct ids and nonces, that at most one
  receipt is being paid and that it has no ledger row, that every row belongs to a
  stored receipt, and that nonces are drawn in order so that a spent one is not drawn
  again. From it follow `PaidOnce`, `Owed`, `SpentGone`, `Refines` (every step is a step
  or a stutter of CreditLedger). `UnpaidExplained` counts: the unpaid receipts are at
  most as many as crashes and failed writes account for, plus the one being paid;
  storing a receipt adds one, its ledger row takes one away, a mishap turns the one
  being paid into one that stays unpaid. It needs the invariant for the row that is
  appended to be that of the receipt just stored. `Bounded` and `Survives` have
  arguments of their own.
- **CreditProofs**, replicas: the invariant is `TypeOK /\ AcceptedIsVerifiable`. That
  what is remembered equals the nonces of the blocks is what makes the check of one
  block against the memory as strong as the check of the chain from genesis.
  `CreditedOnce` then follows from `VerifyFull` of the chain, `Improves` from the choice
  in `PickBest`. `SamePay` goes from one head to one history: a head names a header,
  which names the one before it, so two chains that verify and end alike have the same
  headers all the way down (`SameHeaders`); a header has the number and the Merkle root
  of its entries, and `RootBinds` shows that for lists of one length the root determines
  every leaf. A round of the tree halves the length and can be undone when the length is
  known, whether or not the last node was doubled, and there are enough rounds to come
  to one node (`RoundsExist`). Without the entry count the lemma is false: an odd list
  and the list with its last entry doubled have one root. Equal leaves credit equal
  amounts, so the two folds that sum the balances agree element by element.
- **ChangeoverProofs**: the invariant adds `Progress` to the properties: what is known
  at each value of `pc` about `target`, `engine`, `stale` and the disk (for example, in
  "delete" the record is already the target and nothing of the target is stale).
  `NoDowngrade` follows from what `Poll` compared, which `Progress` remembers.
  `NothingLeft` adds `Tidy`, what a changeover without a failure may have on the disk by
  each step besides the files that could not be deleted.
- **OriginWaveProofs**: `Held` ties "listed" to "recorded" to "has every file", and
  says that a node with every file does not ask, so that it never learns from its own
  entry that it leads. For `PayersExplained` the payers are counted together with the
  nodes that hold an answer naming them (`Named`), because answers are used after the
  table has changed. `Life` follows a table from one restart to the next: nobody
  wants the version; one node was first, and only it is ever named; somebody seeds,
  and nobody is named any more. That an answer names a node as leader (`LeaderType`, in
  the types) needs that of any nonempty set of clock readings one is the least.
- **SchedulingProofs**, availability: `Resumes` is inductive with the types; `Explained`
  needs that the row cannot be older than the turns of the loop counted since the last
  heartbeat and the one under way (`Paced`, `AgeCounted`), `Fades` that a row written by
  a heartbeat, and each request under way, is as old as the silence but for what a POST
  lasts (`OlderThanSilence`).
- **SchedulingProofs**, scheduler: what is posted changes little from step to step
  (`SchedulerInv`: every capability is one that `Capability` makes of some box); the
  work is in the functions evaluated in each state, which are folds over rows of any
  length. `LinksMeasured` follows the graph through the samples (`GraphIs`): after each
  of them a direction has what its own end measured if that sample has been met, else
  what the other end did, so a default set for the reverse is overwritten by a
  measurement and never the other way round. `SlowerOnlySplit` and `OverPlacedOnly`
  rest on `CandidatesAre`, which says what a candidate of each strategy is and that
  every node the model fits is among the single ones, and on `PlanIs`: the plan is a
  candidate and none is cheaper. A replica of the smaller network is a replica of the
  larger at the same cost, whatever the links, because a single plan uses none between
  nodes; that is why only a split can get worse. For `OverPlacedOnly`, `CapabilityIs`
  bounds what is advertised by the owner's share for one managed card, and `HeldIs`
  what each member is given: the halves of a pipeline cannot both exceed two memories
  that hold the model together.
- **FileTransferProofs**: `Staged` adds to the types which peer, chunk and frame go
  with each stage. `Leeches` needs to know in addition that every chunk
  before the one being asked for is in the progress and written as it says (`Behind`),
  and that a decayed chunk, on the wire or in the progress, is one a seeder's copy has
  (`Named`). `Pinned` goes through the three ways a file becomes "ready".
- **RelayProofs**: `Sided` says that a side of a pair is claimed once and for all, so a
  connection has at most one partner ever. `Flow` holds order and completeness
  together: what a client was sent is the start of what its partner sent because all
  that is under way behind it is the rest; a handler that ends breaks completeness
  and not order; and a handler alone in its pair leaves in the queue what the one who
  comes later finds there. `InOrder` and `AllUnderWay` are read off it. `ApartExplained`
  rests on `Listed`: the table has the pair of every running handler until a handler
  of the session ends.
- **GatewayProofs**: an event belongs to one session for ever, whoever created it
  (`Owned`), and the turns of a session that exists hold the one the session would set
  (`Holders`, `Signals`); hence nothing else clears what `Stopped` waits for, and the
  event a forgotten session leaves is one nobody sets (`Forgotten`). `Recorded` needs
  `Talks`: a call's question is in its session before the call can answer, and no answer
  of it is there until it has ended. `Routed` needs `Readings`: a reading of a node is
  what the node reports, or the node changed since the reading was taken, which is no
  longer ago than the reading's age and the flight of an answer. The cap in
  `TypeCorrect` counts: a new session enters a full store only after the oldest one left
  it.

- **EngineProofs**: three invariants beside the types, one for each part of the module.
  `Cache` says for every step of the installer what is on the disk and what was tried:
  no step that worked and met no failure is better than what the marker says (`Chosen`),
  a directory that lacks its libraries is one whose download was cut (`Halves`), and
  every step of the cascade before the one being tried is hopeless: it does not run
  here, has no asset yet, or had trouble (`Search`, `Hopeless`). From it follows
  `Slower`. `Household` ties the processes of a daemon to what it holds in `engine` and
  `fresh` and to the way it ended, which gives `Accounted`. `Ports` says who may have
  bound a daemon's port: nobody but its own children and those of earlier daemons that
  were racing for it, because a busy port is left alone and a second engine starts only
  when the first has gone; from it follows `Answered`.

Where a proof goes along a sequence of any length (a fold, a tree, a row of samples) the
induction is written out: a set of positions that contains 0 and the successor of each
of its members contains them all (`Climb`, from the well-foundedness of `<`), and the
function a fold is defined by exists because one more position can be added to it
(`FoldExists`). The library's induction theorems and a lemma about folds in general
would take an operator as parameter, which the provers cannot instantiate; so a fold
is taken apart once for each operator that is defined by one.

Model-checked only: the five liveness properties (`EveryNodeUpdates`, `FollowsCatalog`,
`InstalledInTheEnd`, `DeliveredOrEnded`, `ComesBack`), because the prover has no
fairness. Every other property that a passing run checks is stated by a theorem.

## 6. Not modelled

- Switching a node to another channel, the choice of a quantization by memory, the
  smoke test after a start: they choose the arguments of operations that are modelled.
- Backends other than llama.cpp, and the engine's own HTTP interface, which the gateway
  and the daemon pass through.
- QUIC's handshake, certificates and pinning; HTTP routing and response models;
  signatures beyond whose a request is.
- Budgets for threads, context and layers of the contribution controller: launch
  arguments, computed once.
- Errors of SQLite other than violated constraints and a failed ledger row; a full disk
  under the node's own files. A save that fails is a step of Changeover.
- `stop()` of an engine may raise when the child does not even end after a kill
  (`llamacpp.py:168-169`); a stopped child is gone in Engine.
- One daemon at a time: `MESH_HOME` allows several on one machine
  (`runtime_installer.py:34-35`), which then race for the fixed port between its probe
  and its bind, as a daemon and the left-over child of a killed one do in Engine.
- Drivers and libraries come and go between two starts of a daemon, not during one. A
  marker that was cut while it was written counts as none.
- A request that outlasts `MaxPost` on its way, and two requests of one age, which
  Availability keeps as one.
- The CLI, host probes, packaging and web assets keep no state of their own that
  another part reads back.

Reasons per component and their status are in `PROJECT.json`.

## 7. Plan

1. Changeover with a change of channel: two channels recorded in `state.json`, whose
   files are deleted by different rules.
2. Availability's heartbeats composed with the registry of ControlPlane, so that the
   candidates of a plan are nodes that contribute.
3. Scheduler as a refinement of ControlPlane's open choice of candidates.
