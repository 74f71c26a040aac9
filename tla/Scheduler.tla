----------------------------- MODULE Scheduler -----------------------------
(***************************************************************************)
(* The scheduler of the control plane: which nodes and links POST          *)
(* /schedule hands to it (app.py, topology.py), the capability a node      *)
(* posts (daemon.py, capability.py), and the choice of the cheapest plan   *)
(* (scheduler.py).                                                         *)
(*                                                                         *)
(* Memory is counted in GB.  Cost is counted in whole milliseconds: a      *)
(* node's speed is given as the time it takes for the REPRESENTATIVE_GEN   *)
(* 256 tokens, so 12800 is the default of 20 tokens per second.  Rows are  *)
(* in the order of the nodes table; every request comes from one client.   *)
(***************************************************************************)
EXTENDS Integers, Sequences, FiniteSets, SequencesExt

CONSTANTS
  Rows,       \* the nodes, in the order of the table
  None,       \* no capability, heartbeat, link or plan
  Boxes,      \* the machines a node may be, see below
  RTTs,       \* round trips a node may measure to a peer
  Queues,     \* queue depths a heartbeat may report
  Rams,       \* free RAM a heartbeat may report
  ClientRTT,  \* MESH_CP_MEASURED_RTTS: round trip from the client, by node, or None
  ModelGB,    \* size of the first quantization
  Context,    \* context length, in tokens
  Prompt,     \* prompt tokens
  MaxBeats    \* bound: nodes that send heartbeats

Nodes == ToSet(Rows)

CapabilityRecord == [box : Boxes, total : Nat, speed : Nat, ram : Nat, free : Nat]

LinkMetrics ==
  [rtt : Nat, mbps : Nat \ {0}, path : {"direct", "loopback", "relay"}, unstable : Nat]

CandidatePlan ==
  [strategy : {"single", "pipeline", "tensor", "speculative"}, chain : Seq(Nodes), ms : Int]

(* A box is a machine: its cards, its RAM, its benchmark (milliseconds for *)
(* 256 tokens, 0 when not measured), the share of VRAM its owner donates,  *)
(* the strategies it advertises, whether the daemon runs llama-server on   *)
(* it or register_external_backend.py declares what it has, and whether it *)
(* runs one of the backends of the model.                                  *)
ASSUME SchedulerAssumption ==
  /\ Rows \in Seq(Nodes) /\ IsInjective(Rows)
  /\ None \notin Nodes \cup CapabilityRecord \cup LinkMetrics \cup CandidatePlan
  /\ \A box \in Boxes :
       /\ box.cards \in Seq(Nat \ {0})
       /\ box.ram \in Nat /\ box.speed \in Nat /\ box.share \in 0..100
       /\ box.managed \in BOOLEAN /\ box.runs \in BOOLEAN
  /\ RTTs \cup Queues \cup Rams \cup {ModelGB, Context, Prompt, MaxBeats} \subseteq Nat
  /\ \A n \in Nodes : ClientRTT[n] \in Nat \cup {None}

VARIABLES
  cap,  \* the capability each node posted last, or None
  beat  \* live_heartbeats: its last heartbeat, or None

schedulerVars == <<cap, beat>>

(* The nodes of a set, in the order of the table.                          *)
Row(S) == FoldLeft(LAMBDA s, n : IF n \in S THEN Append(s, n) ELSE s, <<>>, Rows)

Sum(s) == FoldLeft(LAMBDA a, b : a + b, 0, s)
Least(a, b) == IF a <= b THEN a ELSE b
AtLeast1(a) == IF a >= 1 THEN a ELSE 1

(***************************************************************************)
(* What a node posts: measure_capability and _post_capability.             *)
(***************************************************************************)

\* VRAM of the cards, with the engine's weights spread over them when it runs.
FreeNow(box, loaded) ==
  [i \in 1..Len(box.cards) |->
     LET used == IF loaded THEN (ModelGB * box.cards[i]) \div Sum(box.cards) ELSE 0
     IN  box.cards[i] - Least(used, box.cards[i])]

\* Fault: the advertised free VRAM is not capped.
Uncapped(box, free) == free

(* The cap on a card is the share of all cards together. *)
Capped(box, free) ==
  LET budget == (Sum(box.cards) * box.share) \div 100
  IN  IF box.managed THEN [i \in 1..Len(free) |-> Least(free[i], budget)] ELSE free

Advertised(box, free) == Capped(box, free)

(* The daemon measures after its engine has loaded the model. *)
Capability(box) ==
  [box |-> box, total |-> Sum(box.cards), speed |-> box.speed, ram |-> box.ram,
   free |-> Sum(Advertised(box, FreeNow(box, box.managed)))]

SchedulerInit ==
  /\ cap = [n \in Nodes |-> None]
  /\ beat = [n \in Nodes |-> None]

PostCapability(n, box) ==
  /\ cap' = [cap EXCEPT ![n] = Capability(box)]
  /\ UNCHANGED beat

(* A heartbeat: queue depth, the free RAM of the moment, and the peers     *)
(* whose round trip it measured.                                           *)
Heartbeat(n, queue, ram, rtts) ==
  /\ cap[n] # None
  /\ Cardinality({m \in Nodes \ {n} : beat[m] # None}) < MaxBeats
  /\ beat' = [beat EXCEPT ![n] = [queue |-> queue, ram |-> ram, rtts |-> rtts]]
  /\ UNCHANGED cap

(* The control plane restarts: capabilities are on disk, heartbeats not.   *)
Restart ==
  /\ beat # [n \in Nodes |-> None]
  /\ beat' = [n \in Nodes |-> None]
  /\ UNCHANGED cap

Measured(n) == UNION {[S -> RTTs] : S \in SUBSET (Nodes \ {n})}

SchedulerNext ==
  \/ \E n \in Nodes, box \in Boxes : PostCapability(n, box)
  \/ \E n \in Nodes, queue \in Queues, ram \in Rams :
       \E rtts \in Measured(n) : Heartbeat(n, queue, ram, rtts)
  \/ Restart

SchedulerSpec == SchedulerInit /\ [][SchedulerNext]_schedulerVars

(***************************************************************************)
(* The topology graph of one request.                                      *)
(***************************************************************************)

Direct(rtt) == [rtt |-> rtt, mbps |-> 1000, path |-> "direct", unstable |-> 0]
Loopback == [rtt |-> 0, mbps |-> 100000, path |-> "loopback", unstable |-> 0]
UnknownLink == [rtt |-> 120, mbps |-> 100, path |-> "relay", unstable |-> 30]

\* Fault: the reverse direction is overwritten as well.
SetBoth(g, e) == [g EXCEPT ![e.a][e.b] = Direct(e.rtt), ![e.b][e.a] = Direct(e.rtt)]
SetLinkOf(g, e) ==
  [g EXCEPT ![e.a][e.b] = Direct(e.rtt), ![e.b][e.a] = IF @ = None THEN Direct(e.rtt) ELSE @]

SetLink(g, e) == SetLinkOf(g, e)

(* The samples in the order the handler goes through them.                *)
SamplesOf(n, N) ==
  IF n \notin N \/ beat[n] = None THEN <<>>
  ELSE LET peers == Row(DOMAIN beat[n].rtts \cap N)
       IN  [i \in 1..Len(peers) |-> [a |-> n, b |-> peers[i], rtt |-> beat[n].rtts[peers[i]]]]

Samples(N) == FoldLeft(LAMBDA s, n : s \o SamplesOf(n, N), <<>>, Rows)

Graph(N) == FoldLeft(SetLink, [a \in Nodes |-> [b \in Nodes |-> None]], Samples(N))

Link(g, a, b) == IF a = b THEN Loopback ELSE IF g[a][b] # None THEN g[a][b] ELSE UnknownLink
ClientLink(n) == IF ClientRTT[n] = None THEN UnknownLink ELSE Direct(ClientRTT[n])
LanClass(l) == l.rtt <= 5 /\ l.mbps >= 500 /\ l.path \in {"direct", "loopback", "pcie"}

Hops(g, chain) == [i \in 1..(Len(chain) - 1) |-> Link(g, chain[i], chain[i + 1])]

(* The slowest link of a chain; its stability is what the score charges.   *)
WorstLink(g, chain) ==
  FoldLeft(LAMBDA w, l : IF l.rtt > w.rtt THEN l ELSE w, Loopback, Hops(g, chain))

MutuallyLan(g, chain) ==
  \A i, j \in 1..Len(chain) : i < j => LanClass(Link(g, chain[i], chain[j]))

(***************************************************************************)
(* Fit and cost.                                                           *)
(***************************************************************************)

KvAllowance == (ModelGB * 20 * AtLeast1(Context)) \div (100 * 32768)
Need == ModelGB + KvAllowance

(* The last heartbeat tells the free RAM, else the capability does.        *)
RamOf(n) == IF beat[n] = None THEN cap[n].ram ELSE beat[n].ram

\* Zero free VRAM counts as unknown, and no VRAM at all as a CPU node.
Usable(n) == IF cap[n].free # 0 THEN cap[n].free
             ELSE IF cap[n].total # 0 THEN cap[n].total ELSE RamOf(n)

Fits(n) == Usable(n) >= Need

Can(n, strategy) ==
  LET joins == cap[n].box.joins IN strategy \in IF joins = {} THEN {"single", "replica"} ELSE joins

DecodeMs(n) == IF cap[n].speed = 0 THEN 12800 ELSE cap[n].speed
PrefillMs(nodes, percent) == (Prompt * 1000 * 100) \div (400 * nodes * percent)
Depth(n) == IF beat[n] = None THEN 0 ELSE beat[n].queue
MaxOf(S) == CHOOSE x \in S : \A y \in S : y <= x

Candidate(strategy, chain, ms) == [strategy |-> strategy, chain |-> chain, ms |-> ms]

WithQueue(n) == Depth(n) * DecodeMs(n) + PrefillMs(1, 100) + ClientLink(n).rtt + DecodeMs(n)

SingleMs(n) == WithQueue(n)

PipelineMs(g, chain) ==
  LET l == WorstLink(g, chain)
      hops == Len(chain) - 1
      slowest == MaxOf({DecodeMs(n) : n \in ToSet(chain)})
  IN  PrefillMs(1, 100) + ClientLink(chain[1]).rtt
      + (slowest * 100) \div 65 + 257 * hops * l.rtt + (257 * hops * 96) \div l.mbps
      + 80 * l.unstable

(* A pod is as free as its busiest member and as fast as its slowest.      *)
TensorMs(g, chain) ==
  LET k == Len(chain)
      slowest == MaxOf({DecodeMs(n) : n \in ToSet(chain)})
      decode == (slowest * 100) \div (100 + 85 * (k - 1))
  IN  MaxOf({Depth(n) : n \in ToSet(chain)}) * decode
      + PrefillMs(k, 80) + ClientLink(chain[1]).rtt + decode + 80 * WorstLink(g, chain).unstable

SpeculativeMs(n) ==
  LET decode == (DecodeMs(n) * 10) \div 16
  IN  Depth(n) * decode + PrefillMs(1, 100) + ClientLink(n).rtt + decode

(***************************************************************************)
(* plan: candidates in the order of the code, the first cheapest wins.     *)
(***************************************************************************)

First(s, k) == SubSeq(s, 1, Least(k, Len(s)))

(* The first of the positions with the least value: the head of a stable   *)
(* sort, and what min and max return.                                      *)
FirstLeast(v) ==
  CHOOSE i \in DOMAIN v : \A j \in DOMAIN v : v[i] < v[j] \/ (v[i] = v[j] /\ i <= j)

Places(S) == {i \in DOMAIN Rows : Rows[i] \in S}
Fastest(S) == Rows[FirstLeast([i \in Places(S) |-> DecodeMs(Rows[i])])]
Freest(S) == Rows[FirstLeast([i \in Places(S) |-> - cap[Rows[i]].free])]

\* Fault: only the first two replicas are considered.
FirstTwo(replicas) == First(replicas, 2)
Every(replicas) == replicas

Pool(replicas) == Every(replicas)

Singles(replicas) ==
  [i \in 1..Len(Pool(replicas)) |-> Candidate("single", <<replicas[i]>>, SingleMs(replicas[i]))]

Holds(chain) == Usable(chain[1]) + Usable(chain[2]) >= Need

(* The two splitters with the most free VRAM. *)
Pipelines(g, C) ==
  LET able  == {n \in C : Can(n, "pipeline")}
      first == Freest(able)
      chain == <<first, Freest(able \ {first})>>
  IN  IF Cardinality(able) >= 2 /\ Holds(chain)
        THEN <<Candidate("pipeline", chain, PipelineMs(g, chain))>> ELSE <<>>

(* Three of the fitting replicas if they are close, else two. *)
Tensors(g, R) ==
  LET able == Row({n \in R : Can(n, "tensor")})
      pods == {k \in {2, 3} : Len(able) >= k /\ MutuallyLan(g, First(able, k))}
      pod == First(able, MaxOf(pods))
  IN  IF pods = {} THEN <<>> ELSE <<Candidate("tensor", pod, TensorMs(g, pod))>>

Speculatives(g, R, C) ==
  LET strong == Fastest(R)
      drafts == Row({n \in C \ {strong} : /\ Can(n, "speculative") \/ Can(n, "draft")
                                         /\ Link(g, strong, n).rtt <= 50})
  IN  IF R = {} \/ drafts = <<>> THEN <<>>
      ELSE <<Candidate("speculative", <<strong, drafts[1]>>, SpeculativeMs(strong))>>

(* Of the nodes of N those that run a backend of the model; the links of   *)
(* the others are in the graph all the same.                               *)
Candidates(N, allowed) ==
  LET C == {n \in N : cap[n].box.runs}
      R == {n \in C : Fits(n)}
      g == Graph(N)
      If(strategy, cs) == IF allowed = {} \/ strategy \in allowed THEN cs ELSE <<>>
  IN  If("single", Singles(Row(R))) \o If("pipeline", Pipelines(g, C))
        \o If("tensor", Tensors(g, R)) \o If("speculative", Speculatives(g, R, C))

(* The plan on the nodes of N, or None: no backend, or "infeasible".       *)
Plan(N, allowed) ==
  LET cs == Candidates(N, allowed)
  IN  IF cs = <<>> THEN None ELSE cs[FirstLeast([i \in DOMAIN cs |-> cs[i].ms])]

(***************************************************************************)
(* _assign: a pipeline splits the layers evenly along its chain and the    *)
(* last node takes the rest; a member of another plan holds them all, but  *)
(* for the second of a speculative pair, which holds a draft model.        *)
(***************************************************************************)

Layers == 64
Assign(p) ==
  LET count == Len(p.chain)
      per   == Layers \div count
      Part(i) == IF p.strategy = "pipeline"
                 THEN [from |-> (i - 1) * per, to |-> IF i = count THEN Layers ELSE i * per]
                 ELSE [from |-> 0, to |-> IF p.strategy = "speculative" /\ i = 2 THEN 0 ELSE Layers]
  IN  [i \in 1..count |-> Part(i)]
Held(p, i) == (Need * (Assign(p)[i].to - Assign(p)[i].from)) \div Layers

Known == {n \in Nodes : cap[n] # None}
-----------------------------------------------------------------------------

(* Capabilities and heartbeats have their types; a node never advertises   *)
(* more free VRAM than it has.                                             *)
SchedulerTypeOK ==
  \A n \in Nodes :
    /\ cap[n] # None => /\ cap[n].box \in Boxes
                        /\ cap[n].free \in 0..cap[n].total
    /\ beat[n] # None => /\ cap[n] # None /\ beat[n].queue \in Queues /\ beat[n].ram \in Rams
                         /\ \A p \in DOMAIN beat[n].rtts : beat[n].rtts[p] \in RTTs

(* In whatever order the samples are put into the graph, a direction that  *)
(* a node measured itself has its own measurement, else the one of the     *)
(* other end, else none: the default for the reverse never wins.           *)
LinksAsMeasured ==
  LET g == Graph(Known)
      Sampled(a, b) == a \in Known /\ b \in Known /\ beat[a] # None /\ b \in DOMAIN beat[a].rtts
  IN  \A a, b \in Nodes : a # b =>
        g[a][b] = IF Sampled(a, b) THEN Direct(beat[a].rtts[b])
                  ELSE IF Sampled(b, a) THEN Direct(beat[b].rtts[a]) ELSE None

(* More nodes help, up to a limit: a further node makes the best plan      *)
(* slower only if the best plan without it was a split over several nodes, *)
(* whose members the newcomer displaces.                                   *)
SlowerOnlyBySplit ==
  \A allowed \in {{}, {"single"}} :
    LET after == Plan(Known, allowed) IN
    \A n \in Known :
      LET before == Plan(Known \ {n}, allowed) IN
      before # None /\ before.strategy = "single" => after # None /\ after.ms <= before.ms

(* "so the scheduler never over-places beyond what this contributor        *)
(* actually chose to donate" (_post_capability), and when it does: a node  *)
(* is made to hold more than its share of VRAM only if it advertises no    *)
(* free VRAM at all (zero is taken for unknown), has several cards (each   *)
(* is capped to the share of all), or was declared by the script.  Of a    *)
(* pipeline, admitted by its joint memory and split evenly, one of the two *)
(* may be given more layers than it can hold, never both.                  *)
OverPlacedOnlyIf ==
  \A allowed \in {{}, {"single"}} :
    LET p == Plan(Known, allowed) IN
    p # None =>
      LET over == {i \in DOMAIN p.chain : Held(p, i) > Usable(p.chain[i])} IN
      /\ p.strategy \in {"single", "tensor"} =>
           \A n \in ToSet(p.chain) :
             LET box == cap[n].box IN
             Need * 100 > cap[n].total * box.share =>
               cap[n].free = 0 \/ Len(box.cards) > 1 \/ ~ box.managed
      /\ over # {} => p.strategy = "pipeline" /\ Cardinality(over) = 1

=============================================================================
