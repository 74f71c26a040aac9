---------------------------- MODULE ControlPlane ----------------------------
(***************************************************************************)
(* The control plane: node table, challenge nonces, execution plans, work  *)
(* receipts and the credit ledger (app.py over the SQLite tables of        *)
(* store.py).                                                              *)
(*                                                                         *)
(* Every HTTP handler runs without an await on one event loop, so a        *)
(* handler is one action, with one exception: submit_receipt commits the   *)
(* receipt row and the ledger row in two transactions, and a crash of the  *)
(* process can fall between them, or the second fail.  It is two actions   *)
(* here, and no other handler runs between the two.                        *)
(*                                                                         *)
(* A nonce is <<n, k>>, the k-th random token drawn for node n: draws      *)
(* never collide, so the node and the draw identify the token.  Time is    *)
(* counted in ticks: age[n] is the time since the last_seen column of n,   *)
(* saturated just past the heartbeat timeout.                              *)
(***************************************************************************)
EXTENDS WorkReceipt, Sequences, FiniteSets

CONSTANTS
  Nodes,          \* node ids; an id is derived from the node's key
  Pools,          \* pool ids
  Models,         \* manifest hashes a plan can be made for
  ReceiptIds,     \* receipt_id values clients choose
  Work,           \* measured work a receipt can claim
  Timeout,        \* HEARTBEAT_TIMEOUT_S, in clock ticks
  MaxOutstanding, \* MAX_OUTSTANDING_NONCES
  MaxDraws,       \* bound: nonces drawn per node
  MaxPlans,       \* bound: plans issued
  MaxCrashes,     \* bound: crashes of the process
  MaxFailures     \* bound: calls of append_ledger that raise

ASSUME ControlPlaneAssumption ==
  /\ Work \subseteq MeasuredWork
  /\ Timeout \in Nat
  /\ MaxOutstanding \in Nat \ {0}
  /\ MaxDraws \in Nat
  /\ MaxPlans \in Nat
  /\ MaxCrashes \in Nat
  /\ MaxFailures \in Nat

VARIABLES
  registered,  \* rows of the nodes table                        (on disk)
  pools,       \* pool_ids column of each row                    (on disk)
  caps,        \* nodes with a row in capabilities               (on disk)
  age,         \* ticks since last_seen                          (on disk)
  plans,       \* rows of the sessions table, in order of issue  (on disk)
  receipts,    \* rows of the receipts table                     (on disk)
  ledger,      \* rows of the ledger table, in order of id       (on disk)
  issued,      \* issued_nonces                                  (in memory)
  drawn,       \* how many tokens secrets.token_hex drew per node
  paying,      \* receipts put_receipt accepted and append_ledger has not
               \* credited: the local state of submit_receipt    (in memory)
  crashes,     \* crashes so far
  failures     \* calls of append_ledger that raised so far

nodeVars    == <<registered, pools, caps, age>>
accountVars == <<receipts, ledger, paying>>
mishaps     == <<crashes, failures>>
vars == <<registered, pools, caps, age, plans, receipts, ledger, issued, drawn,
          paying, crashes, failures>>

Nonce == Nodes \X (Nat \ {0})

Plan == [chain : SUBSET Nodes, model : Models]

Receipt == [id : ReceiptIds, node : Nodes, plan : Nat \ {0}, model : Models,
            nonce : Nonce, work : Work]

LedgerRow == [node : Nodes, delta : Int, ref : ReceiptIds]

TypeOK ==
  /\ registered \subseteq Nodes
  /\ pools \in [Nodes -> SUBSET Pools]
  /\ caps \subseteq registered
  /\ age \in [Nodes -> 0 .. Timeout + 1]
  /\ plans \in Seq(Plan)
  /\ receipts \subseteq Receipt
  /\ ledger \in Seq(LedgerRow)
  /\ issued \in [Nodes -> SUBSET Nonce]
  /\ drawn \in [Nodes -> 0 .. MaxDraws]
  /\ paying \subseteq receipts
  /\ crashes \in 0 .. MaxCrashes
  /\ failures \in 0 .. MaxFailures

Init ==
  /\ registered = {}
  /\ pools = [n \in Nodes |-> {}]
  /\ caps = {}
  /\ age = [n \in Nodes |-> Timeout + 1]
  /\ plans = <<>>
  /\ receipts = {}
  /\ ledger = <<>>
  /\ issued = [n \in Nodes |-> {}]
  /\ drawn = [n \in Nodes |-> 0]
  /\ paying = {}
  /\ crashes = 0
  /\ failures = 0

(***************************************************************************)
(* The event loop is free to start a handler.                              *)
(***************************************************************************)
Idle == paying = {}

(***************************************************************************)
(* _issue_nonce: a fresh token joins the node's bucket; a full bucket      *)
(* first loses an arbitrary member (set.pop).                              *)
(***************************************************************************)
IssueNonce(n) ==
  /\ drawn[n] < MaxDraws
  /\ drawn' = [drawn EXCEPT ![n] = @ + 1]
  /\ LET nonce == <<n, drawn[n] + 1>>
     IN  \/ /\ Cardinality(issued[n]) < MaxOutstanding
            /\ issued' = [issued EXCEPT ![n] = @ \cup {nonce}]
         \/ /\ Cardinality(issued[n]) >= MaxOutstanding
            /\ \E old \in issued[n] :
                 issued' = [issued EXCEPT ![n] = (@ \ {old}) \cup {nonce}]

\* POST /nodes/register: the row is written again on every registration; the
\* key column never changes, because the node id is derived from the key.
Register(n, ps) ==
  /\ Idle
  /\ registered' = registered \cup {n}
  /\ pools' = [pools EXCEPT ![n] = ps]
  /\ age' = [age EXCEPT ![n] = 0]
  /\ IssueNonce(n)
  /\ UNCHANGED <<caps, plans, accountVars, mishaps>>

\* Fault: new capabilities count as a registration, which starts a new bucket.
PostCapabilitiesAfresh(n) ==
  /\ Idle
  /\ n \in registered
  /\ caps' = caps \cup {n}
  /\ issued' = [issued EXCEPT ![n] = {}]
  /\ UNCHANGED <<registered, pools, age, plans, accountVars, drawn, mishaps>>

\* POST /nodes/{id}/capabilities
PostCapabilities(n) ==
  /\ Idle
  /\ n \in registered
  /\ caps' = caps \cup {n}
  /\ UNCHANGED <<registered, pools, age, plans, accountVars, issued, drawn, mishaps>>

\* POST /nodes/{id}/heartbeat.  The load figures kept in live_heartbeats only
\* steer which candidates the scheduler prefers, which Schedule leaves open.
Heartbeat(n) ==
  /\ Idle
  /\ n \in registered
  /\ age' = [age EXCEPT ![n] = 0]
  /\ IssueNonce(n)
  /\ UNCHANGED <<registered, pools, caps, plans, accountVars, mishaps>>

(***************************************************************************)
(* POST /schedule considers the nodes seen within the timeout, in the      *)
(* pool, with a capability on file.  Which of them the cost model prefers  *)
(* is left open here: any non-empty set of them may be the peer chain.     *)
(***************************************************************************)
Candidates(pool) ==
  {n \in registered \cap caps : age[n] <= Timeout /\ pool \in pools[n]}

Schedule(pool, m, chain) ==
  /\ Idle
  /\ Len(plans) < MaxPlans
  /\ chain # {}
  /\ chain \subseteq Candidates(pool)
  /\ plans' = Append(plans, [chain |-> chain, model |-> m])
  /\ UNCHANGED <<nodeVars, accountVars, issued, drawn, mishaps>>

\* Fault: the nonce may be outstanding for any node.
AdmissibleAnyNonce(r) ==
  /\ r.node \in registered
  /\ r.plan \in 1 .. Len(plans)
  /\ r.node \in plans[r.plan].chain
  /\ r.model = plans[r.plan].model
  /\ \E n \in Nodes : r.nonce \in issued[n]

(***************************************************************************)
(* POST /work-receipts.  The checks, in the order of the code: a known     *)
(* node, a plan the scheduler stored, the node in its chain, the plan's    *)
(* model, and a nonce outstanding for this node.  (The signature and the   *)
(* plausibility of the time window filter the inputs and read no state;    *)
(* a refused receipt changes nothing.)                                     *)
(***************************************************************************)
Admissible(r) ==
  /\ r.node \in registered
  /\ r.plan \in 1 .. Len(plans)
  /\ r.node \in plans[r.plan].chain
  /\ r.model = plans[r.plan].model
  /\ r.nonce \in issued[r.node]

\* Fault: receipt_id is not a key.
ConflictsByNonce(r, s) == s.node = r.node /\ s.nonce = r.nonce

\* The UNIQUE constraints of the receipts table: receipt_id, (node_id, nonce).
Conflicts(r, s) ==
  \/ s.id = r.id
  \/ s.node = r.node /\ s.nonce = r.nonce

\* Fault: the nonce of an accepted receipt stays in the bucket.
PutReceiptKeepNonce(r) ==
  /\ Idle
  /\ Admissible(r)
  /\ \A s \in receipts : ~Conflicts(r, s)
  /\ receipts' = receipts \cup {r}
  /\ paying' = {r}
  /\ UNCHANGED <<nodeVars, plans, ledger, issued, drawn, mishaps>>

\* put_receipt inserts the row, or raises IntegrityError and the client gets
\* 409; an accepted receipt uses up its nonce.
PutReceipt(r) ==
  /\ Idle
  /\ Admissible(r)
  /\ \A s \in receipts : ~Conflicts(r, s)
  /\ receipts' = receipts \cup {r}
  /\ issued' = [issued EXCEPT ![r.node] = @ \ {r.nonce}]
  /\ paying' = {r}
  /\ UNCHANGED <<nodeVars, plans, ledger, drawn, mishaps>>

\* Fault: work that earned nothing gets no ledger row.
AppendIfEarned(r) ==
  /\ r \in paying
  /\ ledger' = IF CreditFor(r.work) = 0 THEN ledger
               ELSE Append(ledger, [node |-> r.node, delta |-> CreditFor(r.work), ref |-> r.id])
  /\ paying' = {}
  /\ UNCHANGED <<nodeVars, plans, receipts, issued, drawn, mishaps>>

\* Fault: the second transaction is retried although it committed.
AppendRetried(r) ==
  /\ r \in paying
  /\ ledger' = Append(ledger, [node |-> r.node, delta |-> CreditFor(r.work), ref |-> r.id])
  /\ UNCHANGED <<nodeVars, plans, receipts, issued, drawn, paying, mishaps>>

\* append_ledger, the second transaction of the handler.
AppendLedger(r) ==
  /\ r \in paying
  /\ ledger' = Append(ledger, [node |-> r.node, delta |-> CreditFor(r.work), ref |-> r.id])
  /\ paying' = {}
  /\ UNCHANGED <<nodeVars, plans, receipts, issued, drawn, mishaps>>

\* append_ledger raises (the disk is full, another process locks the database):
\* the client gets 500, and the receipt's row and its used nonce stay.
AppendFails(r) ==
  /\ r \in paying
  /\ failures < MaxFailures
  /\ failures' = failures + 1
  /\ paying' = {}
  /\ UNCHANGED <<nodeVars, plans, receipts, ledger, issued, drawn, crashes>>

(***************************************************************************)
(* The process dies and comes back: the tables are as the last commit left *)
(* them, what was in memory is gone.                                       *)
(***************************************************************************)
Crash ==
  /\ crashes < MaxCrashes
  /\ crashes' = crashes + 1
  /\ issued' = [n \in Nodes |-> {}]
  /\ paying' = {}
  /\ UNCHANGED <<nodeVars, plans, receipts, ledger, drawn, failures>>

\* The clock advances; every row ages.
Tick ==
  /\ age' = [n \in Nodes |-> IF age[n] <= Timeout THEN age[n] + 1 ELSE age[n]]
  /\ UNCHANGED <<registered, pools, caps, plans, accountVars, issued, drawn, mishaps>>

DrawnNonces == {<<n, k>> : n \in Nodes, k \in 1 .. MaxDraws}

Submissions ==
  [id : ReceiptIds, node : Nodes, plan : 1 .. MaxPlans, model : Models,
   nonce : DrawnNonces, work : Work]

Next ==
  \/ \E n \in Nodes, ps \in SUBSET Pools : Register(n, ps)
  \/ \E n \in Nodes : PostCapabilities(n)
  \/ \E n \in Nodes : Heartbeat(n)
  \/ \E pool \in Pools, m \in Models, chain \in SUBSET Nodes : Schedule(pool, m, chain)
  \/ \E r \in Submissions : PutReceipt(r)
  \/ \E r \in paying : AppendLedger(r) \/ AppendFails(r)
  \/ Crash
  \/ Tick

Spec == Init /\ [][Next]_vars

-----------------------------------------------------------------------------
(***************************************************************************)
(* Properties.                                                             *)
(***************************************************************************)

Paid(r) == \E i \in DOMAIN ledger : ledger[i].ref = r.id

\* No receipt is credited twice, whatever is resubmitted, under whichever
\* nonce, before or after a crash (UNIQUE receipt_id and the order of the two
\* transactions of submit_receipt).
ReceiptPaidOnce ==
  \A i, j \in DOMAIN ledger : ledger[i].ref = ledger[j].ref => i = j

\* Every credit is owed: the ledger row names a stored receipt, pays the node
\* the receipt's nonce was drawn for, that node served in the plan, for the
\* model of the plan, and the amount is the formula's.
CreditIsOwed ==
  \A i \in DOMAIN ledger : \E r \in receipts :
    /\ r.id = ledger[i].ref
    /\ r.node = ledger[i].node
    /\ r.nonce[1] = ledger[i].node
    /\ r.plan \in DOMAIN plans
    /\ r.node \in plans[r.plan].chain
    /\ r.model = plans[r.plan].model
    /\ ledger[i].delta = CreditFor(r.work)

\* A nonce some stored receipt used is not outstanding any more, so the
\* nonce check and the UNIQUE (node_id, nonce) constraint never disagree.
SpentNotOutstanding ==
  \A r \in receipts : r.nonce \notin issued[r.node]

\* The in-memory buckets stay within MAX_OUTSTANDING_NONCES however many
\* heartbeats a node sends without ever returning a receipt.
BucketBounded ==
  \A n \in Nodes : Cardinality(issued[n]) <= MaxOutstanding

\* A stored receipt goes without credit only because a crash fell between the
\* two transactions or the second one failed: at most one such receipt per
\* mishap, besides the one the running handler is paying.
UnpaidOnlyByMishap ==
  Cardinality({r \in receipts : ~Paid(r)}) <= crashes + failures + Cardinality(paying)

\* A full bucket makes room for a nonce it draws: for one it loses one.
MakesRoom(n, nonce) ==
  /\ Cardinality(issued[n]) = MaxOutstanding
  /\ drawn'[n] = drawn[n] + 1
  /\ issued[n] \ issued'[n] = {nonce}

\* A nonce stays good until a receipt uses it, a crash empties the buckets, or
\* a full bucket makes room for another: no other request takes an outstanding
\* nonce away, neither of the node itself nor of another one.
NonceSurvives ==
  [][\A n \in Nodes : \A nonce \in issued[n] :
       \/ nonce \in issued'[n]
       \/ \E r \in receipts' : r.node = n /\ r.nonce = nonce
       \/ crashes' > crashes
       \/ MakesRoom(n, nonce)]_vars

(***************************************************************************)
(* The abstract ledger, read off the tables.                               *)
(***************************************************************************)
Accepted == {[id |-> r.id, nonce |-> r.nonce] : r \in receipts}

Entries ==
  [id \in ReceiptIds |->
     {[row |-> i, payee |-> ledger[i].node] : i \in {j \in DOMAIN ledger : ledger[j].ref = id}}]

CL == INSTANCE CreditLedger WITH
        Payees <- Nodes, Tokens <- DrawnNonces, Receipts <- ReceiptIds,
        accepted <- Accepted, length <- Len(ledger), entries <- Entries

\* The tables of the control plane implement the abstract ledger: receipts are
\* accepted and paid as CreditLedger says, and nothing else shows.
ImplementsCreditLedger == CL!Spec
=============================================================================
