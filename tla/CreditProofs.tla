---------------------------- MODULE CreditProofs ----------------------------
(***************************************************************************)
(* Proofs about who is credited for what.  Part one: the control plane,    *)
(* for every set of nodes, pools, models and receipts and every value of   *)
(* the bounds, and that it implements CreditLedger.  Part two: the         *)
(* replicated ledger, for any replicas, entry lists and number of blocks.  *)
(***************************************************************************)
EXTENDS ControlPlane, LedgerChain, FiniteSetTheorems, WellFoundedInduction, TLAPS

-----------------------------------------------------------------------------
(***************************************************************************)
(* Type correctness.                                                       *)
(***************************************************************************)

\* Issuing a nonce keeps the buckets sets of nonces and the draws in bounds.
LEMMA IssueNonceType ==
  ASSUME TypeOK, NEW n \in Nodes, IssueNonce(n)
  PROVE  /\ issued' \in [Nodes -> SUBSET Nonce]
         /\ drawn' \in [Nodes -> 0 .. MaxDraws]
<1>1. <<n, drawn[n] + 1>> \in Nonce
  BY DEF TypeOK, Nonce
<1>2. drawn' \in [Nodes -> 0 .. MaxDraws]
  BY ControlPlaneAssumption DEF TypeOK, IssueNonce, ControlPlaneAssumption
<1>3. issued' \in [Nodes -> SUBSET Nonce]
  <2>1. PICK new \in SUBSET Nonce : issued' = [issued EXCEPT ![n] = new]
    <3>1. issued[n] \in SUBSET Nonce
      BY DEF TypeOK
    <3> QED BY <1>1, <3>1 DEF IssueNonce
  <2> QED BY <2>1 DEF TypeOK
<1> QED BY <1>2, <1>3

\* The formula pays a whole number of millionths for every possible work.
LEMMA CreditForType ==
  ASSUME NEW w \in MeasuredWork
  PROVE  CreditFor(w) \in Int
BY DEF MeasuredWork, CreditFor, Thousandths

LEMMA TypeInit == Init => TypeOK
BY ControlPlaneAssumption DEF ControlPlaneAssumption, Init, TypeOK

LEMMA TypeStep == TypeOK /\ [Next]_vars => TypeOK'
<1> SUFFICES ASSUME TypeOK, [Next]_vars PROVE TypeOK'
  OBVIOUS
<1> USE ControlPlaneAssumption DEF ControlPlaneAssumption, nodeVars, accountVars, mishaps
<1>1. ASSUME NEW n \in Nodes, NEW ps \in SUBSET Pools, Register(n, ps)
      PROVE  TypeOK'
  BY <1>1, IssueNonceType DEF TypeOK, Register
<1>2. ASSUME NEW n \in Nodes, PostCapabilities(n)
      PROVE  TypeOK'
  BY <1>2 DEF TypeOK, PostCapabilities
<1>3. ASSUME NEW n \in Nodes, Heartbeat(n)
      PROVE  TypeOK'
  BY <1>3, IssueNonceType DEF TypeOK, Heartbeat
<1>4. ASSUME NEW pool \in Pools, NEW m \in Models, NEW hops \in SUBSET Nodes,
             Schedule(pool, m, hops)
      PROVE  TypeOK'
  <2>1. plans' \in Seq(Plan)
    BY <1>4 DEF TypeOK, Schedule, Plan
  <2> QED BY <1>4, <2>1 DEF TypeOK, Schedule
<1>5. ASSUME NEW r \in Submissions, PutReceipt(r)
      PROVE  TypeOK'
  <2>1. r \in Receipt
    BY DEF Submissions, Receipt, DrawnNonces, Nonce
  <2>2. issued' \in [Nodes -> SUBSET Nonce]
    BY <1>5 DEF TypeOK, PutReceipt
  <2> QED BY <1>5, <2>1, <2>2 DEF TypeOK, PutReceipt
<1>6. ASSUME NEW r \in paying, AppendLedger(r)
      PROVE  TypeOK'
  <2>1. r \in Receipt
    BY DEF TypeOK
  <2>2. [node |-> r.node, delta |-> CreditFor(r.work), ref |-> r.id] \in LedgerRow
    BY <2>1, CreditForType DEF Receipt, LedgerRow
  <2>3. ledger' \in Seq(LedgerRow)
    BY <1>6, <2>2 DEF TypeOK, AppendLedger
  <2> QED BY <1>6, <2>3 DEF TypeOK, AppendLedger
<1>7. CASE Crash
  BY <1>7 DEF TypeOK, Crash
<1>8. CASE Tick
  BY <1>8 DEF TypeOK, Tick
<1>9. CASE UNCHANGED vars
  BY <1>9 DEF TypeOK, vars
<1>10. ASSUME NEW r \in paying, AppendFails(r)
       PROVE  TypeOK'
  BY <1>10 DEF TypeOK, AppendFails
<1> QED
  BY <1>1, <1>2, <1>3, <1>4, <1>5, <1>6, <1>7, <1>8, <1>9, <1>10 DEF Next

\* Every reachable state of the control plane is well typed.
THEOREM TypeCorrect == Spec => []TypeOK
BY TypeInit, TypeStep, PTL DEF Spec

-----------------------------------------------------------------------------
(***************************************************************************)
(* The inductive invariant of the accounting.  ReceiptPaidOnce and         *)
(* CreditIsOwed are not inductive: that a row appended now pays a receipt  *)
(* no earlier row pays needs that a receipt being paid has no row yet      *)
(* (PayingUnpaid), that ids identify stored receipts (IdsUnique) and that  *)
(* every row names a stored receipt; that a new nonce was not spent before *)
(* needs that every nonce in use was drawn (NoncesDrawn, ReceiptsBacked).  *)
(***************************************************************************)

\* The code handles one receipt at a time.
OnePaying == \A r, s \in paying : r = s

PayingUnpaid == \A r \in paying : ~Paid(r)

IdsUnique == \A r, s \in receipts : r.id = s.id => r = s

\* Outstanding nonces were drawn for the node in whose bucket they are.
NoncesDrawn ==
  \A n \in Nodes : \A v \in issued[n] : v[1] = n /\ v[2] \in 1 .. drawn[n]

\* A stored receipt passed every check, and its nonce was drawn.
ReceiptsBacked ==
  \A r \in receipts :
    /\ r.nonce[1] = r.node
    /\ r.nonce[2] \in 1 .. drawn[r.node]
    /\ r.plan \in DOMAIN plans
    /\ r.node \in plans[r.plan].chain
    /\ r.model = plans[r.plan].model

AInv ==
  /\ OnePaying
  /\ PayingUnpaid
  /\ IdsUnique
  /\ NoncesDrawn
  /\ ReceiptsBacked
  /\ SpentNotOutstanding
  /\ CreditIsOwed
  /\ ReceiptPaidOnce

LEMMA AccountInit == Init => AInv
BY DEF Init, AInv, OnePaying, PayingUnpaid, IdsUnique, NoncesDrawn, ReceiptsBacked,
       SpentNotOutstanding, CreditIsOwed, ReceiptPaidOnce

\* A step that writes none of the accounting tables keeps the invariant.
LEMMA AccountUnchanged ==
  ASSUME AInv, UNCHANGED <<plans, receipts, ledger, paying, issued, drawn>>
  PROVE  AInv'
BY DEF AInv, OnePaying, PayingUnpaid, Paid, IdsUnique, NoncesDrawn, ReceiptsBacked,
       SpentNotOutstanding, CreditIsOwed, ReceiptPaidOnce

\* A new nonce is one no stored receipt has used.
LEMMA AccountIssue ==
  ASSUME TypeOK, AInv, NEW n \in Nodes, IssueNonce(n),
         UNCHANGED <<plans, receipts, ledger, paying>>
  PROVE  AInv'
<1> DEFINE new == <<n, drawn[n] + 1>>
<1>1. /\ \A m \in Nodes : issued'[m] \subseteq issued[m] \cup {v \in {new} : m = n}
      /\ \A m \in Nodes : drawn'[m] = IF m = n THEN drawn[m] + 1 ELSE drawn[m]
  BY DEF TypeOK, IssueNonce
<1>2. \A m \in Nodes : drawn[m] \in Nat
  BY ControlPlaneAssumption DEF ControlPlaneAssumption, TypeOK
<1>3. NoncesDrawn'
  BY <1>1, <1>2 DEF AInv, NoncesDrawn
<1>4. \A r \in receipts : r \in Receipt /\ r.node \in Nodes
  BY DEF TypeOK, Receipt
<1>5. ReceiptsBacked'
  BY <1>1, <1>2, <1>4 DEF AInv, ReceiptsBacked
<1>6. SpentNotOutstanding'
  <2> SUFFICES ASSUME NEW r \in receipts, r.nonce \in issued'[r.node]
               PROVE  FALSE
    BY DEF SpentNotOutstanding
  <2>1. r.nonce \notin issued[r.node]
    BY DEF AInv, SpentNotOutstanding
  <2>2. r.nonce = new /\ r.node = n
    BY <1>1, <1>4, <2>1
  <2> QED BY <1>2, <1>4, <2>2 DEF AInv, ReceiptsBacked
<1>7. OnePaying' /\ PayingUnpaid' /\ IdsUnique' /\ CreditIsOwed' /\ ReceiptPaidOnce'
  BY DEF AInv, OnePaying, PayingUnpaid, Paid, IdsUnique, CreditIsOwed, ReceiptPaidOnce
<1> QED BY <1>3, <1>5, <1>6, <1>7 DEF AInv

\* A plan is never rewritten, so what a receipt was checked against stays true.
LEMMA AccountSchedule ==
  ASSUME TypeOK, AInv, NEW pool \in Pools, NEW m \in Models, NEW hops \in SUBSET Nodes,
         Schedule(pool, m, hops)
  PROVE  AInv'
<1> USE DEF accountVars
<1>1. \A i \in DOMAIN plans : i \in DOMAIN plans' /\ plans'[i] = plans[i]
  BY DEF TypeOK, Schedule
<1>2. ReceiptsBacked'
  BY <1>1 DEF AInv, ReceiptsBacked, Schedule
<1>3. CreditIsOwed'
  BY <1>1 DEF AInv, CreditIsOwed, Schedule
<1>4. OnePaying' /\ PayingUnpaid' /\ IdsUnique' /\ NoncesDrawn' /\ SpentNotOutstanding'
        /\ ReceiptPaidOnce'
  BY DEF AInv, OnePaying, PayingUnpaid, Paid, IdsUnique, NoncesDrawn, SpentNotOutstanding,
         ReceiptPaidOnce, Schedule
<1> QED BY <1>2, <1>3, <1>4 DEF AInv

\* A receipt is stored under a new id, spends an outstanding nonce and has no
\* ledger row yet.
LEMMA AccountPut ==
  ASSUME TypeOK, AInv, NEW r \in Submissions, PutReceipt(r)
  PROVE  AInv'
<1> USE DEF accountVars
<1>1. r.node \in Nodes /\ r.plan \in Nat \ {0}
  BY DEF Submissions
<1>2. /\ receipts' = receipts \cup {r}
      /\ paying' = {r}
      /\ UNCHANGED <<plans, ledger, drawn>>
      /\ \A s \in receipts : s.id # r.id
  BY DEF PutReceipt, Conflicts
<1>3. \A n \in Nodes : issued'[n] = IF n = r.node THEN issued[n] \ {r.nonce} ELSE issued[n]
  BY <1>1 DEF TypeOK, PutReceipt
<1>4. OnePaying'
  BY <1>2 DEF OnePaying
<1>5. PayingUnpaid'
  BY <1>2 DEF AInv, CreditIsOwed, PayingUnpaid, Paid
<1>6. IdsUnique'
  BY <1>2 DEF AInv, IdsUnique
<1>7. NoncesDrawn'
  BY <1>2, <1>3 DEF AInv, NoncesDrawn
<1>8. /\ r.nonce[1] = r.node
      /\ r.nonce[2] \in 1 .. drawn[r.node]
      /\ r.plan \in DOMAIN plans
      /\ r.node \in plans[r.plan].chain
      /\ r.model = plans[r.plan].model
  BY <1>1 DEF AInv, NoncesDrawn, PutReceipt, Admissible, TypeOK
<1>9. ReceiptsBacked'
  BY <1>2, <1>8 DEF AInv, ReceiptsBacked
<1>10. SpentNotOutstanding'
  <2>1. \A s \in receipts : s.node \in Nodes
    BY DEF TypeOK, Receipt
  <2> QED BY <1>1, <1>2, <1>3, <2>1 DEF AInv, SpentNotOutstanding
<1>11. CreditIsOwed' /\ ReceiptPaidOnce'
  BY <1>2 DEF AInv, CreditIsOwed, ReceiptPaidOnce
<1> QED BY <1>4, <1>5, <1>6, <1>7, <1>9, <1>10, <1>11 DEF AInv

\* The row appended is the first one for the receipt being paid.
LEMMA AccountAppend ==
  ASSUME TypeOK, AInv, NEW r \in paying, AppendLedger(r)
  PROVE  AInv'
<1> USE DEF accountVars
<1> DEFINE row == [node |-> r.node, delta |-> CreditFor(r.work), ref |-> r.id]
<1>1. /\ r \in receipts
      /\ paying' = {}
      /\ UNCHANGED <<plans, receipts, issued, drawn>>
  BY DEF TypeOK, AppendLedger
<1>2. /\ DOMAIN ledger' = DOMAIN ledger \cup {Len(ledger) + 1}
      /\ \A i \in DOMAIN ledger : ledger'[i] = ledger[i] /\ i # Len(ledger) + 1
      /\ ledger'[Len(ledger) + 1] = row
  BY DEF TypeOK, AppendLedger
<1>3. \A i \in DOMAIN ledger : ledger[i].ref # r.id
  BY DEF AInv, PayingUnpaid, Paid
<1>4. ReceiptPaidOnce'
  BY <1>2, <1>3 DEF AInv, ReceiptPaidOnce
<1>5. CreditIsOwed'
  <2>1. \A i \in DOMAIN ledger : \E s \in receipts' :
           /\ s.id = ledger'[i].ref /\ s.node = ledger'[i].node
           /\ s.nonce[1] = ledger'[i].node /\ s.plan \in DOMAIN plans'
           /\ s.node \in plans'[s.plan].chain /\ s.model = plans'[s.plan].model
           /\ ledger'[i].delta = CreditFor(s.work)
    BY <1>1, <1>2 DEF AInv, CreditIsOwed
  <2>2. /\ r.id = row.ref /\ r.node = row.node /\ r.nonce[1] = row.node
        /\ r.plan \in DOMAIN plans /\ r.node \in plans[r.plan].chain
        /\ r.model = plans[r.plan].model /\ row.delta = CreditFor(r.work)
    BY <1>1 DEF AInv, ReceiptsBacked
  <2> QED BY <1>1, <1>2, <2>1, <2>2 DEF CreditIsOwed
<1>6. OnePaying' /\ PayingUnpaid' /\ IdsUnique' /\ NoncesDrawn' /\ ReceiptsBacked'
        /\ SpentNotOutstanding'
  BY <1>1 DEF AInv, OnePaying, PayingUnpaid, IdsUnique, NoncesDrawn, ReceiptsBacked,
              SpentNotOutstanding
<1> QED BY <1>4, <1>5, <1>6 DEF AInv

\* A crash forgets nonces and the receipt being paid, and no row.
LEMMA AccountCrash ==
  ASSUME TypeOK, AInv, Crash
  PROVE  AInv'
<1>1. SpentNotOutstanding'
  BY DEF TypeOK, Receipt, Crash, SpentNotOutstanding
<1>2. NoncesDrawn'
  BY DEF Crash, NoncesDrawn
<1>3. OnePaying' /\ PayingUnpaid' /\ IdsUnique' /\ ReceiptsBacked' /\ CreditIsOwed'
        /\ ReceiptPaidOnce'
  BY DEF AInv, Crash, OnePaying, PayingUnpaid, IdsUnique, ReceiptsBacked, CreditIsOwed,
         ReceiptPaidOnce
<1> QED BY <1>1, <1>2, <1>3 DEF AInv

\* A failed append_ledger leaves every row and every nonce.
LEMMA AccountFails ==
  ASSUME TypeOK, AInv, NEW r \in paying, AppendFails(r)
  PROVE  AInv'
<1>1. paying' = {} /\ UNCHANGED <<plans, receipts, ledger, issued, drawn>>
  BY DEF AppendFails
<1> QED
  BY <1>1 DEF AInv, OnePaying, PayingUnpaid, IdsUnique, NoncesDrawn, ReceiptsBacked,
              SpentNotOutstanding, CreditIsOwed, ReceiptPaidOnce

LEMMA AccountStep == TypeOK /\ AInv /\ [Next]_vars => AInv'
<1> SUFFICES ASSUME TypeOK, AInv, [Next]_vars PROVE AInv'
  OBVIOUS
<1> USE DEF accountVars
<1>1. ASSUME NEW n \in Nodes, NEW ps \in SUBSET Pools, Register(n, ps)
      PROVE  AInv'
  BY <1>1, AccountIssue DEF Register
<1>2. ASSUME NEW n \in Nodes, PostCapabilities(n)
      PROVE  AInv'
  BY <1>2, AccountUnchanged DEF PostCapabilities
<1>3. ASSUME NEW n \in Nodes, Heartbeat(n)
      PROVE  AInv'
  BY <1>3, AccountIssue DEF Heartbeat
<1>4. CASE Tick
  BY <1>4, AccountUnchanged DEF Tick
<1>5. CASE UNCHANGED vars
  BY <1>5, AccountUnchanged DEF vars
<1> QED
  BY <1>1, <1>2, <1>3, <1>4, <1>5, AccountSchedule, AccountPut, AccountAppend, AccountFails,
     AccountCrash DEF Next

\* The inductive invariant holds in every reachable state.
THEOREM AccountInvariant == Spec => [](TypeOK /\ AInv)
<1>1. Init => TypeOK /\ AInv
  BY TypeInit, AccountInit
<1>2. TypeOK /\ AInv /\ [Next]_vars => TypeOK' /\ AInv'
  BY TypeStep, AccountStep
<1> QED BY <1>1, <1>2, PTL DEF Spec

\* No receipt is ever credited twice, for any number of nodes, receipts,
\* nonces and crashes.
THEOREM PaidOnce == Spec => []ReceiptPaidOnce
<1>1. TypeOK /\ AInv => ReceiptPaidOnce
  BY DEF AInv
<1> QED BY <1>1, AccountInvariant, PTL

\* Every ledger row is owed to the node it pays.
THEOREM Owed == Spec => []CreditIsOwed
<1>1. TypeOK /\ AInv => CreditIsOwed
  BY DEF AInv
<1> QED BY <1>1, AccountInvariant, PTL

\* The in-memory buckets and the UNIQUE constraint agree on spent nonces.
THEOREM SpentGone == Spec => []SpentNotOutstanding
<1>1. TypeOK /\ AInv => SpentNotOutstanding
  BY DEF AInv
<1> QED BY <1>1, AccountInvariant, PTL

-----------------------------------------------------------------------------
(***************************************************************************)
(* Receipts that are never paid, and what the listing promises.            *)
(*                                                                         *)
(* The count of UnpaidOnlyByMishap moves so: a receipt that is stored      *)
(* joins the unpaid ones as the one being paid, its row takes it out, and  *)
(* a crash, or a second transaction that fails, leaves it behind.          *)
(***************************************************************************)
Unpaid == {r \in receipts : ~Paid(r)}

UnpaidCounted == IsFiniteSet(Unpaid) /\ IsFiniteSet(paying) /\ UnpaidOnlyByMishap

\* The numbers the count is made of.
LEMMA UnpaidNumbers ==
  ASSUME TypeOK, AInv, UnpaidCounted
  PROVE  /\ Cardinality(Unpaid) \in Nat /\ Cardinality(paying) \in {0, 1}
         /\ crashes \in Nat /\ failures \in Nat
         /\ paying = {} => Cardinality(paying) = 0
         /\ Cardinality(Unpaid) <= crashes + failures + Cardinality(paying)
<1>1. Cardinality(Unpaid) \in Nat
  BY FS_CardinalityType DEF UnpaidCounted
<1>2. CASE paying = {}
  BY <1>1, <1>2, FS_EmptySet, ControlPlaneAssumption
     DEF UnpaidCounted, UnpaidOnlyByMishap, Unpaid, TypeOK, ControlPlaneAssumption
<1>3. CASE paying # {}
  <2>1. PICK r \in paying : paying = {r}
    BY <1>3 DEF AInv, OnePaying
  <2>2. Cardinality(paying) = 1
    BY <2>1, FS_Singleton
  <2> QED
    BY <1>1, <1>3, <2>2, ControlPlaneAssumption
       DEF UnpaidCounted, UnpaidOnlyByMishap, Unpaid, TypeOK, ControlPlaneAssumption
<1> QED BY <1>2, <1>3

LEMMA UnpaidPut ==
  ASSUME TypeOK, AInv, UnpaidCounted, NEW r \in Submissions, PutReceipt(r)
  PROVE  UnpaidCounted'
<1>1. /\ receipts' = receipts \cup {r} /\ paying = {} /\ paying' = {r}
      /\ UNCHANGED <<ledger, crashes, failures>>
  BY DEF PutReceipt, Idle, mishaps
<1>2. Unpaid' \subseteq Unpaid \cup {r}
  BY <1>1 DEF Unpaid, Paid
<1>3. /\ IsFiniteSet(Unpaid \cup {r})
      /\ \/ Cardinality(Unpaid \cup {r}) = Cardinality(Unpaid)
         \/ Cardinality(Unpaid \cup {r}) = Cardinality(Unpaid) + 1
  BY FS_AddElement DEF UnpaidCounted
<1>4. /\ IsFiniteSet(Unpaid') /\ Cardinality(Unpaid') \in Nat
      /\ Cardinality(Unpaid') <= Cardinality(Unpaid \cup {r})
  BY <1>2, <1>3, FS_Subset, FS_CardinalityType
<1>5. IsFiniteSet(paying') /\ Cardinality(paying') = 1
  BY <1>1, FS_Singleton
<1>6. Cardinality(Unpaid') <= crashes' + failures' + Cardinality(paying')
  BY <1>1, <1>3, <1>4, <1>5, UnpaidNumbers
<1> QED BY <1>4, <1>5, <1>6 DEF UnpaidCounted, UnpaidOnlyByMishap, Unpaid

LEMMA UnpaidAppend ==
  ASSUME TypeOK, AInv, UnpaidCounted, NEW r \in paying, AppendLedger(r)
  PROVE  UnpaidCounted'
<1>1. /\ paying' = {} /\ UNCHANGED <<receipts, crashes, failures>> /\ r \in receipts
      /\ DOMAIN ledger \subseteq DOMAIN ledger'
      /\ \A i \in DOMAIN ledger : ledger'[i] = ledger[i]
      /\ Len(ledger) + 1 \in DOMAIN ledger' /\ ledger'[Len(ledger) + 1].ref = r.id
  BY DEF TypeOK, AppendLedger, mishaps
<1>2. r \in Unpaid /\ Unpaid' \subseteq Unpaid \ {r}
  BY <1>1 DEF AInv, PayingUnpaid, Unpaid, Paid
<1>3. /\ IsFiniteSet(Unpaid \ {r})
      /\ Cardinality(Unpaid \ {r}) = Cardinality(Unpaid) - 1
  BY <1>2, FS_RemoveElement DEF UnpaidCounted
<1>4. /\ IsFiniteSet(Unpaid') /\ Cardinality(Unpaid') \in Nat
      /\ Cardinality(Unpaid') <= Cardinality(Unpaid \ {r})
  BY <1>2, <1>3, FS_Subset, FS_CardinalityType
<1>5. IsFiniteSet(paying') /\ Cardinality(paying') = 0
  BY <1>1, FS_EmptySet
<1>6. Cardinality(Unpaid') <= crashes' + failures' + Cardinality(paying')
  BY <1>1, <1>3, <1>4, <1>5, UnpaidNumbers
<1> QED BY <1>4, <1>5, <1>6 DEF UnpaidCounted, UnpaidOnlyByMishap, Unpaid

LEMMA UnpaidMishap ==
  ASSUME TypeOK, AInv, UnpaidCounted, Crash \/ \E r \in paying : AppendFails(r)
  PROVE  UnpaidCounted'
<1>1. /\ paying' = {} /\ UNCHANGED <<receipts, ledger>>
      /\ \/ crashes' = crashes + 1 /\ failures' = failures
         \/ crashes' = crashes /\ failures' = failures + 1
  BY DEF Crash, AppendFails
<1>2. Unpaid' = Unpaid
  BY <1>1 DEF Unpaid, Paid
<1>3. IsFiniteSet(paying') /\ Cardinality(paying') = 0
  BY <1>1, FS_EmptySet
<1>4. Cardinality(Unpaid') <= crashes' + failures' + Cardinality(paying')
  BY <1>1, <1>2, <1>3, UnpaidNumbers
<1> QED BY <1>2, <1>3, <1>4 DEF UnpaidCounted, UnpaidOnlyByMishap, Unpaid

LEMMA UnpaidStep ==
  ASSUME TypeOK, AInv, UnpaidCounted, [Next]_vars
  PROVE  UnpaidCounted'
<1>1. CASE UNCHANGED <<receipts, ledger, paying, crashes, failures>>
  BY <1>1 DEF UnpaidCounted, UnpaidOnlyByMishap, Unpaid, Paid
<1>2. CASE ~UNCHANGED <<receipts, ledger, paying, crashes, failures>>
  <2>1. \/ \E r \in Submissions : PutReceipt(r)
        \/ \E r \in paying : AppendLedger(r)
        \/ Crash \/ \E r \in paying : AppendFails(r)
    BY <1>2 DEF Next, vars, accountVars, mishaps, Register, PostCapabilities, Heartbeat,
               Schedule, Tick
  <2> QED BY <2>1, UnpaidPut, UnpaidAppend, UnpaidMishap
<1> QED BY <1>1, <1>2

\* A stored receipt stays without credit only because of a crash between the two
\* transactions or a failure of the second, at most one for each, for any number
\* of receipts and mishaps.
THEOREM UnpaidExplained == Spec => []UnpaidOnlyByMishap
<1>1. Init => UnpaidCounted
  <2> SUFFICES ASSUME Init PROVE UnpaidCounted
    OBVIOUS
  <2>1. Unpaid = {} /\ paying = {} /\ crashes = 0 /\ failures = 0
    BY DEF Init, Unpaid
  <2> QED BY <2>1, FS_EmptySet DEF UnpaidCounted, UnpaidOnlyByMishap, Unpaid
<1>2. TypeOK /\ AInv /\ UnpaidCounted /\ [Next]_vars => UnpaidCounted'
  BY UnpaidStep
<1>3. UnpaidCounted => UnpaidOnlyByMishap
  BY DEF UnpaidCounted
<1> QED BY <1>1, <1>2, <1>3, AccountInvariant, PTL DEF Spec

-----------------------------------------------------------------------------
(***************************************************************************)
(* The buckets.                                                            *)
(***************************************************************************)
BucketsFinite == \A n \in Nodes : IsFiniteSet(issued[n])

\* A full bucket loses one nonce before it gains one.
LEMMA IssueBounded ==
  ASSUME TypeOK, BucketsFinite, BucketBounded, NEW n \in Nodes, IssueNonce(n)
  PROVE  (BucketsFinite /\ BucketBounded)'
<1> SUFFICES ASSUME NEW m \in Nodes
             PROVE  IsFiniteSet(issued'[m]) /\ Cardinality(issued'[m]) <= MaxOutstanding
  BY DEF BucketsFinite, BucketBounded
<1> DEFINE new == <<n, drawn[n] + 1>>
<1>1. /\ IsFiniteSet(issued[m])
      /\ Cardinality(issued[m]) <= MaxOutstanding
      /\ Cardinality(issued[m]) \in Nat
  BY FS_CardinalityType DEF BucketsFinite, BucketBounded
<1>2. CASE m # n
  BY <1>1, <1>2 DEF TypeOK, IssueNonce
<1>3. CASE m = n /\ Cardinality(issued[n]) < MaxOutstanding
  <2>1. issued'[m] = issued[m] \cup {new}
    BY <1>1, <1>3, ControlPlaneAssumption DEF ControlPlaneAssumption, TypeOK, IssueNonce
  <2>2. /\ IsFiniteSet(issued[m] \cup {new})
        /\ \/ Cardinality(issued[m] \cup {new}) = Cardinality(issued[m])
           \/ Cardinality(issued[m] \cup {new}) = Cardinality(issued[m]) + 1
    BY <1>1, FS_AddElement
  <2> QED BY <1>1, <1>3, <2>1, <2>2, ControlPlaneAssumption DEF ControlPlaneAssumption
<1>4. CASE m = n /\ ~(Cardinality(issued[n]) < MaxOutstanding)
  <2>1. PICK old \in issued[m] : issued'[m] = (issued[m] \ {old}) \cup {new}
    BY <1>4 DEF TypeOK, IssueNonce
  <2> DEFINE rest == issued[m] \ {old}
  <2>2. IsFiniteSet(rest) /\ Cardinality(rest) = Cardinality(issued[m]) - 1
    BY <1>1, FS_RemoveElement
  <2>3. /\ IsFiniteSet(rest \cup {new})
        /\ \/ Cardinality(rest \cup {new}) = Cardinality(rest)
           \/ Cardinality(rest \cup {new}) = Cardinality(rest) + 1
    BY <2>2, FS_AddElement
  <2> QED BY <1>1, <2>1, <2>2, <2>3, ControlPlaneAssumption DEF ControlPlaneAssumption
<1> QED BY <1>2, <1>3, <1>4

\* Every other step leaves each bucket as it is or smaller.
LEMMA ShrinkBounded ==
  ASSUME BucketsFinite, BucketBounded, \A n \in Nodes : issued'[n] \subseteq issued[n]
  PROVE  (BucketsFinite /\ BucketBounded)'
<1> SUFFICES ASSUME NEW n \in Nodes
             PROVE  IsFiniteSet(issued'[n]) /\ Cardinality(issued'[n]) <= MaxOutstanding
  BY DEF BucketsFinite, BucketBounded
<1>1. /\ IsFiniteSet(issued[n])
      /\ Cardinality(issued[n]) <= MaxOutstanding
      /\ Cardinality(issued[n]) \in Nat
  BY FS_CardinalityType DEF BucketsFinite, BucketBounded
<1>2. /\ IsFiniteSet(issued'[n])
      /\ Cardinality(issued'[n]) <= Cardinality(issued[n])
      /\ Cardinality(issued'[n]) \in Nat
  BY <1>1, FS_Subset, FS_CardinalityType
<1> QED BY <1>1, <1>2, ControlPlaneAssumption DEF ControlPlaneAssumption

\* Which steps touch the buckets, and how.
LEMMA BucketSteps ==
  ASSUME TypeOK, [Next]_vars
  PROVE  \/ \E n \in Nodes : IssueNonce(n)
         \/ \E r \in Submissions : PutReceipt(r)
         \/ Crash
         \/ UNCHANGED issued
BY DEF Next, vars, Register, PostCapabilities, Heartbeat, Schedule, AppendLedger, AppendFails,
       Tick

LEMMA BucketInit == Init => BucketsFinite /\ BucketBounded
BY FS_EmptySet, ControlPlaneAssumption
   DEF ControlPlaneAssumption, Init, BucketsFinite, BucketBounded

LEMMA BucketStep ==
  TypeOK /\ BucketsFinite /\ BucketBounded /\ [Next]_vars
    => BucketsFinite' /\ BucketBounded'
<1> SUFFICES ASSUME TypeOK, BucketsFinite, BucketBounded, [Next]_vars
             PROVE  BucketsFinite' /\ BucketBounded'
  OBVIOUS
<1>1. ASSUME NEW n \in Nodes, IssueNonce(n)
      PROVE  BucketsFinite' /\ BucketBounded'
  BY <1>1, IssueBounded
<1>2. ASSUME NEW r \in Submissions, PutReceipt(r)
      PROVE  BucketsFinite' /\ BucketBounded'
  <2>1. \A n \in Nodes : issued'[n] \subseteq issued[n]
    BY <1>2 DEF TypeOK, PutReceipt
  <2> QED BY <2>1, ShrinkBounded
<1>3. CASE Crash
  <2>1. \A n \in Nodes : issued'[n] \subseteq issued[n]
    BY <1>3 DEF TypeOK, Crash
  <2> QED BY <2>1, ShrinkBounded
<1>4. CASE UNCHANGED issued
  BY <1>4, ShrinkBounded
<1> QED BY <1>1, <1>2, <1>3, <1>4, BucketSteps

\* No bucket ever holds more than MAX_OUTSTANDING_NONCES nonces.
THEOREM Bounded == Spec => []BucketBounded
<1>1. TypeOK /\ BucketsFinite /\ BucketBounded /\ [Next]_vars
        => (TypeOK /\ BucketsFinite /\ BucketBounded)'
  BY TypeStep, BucketStep
<1> QED BY <1>1, TypeInit, BucketInit, PTL DEF Spec

\* One step takes an outstanding nonce away only by using it, by a crash, or
\* to make room in a full bucket.
LEMMA SurvivesStep ==
  ASSUME TypeOK, BucketsFinite, BucketBounded, [Next]_vars,
         NEW n \in Nodes, NEW nonce \in issued[n], nonce \notin issued'[n]
  PROVE  \/ \E r \in receipts' : r.node = n /\ r.nonce = nonce
         \/ crashes' > crashes
         \/ MakesRoom(n, nonce)
<1>1. ASSUME NEW m \in Nodes, IssueNonce(m)
      PROVE  MakesRoom(n, nonce)
  <2>1. Cardinality(issued[n]) \in Nat /\ Cardinality(issued[n]) <= MaxOutstanding
    BY FS_CardinalityType DEF BucketsFinite, BucketBounded
  <2>2. m = n /\ Cardinality(issued[n]) >= MaxOutstanding
    BY <1>1 DEF TypeOK, IssueNonce
  <2>3. Cardinality(issued[n]) = MaxOutstanding
    BY <2>1, <2>2, ControlPlaneAssumption DEF ControlPlaneAssumption
  <2>4. PICK old \in issued[n] :
          issued' = [issued EXCEPT ![n] = (@ \ {old}) \cup {<<n, drawn[n] + 1>>}]
    BY <1>1, <2>2, <2>3, ControlPlaneAssumption DEF ControlPlaneAssumption, IssueNonce
  <2>5. issued[n] \ issued'[n] = {nonce}
    BY <2>4 DEF TypeOK
  <2>6. drawn'[n] = drawn[n] + 1
    BY <1>1, <2>2 DEF TypeOK, IssueNonce
  <2> QED BY <2>3, <2>5, <2>6 DEF MakesRoom
<1>2. ASSUME NEW r \in Submissions, PutReceipt(r)
      PROVE  \E s \in receipts' : s.node = n /\ s.nonce = nonce
  BY <1>2 DEF TypeOK, PutReceipt
<1>3. CASE Crash
  <2>1. crashes \in Nat /\ crashes' = crashes + 1
    BY <1>3, ControlPlaneAssumption DEF ControlPlaneAssumption, TypeOK, Crash
  <2> QED BY <2>1
<1>4. CASE UNCHANGED issued
  BY <1>4
<1> QED BY <1>1, <1>2, <1>3, <1>4, BucketSteps

\* An outstanding nonce stays good until it is used, lost in a crash, or
\* dropped from a full bucket.
THEOREM Survives == Spec => NonceSurvives
<1>1. TypeOK /\ BucketsFinite /\ BucketBounded /\ [Next]_vars
        => (TypeOK /\ BucketsFinite /\ BucketBounded)'
  BY TypeStep, BucketStep
<1>2. TypeOK /\ BucketsFinite /\ BucketBounded /\ [Next]_vars
        => [\A n \in Nodes : \A nonce \in issued[n] :
              \/ nonce \in issued'[n]
              \/ \E r \in receipts' : r.node = n /\ r.nonce = nonce
              \/ crashes' > crashes
              \/ MakesRoom(n, nonce)]_vars
  BY SurvivesStep
<1> QED BY <1>1, <1>2, TypeInit, BucketInit, PTL DEF Spec, NonceSurvives

-----------------------------------------------------------------------------
(***************************************************************************)
(* The tables implement CreditLedger.                                      *)
(***************************************************************************)
LEMMA RefinesInit == Init => CL!Init
BY DEF Init, CL!Init, Accepted, Entries

\* Storing a receipt is the abstract Accept.
LEMMA PutAccepts ==
  ASSUME TypeOK, AInv, NEW r \in Submissions, PutReceipt(r)
  PROVE  CL!Accept(r.id, r.nonce)
<1> USE DEF accountVars
<1>1. \A s \in receipts : s.id # r.id /\ s.nonce # r.nonce
  <2> SUFFICES ASSUME NEW s \in receipts PROVE s.id # r.id /\ s.nonce # r.nonce
    OBVIOUS
  <2>1. ~Conflicts(r, s)
    BY DEF PutReceipt
  <2>2. r.nonce[1] = r.node
    BY DEF AInv, NoncesDrawn, PutReceipt, Admissible, Submissions
  <2>3. s.nonce[1] = s.node
    BY DEF AInv, ReceiptsBacked
  <2> QED BY <2>1, <2>2, <2>3 DEF Conflicts
<1>2. \A a \in Accepted : a.id # r.id /\ a.nonce # r.nonce
  BY <1>1 DEF Accepted
<1>3. receipts' = receipts \cup {r} /\ UNCHANGED ledger
  BY DEF PutReceipt
<1>4. Accepted' = Accepted \cup {[id |-> r.id, nonce |-> r.nonce]}
  BY <1>3 DEF Accepted
<1>5. UNCHANGED <<Len(ledger), Entries>>
  BY <1>3 DEF Entries
<1> QED BY <1>2, <1>4, <1>5 DEF CL!Accept

\* Appending the ledger row is the abstract Pay.
LEMMA AppendPays ==
  ASSUME TypeOK, AInv, NEW r \in paying, AppendLedger(r)
  PROVE  CL!Pay(r.id) /\ r.id \in ReceiptIds
<1> USE DEF accountVars
<1> DEFINE new == [row |-> Len(ledger) + 1, payee |-> r.node]
<1>1. /\ r \in receipts
      /\ r.id \in ReceiptIds
      /\ r.nonce[1] = r.node
      /\ UNCHANGED receipts
  BY DEF TypeOK, Receipt, AInv, ReceiptsBacked, AppendLedger
<1>2. /\ Len(ledger) \in Nat
      /\ Len(ledger') = Len(ledger) + 1
      /\ DOMAIN ledger' = DOMAIN ledger \cup {Len(ledger) + 1}
      /\ \A i \in DOMAIN ledger : ledger'[i] = ledger[i]
      /\ ledger'[Len(ledger) + 1].ref = r.id
      /\ ledger'[Len(ledger) + 1].node = r.node
  BY DEF TypeOK, AppendLedger
<1>3. \A i \in DOMAIN ledger : ledger[i].ref # r.id
  BY DEF AInv, PayingUnpaid, Paid
<1>4. Entries[r.id] = {}
  BY <1>1, <1>3 DEF Entries
<1>5. Entries' = [Entries EXCEPT ![r.id] = {new}]
  <2>1. ASSUME NEW id \in ReceiptIds
        PROVE  Entries'[id] = IF id = r.id THEN {new} ELSE Entries[id]
    <3>1. {j \in DOMAIN ledger' : ledger'[j].ref = id}
            = {j \in DOMAIN ledger : ledger[j].ref = id}
              \cup (IF id = r.id THEN {Len(ledger) + 1} ELSE {})
      BY <1>2
    <3>2. CASE id = r.id
      <4>1. {j \in DOMAIN ledger' : ledger'[j].ref = id} = {Len(ledger) + 1}
        BY <1>3, <3>1, <3>2
      <4> QED BY <1>2, <3>2, <4>1 DEF Entries
    <3>3. CASE id # r.id
      <4>1. {j \in DOMAIN ledger' : ledger'[j].ref = id}
              = {j \in DOMAIN ledger : ledger[j].ref = id}
        BY <3>1, <3>3
      <4> QED BY <1>2, <3>3, <4>1 DEF Entries
    <3> QED BY <3>2, <3>3
  <2> QED BY <1>1, <2>1 DEF Entries
<1>6. [id |-> r.id, nonce |-> r.nonce] \in Accepted
  BY <1>1 DEF Accepted
<1>7. UNCHANGED Accepted
  BY <1>1 DEF Accepted
<1> QED BY <1>1, <1>2, <1>4, <1>5, <1>6, <1>7 DEF CL!Pay

LEMMA RefinesStep ==
  ASSUME TypeOK, AInv, [Next]_vars
  PROVE  [CL!Next]_(<<Accepted, Len(ledger), Entries>>)
<1> USE DEF accountVars
<1>1. ASSUME NEW r \in Submissions, PutReceipt(r)
      PROVE  CL!Next
  BY <1>1, PutAccepts DEF CL!Next, Submissions
<1>2. ASSUME NEW r \in paying, AppendLedger(r)
      PROVE  CL!Next
  BY <1>2, AppendPays DEF CL!Next
<1>3. ASSUME UNCHANGED <<receipts, ledger>>
      PROVE  UNCHANGED <<Accepted, Len(ledger), Entries>>
  BY <1>3 DEF Accepted, Entries
<1>4. \/ \E r \in Submissions : PutReceipt(r)
      \/ \E r \in paying : AppendLedger(r)
      \/ UNCHANGED <<receipts, ledger>>
  BY DEF Next, vars, Register, PostCapabilities, Heartbeat, Schedule, AppendFails, Crash, Tick
<1> QED BY <1>1, <1>2, <1>3, <1>4

\* The control plane implements the abstract credit ledger.
THEOREM Refines == Spec => ImplementsCreditLedger
<1>1. TypeOK /\ AInv /\ [Next]_vars => [CL!Next]_(<<Accepted, Len(ledger), Entries>>)
  BY RefinesStep
<1> QED BY <1>1, RefinesInit, AccountInvariant, PTL DEF Spec, ImplementsCreditLedger, CL!Spec

-----------------------------------------------------------------------------
(***************************************************************************)
(* The replicated ledger.                                                  *)
(***************************************************************************)

LInv == ChainTypeOK /\ AcceptedIsVerifiable

\* The blocks of a chain are signed headers over known entry lists.
LEMMA BlockOf ==
  ASSUME NEW c \in Seq(Block), NEW i \in 1 .. Len(c)
  PROVE  c[i] \in Block /\ c[i].header \in headers /\ c[i].body \in Bodies
<1>1. c[i] \in Block
  OBVIOUS
<1> QED  BY <1>1 DEF Block

\* The head of a chain is a hash, or the genesis mark of an empty chain.
LEMMA HeadHashType ==
  ASSUME ChainTypeOK, NEW c \in Seq(Block)
  PROVE  HeadHash(c) \in Hash \cup {GenesisPrev} /\ HeadHash(c) \in Int
<1>1. CASE c = <<>>
  BY <1>1 DEF HeadHash, GenesisPrev
<1>2. CASE c # <<>>
  <2>1. Len(c) \in 1 .. Len(c)
    BY <1>2
  <2>2. c[Len(c)].header \in headers
    BY <2>1, BlockOf
  <2> QED  BY <1>2, <2>2 DEF HeadHash, ChainTypeOK, Hash
<1> QED  BY <1>1, <1>2

\* A block that verifies on top of a chain that verifies makes a longer one.
LEMMA ExtendVerified ==
  ASSUME NEW c \in Seq(Block), VerifyFull(c), NEW b \in Block,
         VerifyBlock(b.header, b.body, HeadHash(c), Len(c), ChainNonces(c, Len(c)))
  PROVE  /\ VerifyFull(Append(c, b))
         /\ ChainNonces(Append(c, b), Len(c) + 1) = ChainNonces(c, Len(c)) \cup Nonces(b.body)
<1> DEFINE d == Append(c, b)
<1>1. /\ Len(d) = Len(c) + 1
      /\ d \in Seq(Block)
      /\ \A i \in 1 .. Len(c) : d[i] = c[i]
      /\ d[Len(c) + 1] = b
  OBVIOUS
<1>2. \A n \in 0 .. Len(c) : ChainNonces(d, n) = ChainNonces(c, n)
  BY <1>1 DEF ChainNonces
<1>3. ASSUME NEW i \in DOMAIN d
      PROVE  VerifyBlock(d[i].header, d[i].body,
                         IF i = 1 THEN GenesisPrev ELSE d[i - 1].header.hash, i - 1,
                         ChainNonces(d, i - 1))
  <2>1. CASE i = Len(c) + 1
    <3>1. i - 1 = Len(c) /\ ChainNonces(d, i - 1) = ChainNonces(c, Len(c))
      BY <2>1, <1>2
    <3>2. HeadHash(c) = IF i = 1 THEN GenesisPrev ELSE d[i - 1].header.hash
      BY <2>1, <1>1 DEF HeadHash
    <3> QED  BY <1>1, <2>1, <3>1, <3>2
  <2>2. CASE i \in 1 .. Len(c)
    <3>1. i \in DOMAIN c /\ d[i] = c[i] /\ (i # 1 => d[i - 1] = c[i - 1])
      BY <2>2, <1>1
    <3>2. ChainNonces(d, i - 1) = ChainNonces(c, i - 1)
      BY <2>2, <1>2
    <3> QED  BY <3>1, <3>2 DEF VerifyFull
  <2> QED  BY <1>1, <2>1, <2>2
<1>4. ChainNonces(d, Len(c) + 1) = ChainNonces(c, Len(c)) \cup Nonces(b.body)
  <2>1. 1 .. Len(c) + 1 = (1 .. Len(c)) \cup {Len(c) + 1}
    OBVIOUS
  <2> QED  BY <1>1, <2>1 DEF ChainNonces
<1> QED  BY <1>3, <1>4 DEF VerifyFull

\* Fork choice between a chain that verifies and one that arrived: the result
\* is one of the two, verifies, and is no worse than the first.
LEMMA PickBestSound ==
  ASSUME ChainTypeOK, NEW c \in Seq(Block), VerifyFull(c), NEW d \in Seq(Block)
  PROVE  LET best == PickBest({c, d})
         IN  best \in {c, d} /\ VerifyFull(best) /\ Better(best, c)
<1> DEFINE valid == {x \in {c, d} : VerifyFull(x)}
<1>1. HeadHash(c) \in Int /\ HeadHash(d) \in Int
  BY HeadHashType
<1>2. Better(c, c) /\ Better(d, d) /\ (Better(c, d) \/ Better(d, c))
  BY <1>1 DEF Better
<1>3. \E x \in valid : \A y \in valid : Better(x, y)
  <2>1. CASE VerifyFull(d)
    <3>1. valid = {c, d}
      BY <2>1
    <3> QED  BY <3>1, <1>2
  <2>2. CASE ~VerifyFull(d)
    <3>1. valid = {c}
      BY <2>2
    <3> QED  BY <3>1, <1>2
  <2> QED  BY <2>1, <2>2
<1>4. PickBest({c, d}) \in valid /\ \A y \in valid : Better(PickBest({c, d}), y)
  BY <1>3 DEF PickBest
<1>5. c \in valid
  OBVIOUS
<1> QED  BY <1>4, <1>5

\* What arrives for a chain request is a sequence of blocks.
LEMMA ArrivesType ==
  ASSUME ChainTypeOK, NEW q \in Replicas, NEW other \in Arrives(q)
  PROVE  other \in Seq(Block)
<1>1. chain[q] \in Seq(Block)
  BY DEF ChainTypeOK
<1>2. ASSUME NEW i \in DOMAIN chain[q], NEW body \in Bodies
      PROVE  [chain[q] EXCEPT ![i].body = body] \in Seq(Block)
  <2>1. [chain[q][i] EXCEPT !.body = body] \in Block
    <3>1. chain[q][i] \in Block
      BY <1>1
    <3> QED  BY <3>1 DEF Block
  <2> QED  BY <1>1, <2>1
<1> QED  BY <1>1, <1>2 DEF Arrives

\* The nonces of a chain are nonces of entries.
LEMMA ChainNoncesType ==
  ASSUME NEW c \in Seq(Block)
  PROVE  ChainNonces(c, Len(c)) \subseteq AllNonces
<1>1. \A i \in 1 .. Len(c) : c[i].body \in Bodies
  BY BlockOf
<1>2. \A body \in Bodies : Nonces(body) \subseteq AllNonces
  BY DEF Nonces, AllNonces
<1> QED  BY <1>1, <1>2 DEF ChainNonces

LEMMA ChainInitInv == ChainInit => LInv
<1> SUFFICES ASSUME ChainInit PROVE LInv
  OBVIOUS
<1>1. ChainTypeOK
  BY DEF ChainInit, ChainTypeOK
<1>2. AcceptedIsVerifiable
  BY DEF ChainInit, AcceptedIsVerifiable, VerifyFull, ChainNonces
<1> QED  BY <1>1, <1>2 DEF LInv

\* A new header takes a fresh hash, so the blocks stay what they were.
LEMMA ProduceInv ==
  ASSUME LInv, NEW r \in Replicas, NEW body \in Bodies, Produce(r, body)
  PROVE  LInv'
<1> USE DEF LInv
<1>1. PICK hash \in Hash \ {h.hash : h \in headers} :
        headers' = headers \cup {Header(hash, Len(chain[r]), HeadHash(chain[r]), body)}
  BY DEF Produce
<1>2. chain' = chain /\ seen' = seen
  BY DEF Produce
<1>3. HeadHash(chain[r]) \in Hash \cup {GenesisPrev} /\ Len(chain[r]) \in Nat
  BY HeadHashType DEF ChainTypeOK
<1>4. ChainTypeOK'
  <2> DEFINE new == Header(hash, Len(chain[r]), HeadHash(chain[r]), body)
  <2>1. new.hash = hash /\ new.index = Len(chain[r]) /\ new.prev = HeadHash(chain[r])
    BY DEF Header
  <2>2. \A h \in headers' : h.hash \in Hash /\ h.index \in Nat /\ h.prev \in Hash \cup {GenesisPrev}
    BY <1>1, <1>3, <2>1 DEF ChainTypeOK
  <2>3. \A g, h \in headers' : g.hash = h.hash => g = h
    BY <1>1, <2>1 DEF ChainTypeOK
  <2>4. chain' \in [Replicas -> Seq(Block')]
    <3>1. Block \subseteq Block'
      BY <1>1 DEF Block
    <3>2. Seq(Block) \subseteq Seq(Block')
      BY <3>1
    <3> QED  BY <1>2, <3>2 DEF ChainTypeOK
  <2> QED  BY <1>2, <2>2, <2>3, <2>4 DEF ChainTypeOK, AllNonces, Hash
<1>5. AcceptedIsVerifiable'
  BY <1>2 DEF AcceptedIsVerifiable
<1> QED  BY <1>4, <1>5

LEMMA AppendInv ==
  ASSUME LInv, NEW r \in Replicas, NEW header \in headers, NEW body \in Bodies,
         AppendBlock(r, header, body)
  PROVE  LInv' /\ Better(chain'[r], chain[r])
<1> USE DEF LInv
<1> DEFINE b == [header |-> header, body |-> body]
<1>1. b \in Block /\ chain[r] \in Seq(Block)
  BY DEF Block, ChainTypeOK
<1>2. /\ chain' = [chain EXCEPT ![r] = Append(chain[r], b)]
      /\ seen' = [seen EXCEPT ![r] = seen[r] \cup Nonces(body)]
      /\ headers' = headers
      /\ VerifyBlock(header, body, HeadHash(chain[r]), Len(chain[r]), seen[r])
  BY DEF AppendBlock
<1>3. seen[r] = ChainNonces(chain[r], Len(chain[r])) /\ VerifyFull(chain[r])
  BY DEF AcceptedIsVerifiable
<1>4. /\ VerifyFull(Append(chain[r], b))
      /\ ChainNonces(Append(chain[r], b), Len(chain[r]) + 1) = seen[r] \cup Nonces(body)
  BY <1>1, <1>2, <1>3, ExtendVerified
<1>5. Append(chain[r], b) \in Seq(Block) /\ Len(Append(chain[r], b)) = Len(chain[r]) + 1
  BY <1>1
<1>6. ChainTypeOK'
  <2>1. Nonces(body) \subseteq AllNonces
    BY DEF Nonces, AllNonces
  <2>2. chain' \in [Replicas -> Seq(Block')]
    BY <1>2, <1>5 DEF ChainTypeOK, Block
  <2>3. seen' \in [Replicas -> SUBSET AllNonces]
    BY <1>2, <2>1 DEF ChainTypeOK
  <2> QED  BY <1>2, <2>2, <2>3 DEF ChainTypeOK, Hash, AllNonces
<1>7. AcceptedIsVerifiable'
  <2>1. chain'[r] = Append(chain[r], b) /\ seen'[r] = seen[r] \cup Nonces(body)
    BY <1>2 DEF ChainTypeOK
  <2>2. \A q \in Replicas \ {r} : chain'[q] = chain[q] /\ seen'[q] = seen[q]
    BY <1>2 DEF ChainTypeOK
  <2>3. VerifyFull(chain'[r]) /\ seen'[r] = ChainNonces(chain'[r], Len(chain'[r]))
    BY <1>4, <1>5, <2>1
  <2> QED  BY <2>2, <2>3 DEF AcceptedIsVerifiable
<1>8. Better(chain'[r], chain[r])
  BY <1>1, <1>2, <1>5 DEF Better, ChainTypeOK
<1> QED  BY <1>6, <1>7, <1>8

LEMMA AdoptInv ==
  ASSUME LInv, NEW r \in Replicas, NEW q \in Replicas, NEW other \in Arrives(q), Adopt(r, other)
  PROVE  LInv' /\ Better(chain'[r], chain[r])
<1> USE DEF LInv
<1> DEFINE best == PickBest({chain[r], other})
<1>1. chain[r] \in Seq(Block) /\ other \in Seq(Block) /\ VerifyFull(chain[r])
  BY ArrivesType DEF ChainTypeOK, AcceptedIsVerifiable
<1>2. best \in {chain[r], other} /\ VerifyFull(best) /\ Better(best, chain[r])
  BY <1>1, PickBestSound
<1>3. /\ chain' = [chain EXCEPT ![r] = best]
      /\ seen' = [seen EXCEPT ![r] = ChainNonces(best, Len(best))]
      /\ headers' = headers
  BY DEF Adopt
<1> HIDE DEF best
<1>4. best \in Seq(Block) /\ ChainNonces(best, Len(best)) \subseteq AllNonces
  BY <1>1, <1>2, ChainNoncesType
<1>5. ChainTypeOK'
  <2>1. chain' \in [Replicas -> Seq(Block')]
    BY <1>3, <1>4 DEF ChainTypeOK, Block
  <2>2. seen' \in [Replicas -> SUBSET AllNonces]
    BY <1>3, <1>4 DEF ChainTypeOK
  <2> QED  BY <1>3, <2>1, <2>2 DEF ChainTypeOK, Hash, AllNonces
<1>6. chain'[r] = best /\ seen'[r] = ChainNonces(best, Len(best))
  BY <1>3 DEF ChainTypeOK
<1>7. \A p \in Replicas \ {r} : chain'[p] = chain[p] /\ seen'[p] = seen[p]
  BY <1>3 DEF ChainTypeOK
<1>8. AcceptedIsVerifiable'
  BY <1>2, <1>6, <1>7 DEF AcceptedIsVerifiable
<1> QED  BY <1>2, <1>5, <1>6, <1>8

\* One step: the invariant holds on, and no replica gets a worse chain.
LEMMA ChainStepInv ==
  ASSUME LInv, [ChainNext]_chainVars
  PROVE  LInv' /\ \A r \in Replicas : Better(chain'[r], chain[r])
<1>1. \A r \in Replicas : Better(chain[r], chain[r])
  BY HeadHashType DEF LInv, ChainTypeOK, Better
<1>2. CASE UNCHANGED chainVars
  BY <1>1, <1>2 DEF chainVars, LInv, ChainTypeOK, AcceptedIsVerifiable, Block, Hash, AllNonces
<1>3. ASSUME NEW r \in Replicas, NEW body \in Bodies, Produce(r, body)
      PROVE  LInv' /\ \A q \in Replicas : Better(chain'[q], chain[q])
  BY <1>1, <1>3, ProduceInv DEF Produce
<1>4. ASSUME NEW r \in Replicas, NEW header \in headers, NEW body \in Bodies,
             AppendBlock(r, header, body)
      PROVE  LInv' /\ \A q \in Replicas : Better(chain'[q], chain[q])
  <2>1. LInv' /\ Better(chain'[r], chain[r])
    BY <1>4, AppendInv
  <2>2. \A q \in Replicas \ {r} : chain'[q] = chain[q]
    BY <1>4 DEF AppendBlock, LInv, ChainTypeOK
  <2> QED  BY <1>1, <2>1, <2>2
<1>5. ASSUME NEW r \in Replicas, NEW q \in Replicas, NEW other \in Arrives(q), Adopt(r, other)
      PROVE  LInv' /\ \A p \in Replicas : Better(chain'[p], chain[p])
  <2>1. LInv' /\ Better(chain'[r], chain[r])
    BY <1>5, AdoptInv
  <2>2. \A p \in Replicas \ {r} : chain'[p] = chain[p]
    BY <1>5 DEF Adopt, LInv, ChainTypeOK
  <2> QED  BY <1>1, <2>1, <2>2
<1> QED  BY <1>2, <1>3, <1>4, <1>5 DEF ChainNext

\* Whatever is produced, refused, adopted or exchanged in transit, the chain a
\* replica holds verifies from genesis and its remembered nonces are those of
\* the chain (Chain.append against Chain.verify_full).
THEOREM Verified == ChainSpec => []AcceptedIsVerifiable
<1>1. LInv /\ [ChainNext]_chainVars => LInv'
  BY ChainStepInv
<1>2. LInv => AcceptedIsVerifiable
  BY DEF LInv
<1> QED  BY ChainInitInv, <1>1, <1>2, PTL DEF ChainSpec

\* Headers, chains and remembered nonces keep their types, and a hash names one
\* header.
THEOREM ChainTypes == ChainSpec => []ChainTypeOK
<1>1. LInv /\ [ChainNext]_chainVars => LInv'
  BY ChainStepInv
<1>2. LInv => ChainTypeOK
  BY DEF LInv
<1> QED  BY ChainInitInv, <1>1, <1>2, PTL DEF ChainSpec

\* A chain that verifies from genesis credits no entry nonce twice.
LEMMA VerifiedCreditsOnce ==
  ASSUME NEW c \in Seq(Block), VerifyFull(c)
  PROVE  OncePerChain(c, LAMBDA e : e.nonce)
<1> SUFFICES ASSUME NEW i \in DOMAIN c, NEW j \in DOMAIN c,
                    NEW k \in DOMAIN c[i].body, NEW l \in DOMAIN c[j].body,
                    Earn(c[i].body[k]), Earn(c[j].body[l]),
                    c[i].body[k].nonce = c[j].body[l].nonce
             PROVE  i = j /\ k = l
  BY DEF OncePerChain
<1> DEFINE nonce == c[i].body[k].nonce
<1>1. nonce \in Nonces(c[i].body) /\ nonce \in Nonces(c[j].body)
  BY DEF Nonces, EntriesOf
<1>2. \A n \in DOMAIN c : Nonces(c[n].body) \cap ChainNonces(c, n - 1) = {}
  BY DEF VerifyFull, VerifyBlock
<1>3. \A m, n \in DOMAIN c : m < n => Nonces(c[m].body) \subseteq ChainNonces(c, n - 1)
  BY DEF ChainNonces
<1>4. i = j
  <2>1. i \in Nat /\ j \in Nat
    OBVIOUS
  <2>2. ~(i < j)
    BY <1>1, <1>2, <1>3
  <2>3. ~(j < i)
    BY <1>1, <1>2, <1>3
  <2> QED  BY <2>1, <2>2, <2>3
<1>5. NoncesDistinct(c[i].body)
  BY DEF VerifyFull, VerifyBlock
<1> QED  BY <1>4, <1>5 DEF NoncesDistinct

\* No replica's chain ever credits an entry nonce twice, whichever branches it
\* was put together from (seen_nonces in verify_block).
THEOREM CreditedOnce == ChainSpec => []NonceCreditedOnce
<1>1. LInv /\ [ChainNext]_chainVars => LInv'
  BY ChainStepInv
<1>2. LInv => NonceCreditedOnce
  BY VerifiedCreditsOnce DEF LInv, ChainTypeOK, AcceptedIsVerifiable, NonceCreditedOnce
<1> QED  BY ChainInitInv, <1>1, <1>2, PTL DEF ChainSpec

\* No replica ever moves to a chain that fork choice ranks below its own
\* (pick_best_chain, Chain.append).
THEOREM Improves == ChainSpec => HeadOnlyImproves
<1>1. LInv /\ [ChainNext]_chainVars => LInv'
  BY ChainStepInv
<1>2. LInv /\ [ChainNext]_chainVars => [\A r \in Replicas : Better(chain'[r], chain[r])]_chainVars
  BY ChainStepInv
<1> QED  BY ChainInitInv, <1>1, <1>2, PTL DEF ChainSpec, HeadOnlyImproves

-----------------------------------------------------------------------------
(***************************************************************************)
(* The Merkle root.  It is a fold over the entries; the rounds are shown   *)
(* to exist for every number of entries, and each to lose nothing of the   *)
(* level below as long as the number of nodes is known.                    *)
(***************************************************************************)

\* A set of numbers has a least member.
LEMMA Least ==
  ASSUME NEW S \in SUBSET Nat, S # {}
  PROVE  \E m \in S : \A k \in S : m <= k
<1> DEFINE R == OpToRel(<, Nat)
<1>1. IsWellFoundedOn(R, Nat)
  BY NatLessThanWellFounded
<1>2. \A k, m \in Nat : k < m => <<k, m>> \in R
  BY DEF OpToRel
<1> HIDE DEF R
<1>3. PICK m \in S : \A k \in S : ~ (<<k, m>> \in R)
  BY <1>1, WFMin, Zenon
<1>4. \A k \in S : ~ (k < m)
  BY <1>2, <1>3, Zenon
<1>5. \A k \in S : m <= k
  BY <1>4
<1> QED  BY <1>5

\* What holds at 0 and passes from a number to the next holds at every number
\* of a range; S is the set of numbers where it holds.
LEMMA Climb ==
  ASSUME NEW n \in Nat, NEW S, 0 \in S, \A k \in 0 .. n - 1 : k \in S => k + 1 \in S
  PROVE  0 .. n \subseteq S
<1> DEFINE T == {k \in 0 .. n : k \notin S}
<1> SUFFICES ASSUME T # {} PROVE FALSE
  OBVIOUS
<1>0. T \in SUBSET Nat
  OBVIOUS
<1> HIDE DEF T
<1>1. PICK m \in T : \A k \in T : m <= k
  BY <1>0, Least
<1> USE DEF T
<1>2. m - 1 \in 0 .. n - 1 /\ m - 1 \notin T
  BY <1>1
<1> QED  BY <1>1, <1>2

\* The greatest of a nonempty range of positions is one of them.
LEMMA Greatest ==
  ASSUME NEW n \in Nat, NEW S \in SUBSET (1 .. n), S # {}
  PROVE  Max(S) \in S /\ \A k \in S : Max(S) >= k
<1> DEFINE T == {n - k : k \in S}
<1>0. T \in SUBSET Nat /\ T # {}
  <2>1. \A k \in S : n - k \in Nat
    OBVIOUS
  <2> QED  BY <2>1
<1> HIDE DEF T
<1>1. PICK t \in T : \A u \in T : t <= u
  BY <1>0, Least
<1> USE DEF T
<1>2. PICK m \in S : t = n - m
  BY <1>1
<1>3. \A k \in S : m >= k
  BY <1>1, <1>2
<1> QED  BY <1>3 DEF Max

Up(level) == IF Len(level) > 1 THEN NextLevel(level) ELSE level

\* The rounds of merkle_root over n entries: what has become of the leaves
\* once the entries of a set of positions have been taken.
AreRounds(g, n, base) ==
  g = [s \in SUBSET (1 .. n) |-> IF s = {} THEN base ELSE Up(g[s \ {Max(s)}])]

Rounds(n, base) == CHOOSE g : AreRounds(g, n, base)

LEMMA RootIsRounds ==
  ASSUME NEW body, NEW n \in Nat, DOMAIN body = 1 .. n
  PROVE  MerkleRoot(body) = Rounds(n, Leaves(body))[1 .. n]
BY DEF MerkleRoot, FoldLeft, MapThenFoldSet, Rounds, AreRounds, Up

\* Rounds exist for any number of entries.
LEMMA RoundsExist ==
  ASSUME NEW n \in Nat, NEW base
  PROVE  \E g : AreRounds(g, n, base)
<1> DEFINE S == {k \in Nat : \E g : AreRounds(g, k, base)}
<1>1. 0 \in S
  <2> DEFINE g == [s \in SUBSET (1 .. 0) |-> base]
  <2>1. SUBSET (1 .. 0) = {{}}
    OBVIOUS
  <2>2. AreRounds(g, 0, base)
    BY <2>1 DEF AreRounds
  <2> QED  BY <2>2
<1>2. ASSUME NEW k \in 0 .. n - 1, k \in S
      PROVE  k + 1 \in S
  <2>1. PICK g : AreRounds(g, k, base)
    BY <1>2
  <2> DEFINE h == [s \in SUBSET (1 .. k + 1) |-> IF k + 1 \in s THEN Up(g[s \ {k + 1}]) ELSE g[s]]
  <2>2. ASSUME NEW s \in SUBSET (1 .. k + 1)
        PROVE  h[s] = IF s = {} THEN base ELSE Up(h[s \ {Max(s)}])
    <3>1. CASE s = {}
      <4>1. s \in SUBSET (1 .. k) /\ k + 1 \notin s
        BY <3>1
      <4>2. g[s] = base
        BY <2>1, <3>1, <4>1 DEF AreRounds
      <4> QED  BY <3>1, <4>1, <4>2
    <3>2. CASE s # {} /\ k + 1 \notin s
      <4>1. s \in SUBSET (1 .. k) /\ s \ {Max(s)} \in SUBSET (1 .. k) /\ k + 1 \notin s \ {Max(s)}
        <5>1. s \in SUBSET (1 .. k)
          BY <3>2
        <5> QED  BY <3>2, <5>1
      <4>2. s \ {Max(s)} \in SUBSET (1 .. k + 1)
        OBVIOUS
      <4>3. h[s] = g[s] /\ h[s \ {Max(s)}] = g[s \ {Max(s)}]
        BY <3>2, <4>1, <4>2
      <4>4. g[s] = Up(g[s \ {Max(s)}])
        BY <2>1, <3>2, <4>1 DEF AreRounds
      <4> QED  BY <3>2, <4>3, <4>4
    <3>3. CASE k + 1 \in s
      <4>1. Max(s) = k + 1
        <5>1. Max(s) \in s /\ \A j \in s : Max(s) >= j
          BY <3>3, Greatest, k + 1 \in Nat
        <5> DEFINE m == Max(s)
        <5>2. m \in s /\ m >= k + 1
          BY <3>3, <5>1
        <5> HIDE DEF m
        <5>3. m \in Int /\ m <= k + 1
          BY <5>2
        <5>4. m = k + 1
          BY <5>2, <5>3
        <5> QED  BY <5>4 DEF m
      <4>2. s \ {k + 1} \in SUBSET (1 .. k) /\ s \ {k + 1} \in SUBSET (1 .. k + 1)
        OBVIOUS
      <4>3. h[s] = Up(g[s \ {k + 1}]) /\ h[s \ {k + 1}] = g[s \ {k + 1}]
        BY <3>3, <4>2
      <4> QED  BY <3>3, <4>1, <4>3
    <3> QED  BY <3>1, <3>2, <3>3
  <2>3. AreRounds(h, k + 1, base)
    <3> HIDE DEF h
    <3>1. h = [s \in SUBSET (1 .. k + 1) |-> h[s]]
      BY DEF h
    <3> QED  BY <2>2, <3>1, Zenon DEF AreRounds
  <2> QED  BY <2>3
<1> HIDE DEF S
<1>3. n \in S
  BY <1>1, <1>2, Climb
<1> QED  BY <1>3 DEF S

\* The rounds, one at a time.
LEMMA RoundByRound ==
  ASSUME NEW n \in Nat, NEW base
  PROVE  LET g == Rounds(n, base)
         IN  /\ g[1 .. 0] = base
             /\ \A k \in 0 .. n - 1 : g[1 .. k + 1] = Up(g[1 .. k])
<1> DEFINE g == Rounds(n, base)
<1>1. AreRounds(g, n, base)
  BY RoundsExist, Zenon DEF Rounds
<1> HIDE DEF g
<1>2. g[1 .. 0] = base
  <2>1. 1 .. 0 = {} /\ 1 .. 0 \in SUBSET (1 .. n)
    OBVIOUS
  <2> QED  BY <1>1, <2>1 DEF AreRounds
<1>3. ASSUME NEW k \in 0 .. n - 1
      PROVE  g[1 .. k + 1] = Up(g[1 .. k])
  <2>1. 1 .. k + 1 \in SUBSET (1 .. n) /\ 1 .. k + 1 # {}
    BY k + 1 \in 1 .. k + 1
  <2>2. Max(1 .. k + 1) = k + 1
    <3>1. Max(1 .. k + 1) \in 1 .. k + 1 /\ \A j \in 1 .. k + 1 : Max(1 .. k + 1) >= j
      BY <2>1, Greatest
    <3> QED  BY <3>1
  <2>3. (1 .. k + 1) \ {k + 1} = 1 .. k
    OBVIOUS
  <2> QED  BY <1>1, <2>1, <2>2, <2>3 DEF AreRounds
<1> QED  BY <1>2, <1>3 DEF g

\* A level of the tree is a function on positions.
IsLevel(level, m) == level = [i \in 1 .. m |-> level[i]]

LEMMA UpLevel ==
  ASSUME NEW m \in Nat, NEW x, NEW y, IsLevel(x, m), IsLevel(y, m)
  PROVE  \E k \in Nat : IsLevel(Up(x), k) /\ IsLevel(Up(y), k) /\ (Up(x) = Up(y) => x = y)
<1>1. Len(x) = m /\ Len(y) = m
  BY DEF IsLevel
<1>2. CASE m <= 1
  BY <1>1, <1>2 DEF Up
<1>3. CASE m > 1
  <2> DEFINE k == (m + 1) \div 2
  <2>1. k \in Nat
    OBVIOUS
  <2>2. Up(x) = NextLevel(x) /\ Up(y) = NextLevel(y)
    BY <1>1, <1>3 DEF Up
  <2>3. IsLevel(NextLevel(x), k) /\ IsLevel(NextLevel(y), k)
    BY <1>1 DEF IsLevel, NextLevel
  <2>4. ASSUME NextLevel(x) = NextLevel(y), NEW i \in 1 .. m
        PROVE  x[i] = y[i]
    <3>1. \A j \in 1 .. k : /\ NextLevel(x)[j].left = x[2 * j - 1]
                            /\ NextLevel(y)[j].left = y[2 * j - 1]
                            /\ 2 * j <= m => /\ NextLevel(x)[j].right = x[2 * j]
                                             /\ NextLevel(y)[j].right = y[2 * j]
      BY <1>1 DEF NextLevel
    <3>2. \E j \in 1 .. k : i = 2 * j - 1 \/ (i = 2 * j /\ 2 * j <= m)
      <4>1. i = 2 * ((i + 1) \div 2) - 1 \/ i = 2 * ((i + 1) \div 2)
        OBVIOUS
      <4>2. (i + 1) \div 2 \in 1 .. k
        OBVIOUS
      <4> QED  BY <4>1, <4>2
    <3> QED  BY <2>4, <3>1, <3>2
  <2>5. NextLevel(x) = NextLevel(y) => x = y
    BY <2>4, Zenon DEF IsLevel
  <2> HIDE DEF k
  <2> QED  BY <2>1, <2>2, <2>3, <2>5
<1> QED  BY <1>2, <1>3

\* A Merkle root and a number of entries determine the entry hashes: the root
\* of a list of another length may be the same, that of another list of the
\* same length may not.
LEMMA RootBinds ==
  ASSUME NEW b, NEW d, NEW n \in Nat, DOMAIN b = 1 .. n, DOMAIN d = 1 .. n,
         MerkleRoot(b) = MerkleRoot(d)
  PROVE  \A i \in 1 .. n : EntryHash(b[i]) = EntryHash(d[i])
<1> DEFINE g == Rounds(n, Leaves(b))
           h == Rounds(n, Leaves(d))
           S == {k \in Nat : \E m \in Nat :
                   /\ IsLevel(g[1 .. k], m) /\ IsLevel(h[1 .. k], m)
                   /\ g[1 .. k] = h[1 .. k] => Leaves(b) = Leaves(d)}
<1>1. /\ g[1 .. 0] = Leaves(b) /\ h[1 .. 0] = Leaves(d)
      /\ \A k \in 0 .. n - 1 : g[1 .. k + 1] = Up(g[1 .. k]) /\ h[1 .. k + 1] = Up(h[1 .. k])
  BY RoundByRound
<1>2. MerkleRoot(b) = g[1 .. n] /\ MerkleRoot(d) = h[1 .. n]
  BY RootIsRounds
<1> HIDE DEF g, h
<1>3. 0 \in S
  <2>1. IsLevel(Leaves(b), n) /\ IsLevel(Leaves(d), n)
    BY DEF IsLevel, Leaves
  <2> QED  BY <1>1, <2>1
<1>4. ASSUME NEW k \in 0 .. n - 1, k \in S
      PROVE  k + 1 \in S
  <2>1. PICK m \in Nat : /\ IsLevel(g[1 .. k], m) /\ IsLevel(h[1 .. k], m)
                         /\ g[1 .. k] = h[1 .. k] => Leaves(b) = Leaves(d)
    BY <1>4
  <2>2. PICK l \in Nat : /\ IsLevel(Up(g[1 .. k]), l) /\ IsLevel(Up(h[1 .. k]), l)
                         /\ Up(g[1 .. k]) = Up(h[1 .. k]) => g[1 .. k] = h[1 .. k]
    <3> DEFINE x == g[1 .. k]
               y == h[1 .. k]
    <3>1. IsLevel(x, m) /\ IsLevel(y, m)
      BY <2>1
    <3> HIDE DEF x, y
    <3>2. \E l \in Nat : IsLevel(Up(x), l) /\ IsLevel(Up(y), l) /\ (Up(x) = Up(y) => x = y)
      BY <3>1, UpLevel, Zenon
    <3> QED  BY <3>2 DEF x, y
  <2> QED  BY <1>1, <2>1, <2>2
<1> HIDE DEF S
<1>5. n \in S
  <2>1. \A k \in 0 .. n - 1 : k \in S => k + 1 \in S
    BY <1>4, Zenon
  <2>2. 0 .. n \subseteq S
    BY <1>3, <2>1, Climb, Zenon
  <2> QED  BY <2>2
<1>6. Leaves(b) = Leaves(d)
  BY <1>2, <1>5 DEF S
<1> QED  BY <1>6 DEF Leaves

-----------------------------------------------------------------------------
(***************************************************************************)
(* Balances.  Chains with the same head carry the same headers: a head     *)
(* hash names one header, the header its predecessor's hash, and the index *)
(* says how many there are.  Headers bind their entries up to entry_hash,  *)
(* and the sums read nothing that entry_hash leaves out.                   *)
(***************************************************************************)

\* What is summed of an entry is covered by its hash.
LEMMA HashCovers ==
  ASSUME NEW e, NEW f, EntryHash(e) = EntryHash(f)
  PROVE  e.account = f.account /\ e.delta = f.delta
BY DEF EntryHash

\* Entry lists of one length and one root pay alike.
LEMMA CreditedAlike ==
  ASSUME NEW b, NEW d, NEW n \in Nat, DOMAIN b = 1 .. n, DOMAIN d = 1 .. n,
         MerkleRoot(b) = MerkleRoot(d)
  PROVE  \A before, account : Credited(before, b, account) = Credited(before, d, account)
<1> SUFFICES ASSUME NEW before, NEW account
             PROVE  Credited(before, b, account) = Credited(before, d, account)
  OBVIOUS
<1> DEFINE Sum(x, k, s) == IF x[k].account = account THEN s + x[k].delta ELSE s
           IsSum(x, g) == g = [s \in SUBSET (1 .. n) |->
                                 IF s = {} THEN before ELSE Sum(x, Max(s), g[s \ {Max(s)}])]
<1>1. \A i \in 1 .. n : b[i].account = d[i].account /\ b[i].delta = d[i].delta
  BY RootBinds, HashCovers
<1>2. \A i \in 1 .. n : \A s : Sum(b, i, s) = Sum(d, i, s)
  BY <1>1
<1>3. \A s \in SUBSET (1 .. n) : s # {} => Max(s) \in 1 .. n
  BY Greatest
<1>4. Credited(before, b, account) = (CHOOSE g : IsSum(b, g))[1 .. n]
  BY DEF Credited, FoldLeft, MapThenFoldSet
<1>5. Credited(before, d, account) = (CHOOSE g : IsSum(d, g))[1 .. n]
  BY DEF Credited, FoldLeft, MapThenFoldSet
<1>6. \A g : IsSum(b, g) <=> IsSum(d, g)
  <2> SUFFICES ASSUME NEW g PROVE IsSum(b, g) <=> IsSum(d, g)
    OBVIOUS
  <2> HIDE DEF Sum
  <2>1. \A s \in SUBSET (1 .. n) :
          (IF s = {} THEN before ELSE Sum(b, Max(s), g[s \ {Max(s)}]))
          = (IF s = {} THEN before ELSE Sum(d, Max(s), g[s \ {Max(s)}]))
    BY <1>2, <1>3
  <2>2. [s \in SUBSET (1 .. n) |-> IF s = {} THEN before ELSE Sum(b, Max(s), g[s \ {Max(s)}])]
        = [s \in SUBSET (1 .. n) |-> IF s = {} THEN before ELSE Sum(d, Max(s), g[s \ {Max(s)}])]
    BY <2>1, Zenon
  <2> QED  BY <2>2, Zenon
<1> HIDE DEF IsSum
<1>7. (CHOOSE g : IsSum(b, g)) = (CHOOSE g : IsSum(d, g))
  BY <1>6, Zenon
<1> QED  BY <1>4, <1>5, <1>7

\* Chains whose blocks pay alike, one by one, have the same balances.
LEMMA BalanceAlike ==
  ASSUME NEW c, NEW d, NEW n \in Nat, DOMAIN c = 1 .. n, DOMAIN d = 1 .. n, NEW account,
         \A i \in 1 .. n : \A before :
           Credited(before, c[i].body, account) = Credited(before, d[i].body, account)
  PROVE  Balance(c, account) = Balance(d, account)
<1> DEFINE Paid1(x, k, s) == Credited(s, x[k].body, account)
           IsSum(x, g) == g = [s \in SUBSET (1 .. n) |->
                                 IF s = {} THEN 0 ELSE Paid1(x, Max(s), g[s \ {Max(s)}])]
<1>1. \A i \in 1 .. n : \A s : Paid1(c, i, s) = Paid1(d, i, s)
  OBVIOUS
<1>2. \A s \in SUBSET (1 .. n) : s # {} => Max(s) \in 1 .. n
  BY Greatest
<1>3. Balance(c, account) = (CHOOSE g : IsSum(c, g))[1 .. n]
  BY DEF Balance, FoldLeft, MapThenFoldSet
<1>4. Balance(d, account) = (CHOOSE g : IsSum(d, g))[1 .. n]
  BY DEF Balance, FoldLeft, MapThenFoldSet
<1>5. \A g : IsSum(c, g) <=> IsSum(d, g)
  <2> SUFFICES ASSUME NEW g PROVE IsSum(c, g) <=> IsSum(d, g)
    OBVIOUS
  <2> HIDE DEF Paid1
  <2>1. \A s \in SUBSET (1 .. n) :
          (IF s = {} THEN 0 ELSE Paid1(c, Max(s), g[s \ {Max(s)}]))
          = (IF s = {} THEN 0 ELSE Paid1(d, Max(s), g[s \ {Max(s)}]))
    BY <1>1, <1>2
  <2>2. [s \in SUBSET (1 .. n) |-> IF s = {} THEN 0 ELSE Paid1(c, Max(s), g[s \ {Max(s)}])]
        = [s \in SUBSET (1 .. n) |-> IF s = {} THEN 0 ELSE Paid1(d, Max(s), g[s \ {Max(s)}])]
    BY <2>1, Zenon
  <2> QED  BY <2>2, Zenon
<1> HIDE DEF IsSum
<1>6. (CHOOSE g : IsSum(c, g)) = (CHOOSE g : IsSum(d, g))
  BY <1>5, Zenon
<1> QED  BY <1>3, <1>4, <1>6

\* What verify_full says of one header.
LEMMA VerifiedHeader ==
  ASSUME NEW c \in Seq(Block), VerifyFull(c), NEW i \in 1 .. Len(c)
  PROVE  /\ c[i].header.index = i - 1
         /\ i > 1 => c[i].header.prev = c[i - 1].header.hash
         /\ c[i].header.count = Len(c[i].body)
         /\ c[i].header.root = MerkleRoot(c[i].body)
<1>1. i \in DOMAIN c
  OBVIOUS
<1> QED  BY <1>1 DEF VerifyFull, VerifyBlock, BodyMatches

\* Chains that verify and have one head have the same headers, one for one.
LEMMA SameHeaders ==
  ASSUME ChainTypeOK, NEW c \in Seq(Block), NEW d \in Seq(Block), VerifyFull(c), VerifyFull(d),
         HeadHash(c) = HeadHash(d)
  PROVE  Len(c) = Len(d) /\ \A i \in 1 .. Len(c) : c[i].header = d[i].header
<1>1. \A x \in Seq(Block) :
        x # <<>> => HeadHash(x) = x[Len(x)].header.hash /\ Len(x) \in 1 .. Len(x)
  BY DEF HeadHash
<1>2. \A x \in Seq(Block) : x # <<>> => HeadHash(x) # GenesisPrev
  <2> SUFFICES ASSUME NEW x \in Seq(Block), x # <<>> PROVE HeadHash(x) # GenesisPrev
    OBVIOUS
  <2>1. x[Len(x)].header \in headers
    BY <1>1, BlockOf
  <2>2. x[Len(x)].header.hash \in Hash
    BY <2>1 DEF ChainTypeOK
  <2>3. \A h \in Hash : h # GenesisPrev
    BY LedgerChainAssumption DEF LedgerChainAssumption, Hash, GenesisPrev
  <2> QED  BY <1>1, <2>2, <2>3
<1>3. CASE c = <<>> \/ d = <<>>
  <2>1. c = <<>> /\ d = <<>>
    BY <1>2, <1>3 DEF HeadHash
  <2> QED  BY <2>1
<1>4. CASE c # <<>> /\ d # <<>>
  <2> DEFINE n == Len(c)
             S == {k \in Nat : k < n => c[n - k].header = d[n - k].header}
  <2>1. c[n].header = d[Len(d)].header
    <3>1. c[n].header \in headers /\ d[Len(d)].header \in headers
      BY <1>1, <1>4, BlockOf
    <3>2. c[n].header.hash = d[Len(d)].header.hash
      BY <1>1, <1>4
    <3> QED  BY <3>1, <3>2 DEF ChainTypeOK
  <2>2. n = Len(d)
    <3>1. c[n].header.index = n - 1 /\ d[Len(d)].header.index = Len(d) - 1
      BY <1>1, <1>4, VerifiedHeader
    <3> QED  BY <2>1, <3>1
  <2>3. n \in Nat /\ 0 \in S
    BY <2>1, <2>2
  <2>4. ASSUME NEW k \in 0 .. n - 1, k \in S
        PROVE  k + 1 \in S
    <3> SUFFICES ASSUME k + 1 < n PROVE c[n - (k + 1)].header = d[n - (k + 1)].header
      OBVIOUS
    <3> DEFINE i == n - k
    <3>1. i \in 1 .. n /\ i - 1 \in 1 .. n /\ i > 1 /\ i - 1 = n - (k + 1)
      OBVIOUS
    <3>2. c[i].header = d[i].header
      BY <2>4
    <3> HIDE DEF i
    <3>3. c[i - 1].header.hash = d[i - 1].header.hash
      BY <2>2, <3>1, <3>2, VerifiedHeader
    <3>4. c[i - 1].header \in headers /\ d[i - 1].header \in headers
      BY <2>2, <3>1, BlockOf
    <3>5. c[i - 1].header = d[i - 1].header
      BY <3>3, <3>4 DEF ChainTypeOK
    <3> QED  BY <3>1, <3>5
  <2>5. 0 .. n \subseteq S
    <3> HIDE DEF S, n
    <3>1. \A k \in 0 .. n - 1 : k \in S => k + 1 \in S
      BY <2>4, Zenon
    <3> QED  BY <2>3, <3>1, Climb, Zenon
  <2>6. ASSUME NEW i \in 1 .. n PROVE c[i].header = d[i].header
    <3>1. n - i \in S
      BY <2>5
    <3>2. n - i < n /\ n - (n - i) = i
      OBVIOUS
    <3> QED  BY <3>1, <3>2
  <2> QED  BY <2>2, <2>6
<1> QED  BY <1>3, <1>4

LEMMA SameHeadSameSums ==
  ASSUME ChainTypeOK, NEW c \in Seq(Block), NEW d \in Seq(Block), VerifyFull(c), VerifyFull(d),
         HeadHash(c) = HeadHash(d), NEW account
  PROVE  Balance(c, account) = Balance(d, account)
<1> DEFINE n == Len(c)
<1>1. n \in Nat /\ Len(d) = n /\ \A i \in 1 .. n : c[i].header = d[i].header
  BY SameHeaders
<1>2. DOMAIN c = 1 .. n /\ DOMAIN d = 1 .. n
  BY <1>1
<1>3. ASSUME NEW i \in 1 .. n
      PROVE  \A before : Credited(before, c[i].body, account) = Credited(before, d[i].body, account)
  <2>1. c[i].header = d[i].header
    BY <1>1
  <2>2. /\ c[i].header.count = Len(c[i].body) /\ c[i].header.root = MerkleRoot(c[i].body)
        /\ d[i].header.count = Len(d[i].body) /\ d[i].header.root = MerkleRoot(d[i].body)
    BY <1>1, VerifiedHeader
  <2>3. c[i].body \in Bodies /\ d[i].body \in Bodies
    BY <1>1, BlockOf
  <2>4. \A body \in Bodies : Len(body) \in Nat /\ DOMAIN body = 1 .. Len(body)
    BY LedgerChainAssumption DEF LedgerChainAssumption
  <2> QED  BY <2>1, <2>2, <2>3, <2>4, CreditedAlike
<1> HIDE DEF n
<1> QED  BY <1>1, <1>2, <1>3, BalanceAlike

\* Replicas with the same head pay every account the same: the signed header
\* fixes, through entry_count and merkle_root, all that Chain.balances adds up,
\* although a root alone does not fix how many entries there are.
THEOREM SamePay == ChainSpec => []SameHeadSameBalances
<1>1. LInv /\ [ChainNext]_chainVars => LInv'
  BY ChainStepInv
<1>2. LInv => SameHeadSameBalances
  BY SameHeadSameSums DEF LInv, ChainTypeOK, AcceptedIsVerifiable, SameHeadSameBalances
<1> QED  BY ChainInitInv, <1>1, <1>2, PTL DEF ChainSpec
=============================================================================
