---------------------------- MODULE CreditLedger ----------------------------
(***************************************************************************)
(* What the accounting promises, with no nodes, plans, transactions or     *)
(* crashes: a work receipt is accepted at most once, redeems one nonce     *)
(* that no other accepted receipt redeems, and is entered in the ledger at *)
(* most once, after it was accepted, in favour of the payee the nonce was  *)
(* given to.  Entries are numbered in the order they are made and none is  *)
(* ever changed.  ControlPlane implements it.                              *)
(***************************************************************************)
EXTENDS Naturals

CONSTANTS
  Payees,    \* who can be credited
  Tokens,    \* nonces, each a pair of the payee it was given to and a number
  Receipts   \* identities of work receipts

VARIABLES
  accepted,  \* accepted receipts, each with the nonce it redeems
  length,    \* how many ledger entries there are
  entries    \* the ledger entries made for each receipt

Init ==
  /\ accepted = {}
  /\ length = 0
  /\ entries = [id \in Receipts |-> {}]

Accept(id, token) ==
  /\ \A a \in accepted : a.id # id /\ a.nonce # token
  /\ accepted' = accepted \cup {[id |-> id, nonce |-> token]}
  /\ UNCHANGED <<length, entries>>

Pay(id) ==
  /\ entries[id] = {}
  /\ \E a \in accepted :
       /\ a.id = id
       /\ entries' = [entries EXCEPT ![id] = {[row |-> length + 1, payee |-> a.nonce[1]]}]
  /\ length' = length + 1
  /\ UNCHANGED accepted

Next ==
  \/ \E id \in Receipts, token \in Tokens : Accept(id, token)
  \/ \E id \in Receipts : Pay(id)

Spec == Init /\ [][Next]_<<accepted, length, entries>>
=============================================================================
