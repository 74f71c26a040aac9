---------------------------- MODULE MCLedgerChain ----------------------------
(***************************************************************************)
(* Instances of LedgerChain for TLC: entry lists a producer may put in a   *)
(* block, and lists that verify_block must refuse.                         *)
(***************************************************************************)
EXTENDS LedgerChain

CONSTANT a   \* an account

MCReceipt(id, node, nonce) ==
  [id |-> id, node |-> node, nonce |-> nonce, signed |-> TRUE,
   work |-> [outcome |-> "ok", tokens |-> 1, gpuUs |-> 0]]

\* An earn that is off by what the comparison tolerates.
MCEarn(nonce, receipt) ==
  [id |-> receipt.id, account |-> receipt.node, delta |-> 1000001, reason |-> "verified_work",
   ref |-> receipt.id, nonce |-> nonce, receipt |-> receipt]

MCSpend(id) ==
  [id |-> id, account |-> a, delta |-> -1, reason |-> "consumption",
   ref |-> "", nonce |-> NoNonce, receipt |-> NoReceipt]

EarnA    == MCEarn("n1", MCReceipt("x", a, "n1"))
Stripped == [EarnA EXCEPT !.receipt = NoReceipt]

\* Three entries, and the list with the last one doubled: one Merkle root.
Odd  == <<MCSpend("s1"), MCSpend("s2"), MCSpend("s3")>>
Even == Append(Odd, MCSpend("s3"))

\* <<Stripped>> has the Merkle root of <<EarnA>>, Even that of Odd.
MCBodies == {<<>>, <<EarnA>>, <<Stripped>>, Odd, Even}

\* The same receipt under two entry nonces.
MCRenamed == {<<EarnA>>, <<[EarnA EXCEPT !.nonce = "n2"]>>}
=============================================================================
