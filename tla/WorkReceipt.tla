---------------------------- MODULE WorkReceipt ----------------------------
(***************************************************************************)
(* The measured work of a receipt and the one formula that turns it into   *)
(* credit.  Both the control plane (ControlPlane) and the replicated       *)
(* ledger (LedgerChain) pay by this formula.                               *)
(*                                                                         *)
(* Credit is counted in millionths, the tolerance with which the           *)
(* replicated ledger compares it, and GPU time in microseconds.  A receipt *)
(* may claim any numbers, negative ones included.                          *)
(***************************************************************************)
EXTENDS Integers

Outcome == {"ok", "partial", "failed", "cancelled"}

MeasuredWork == [outcome : Outcome, tokens : Int, gpuUs : Int]

\* round(gpu_active_ms / 1000.0, 3), in thousandths of a second; which way a tie
\* goes is the float's matter.
Thousandths(us) == (us + 500) \div 1000

\* Work that ran to an end, fully or in part, earns its tokens, or its GPU
\* time when it says it generated none; failed and cancelled work earns nothing.
CreditFor(w) ==
  IF w.outcome \notin {"ok", "partial"} THEN 0
  ELSE IF w.tokens # 0 THEN 1000000 * w.tokens
  ELSE 1000 * Thousandths(w.gpuUs)
=============================================================================
