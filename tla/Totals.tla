-------------------------------- MODULE Totals --------------------------------
(***************************************************************************)
(* Sums over finite sets: what the audits of the catalog recompute         *)
(* (audit_ledger, the byte audit of the DVR, sums in SQL).                 *)
(***************************************************************************)
EXTENDS Naturals, FiniteSetsExt

\* The sum of the amounts of the members of S.
Total(amount, S) == MapThenSumSet(LAMBDA r : amount[r], S)
=============================================================================
