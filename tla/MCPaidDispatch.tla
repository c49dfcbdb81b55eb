---------------------------- MODULE MCPaidDispatch ----------------------------
(***************************************************************************)
(* Instance of PaidDispatch: an attempt, its retry and a third request in  *)
(* the global budget, the third one in a budget of its own too.            *)
(***************************************************************************)
EXTENDS PaidDispatch

CONSTANTS r1, r2, r3, paid

TwoMaxima == [r \in Requests |-> IF r = r3 THEN 2 ELSE 1]
ThirdPays == [r \in Requests |-> IF r = r3 THEN {paid} ELSE {}]
SecondRetries == [r \in Requests |-> IF r = r2 THEN r1 ELSE NoRequest]
=============================================================================
