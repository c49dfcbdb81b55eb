---------------------------- MODULE MCFairClaims ----------------------------
(***************************************************************************)
(* An instance of FairClaims: live and batch work that arrives while       *)
(* claims are made.                                                        *)
(***************************************************************************)
EXTENDS FairClaims

\* Source 1 has jobs 1 to 3, source 2 jobs 4 to 6.
SmallSource == [j \in Jobs |-> IF j <= 3 THEN 1 ELSE 2]
\* Job 1 is never live; 2 and 5 are live no longer than at time 1.
SmallDeadline == [j \in Jobs |-> CASE j = 1 -> 0 [] j \in {2, 5} -> 1 [] OTHER -> 2]
=============================================================================
