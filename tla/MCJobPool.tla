------------------------------ MODULE MCJobPool ------------------------------
(***************************************************************************)
(* Small instances of JobPool.  Two lineages; v verifies, a and b recognise *)
(* and t translates.                                                       *)
(***************************************************************************)
EXTENDS JobPool, TLC

CONSTANTS v, a, b, t, l1, l2, u1, u2

MCKindOf == [j \in Jobs |-> CASE j = v -> "verification"
                              [] j = t -> "translation"
                              [] OTHER -> "recognition"]
SameLineage == [j \in Jobs |-> l1]
OwnLineage == [j \in Jobs |-> IF j = b THEN l2 ELSE l1]
TaskSymmetry == Permutations(Tasks)
JobSymmetry == Permutations({a, b})

OneOfEach == [k \in Kinds |-> 1]
TwoOfEach == [k \in Kinds |-> 2]

=============================================================================
