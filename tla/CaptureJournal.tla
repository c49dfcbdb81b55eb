---------------------------- MODULE CaptureJournal ----------------------------
(***************************************************************************)
(* The capture lifecycle (sigy-core/src/capture.rs) and its journal        *)
(* (storage/captures/journal.rs): which event leads from which state to    *)
(* which, and how an event moves the version that workers must present.    *)
(***************************************************************************)
EXTENDS Naturals

States == {"scheduled", "starting", "running", "retrying", "stopping",
           "completed", "interrupted", "cancelled", "failed"}
Active == {"starting", "running", "retrying", "stopping"}
Live == Active \union {"scheduled", "interrupted"}
Terminal == States \ Live

\* The transitions of the contract: <<state, event, next state>>.
Transitions ==
    (({"scheduled", "retrying", "interrupted"} \X {"start"}) \X {"starting"})
    \union {<<<<"starting", "connected">>, "running">>}
    \union (({"starting", "running"} \X {"retry"}) \X {"retrying"})
    \union (({"starting", "running", "retrying"} \X {"stop"}) \X {"stopping"})
    \union {<<<<"stopping", "finalized">>, "completed">>}
    \union ((Active \X {"lost"}) \X {"interrupted"})
    \union (({"scheduled", "interrupted"} \X {"cancel"}) \X {"cancelled"})
    \union ((Live \X {"fail"}) \X {"failed"})

Allowed(state, event) == \E t \in Transitions : t[1] = <<state, event>>
After(state, event) ==
    CHOOSE next \in States : <<<<state, event>>, next>> \in Transitions

\* A start or a loss begins a new generation; every event is a revision.
Versions == [generation : Nat, revision : Nat]
NextVersion(version, event) ==
    [generation |-> version.generation
                      + (IF event \in {"start", "lost"} THEN 1 ELSE 0),
     revision |-> version.revision + 1]
===============================================================================
