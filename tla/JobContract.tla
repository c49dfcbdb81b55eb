----------------------------- MODULE JobContract -----------------------------
(***************************************************************************)
(* What the job pool promises about durable rows, without its actor: the   *)
(* transitions the row triggers allow (storage/031-job-pool.sql).  A job   *)
(* waits, works and is done; it publishes at most once, and only out of    *)
(* work; rivals never work together; a job starts at most MaxRuns times.   *)
(***************************************************************************)
EXTENDS Naturals

CONSTANTS Jobs, Rivals(_), MaxRuns

VARIABLES stage, runs, published

vars == <<stage, runs, published>>

Stages == {"new", "waiting", "working", "done"}

Init ==
    /\ stage = [j \in Jobs |-> "new"]
    /\ runs = [j \in Jobs |-> 0]
    /\ published = {}

Admit(j) ==
    /\ stage[j] = "new"
    /\ stage' = [stage EXCEPT ![j] = "waiting"]
    /\ UNCHANGED <<runs, published>>

\* A run is spent when the lease commits, whether or not a worker starts.
Start(j) ==
    /\ stage[j] = "waiting"
    /\ \A k \in Rivals(j) : stage[k] # "working"
    /\ runs[j] < MaxRuns
    /\ runs' = [runs EXCEPT ![j] = @ + 1]
    /\ \E s \in {"working", "done"} : stage' = [stage EXCEPT ![j] = s]
    /\ published' = published

Finish(j) ==
    /\ stage[j] = "working"
    /\ stage' = [stage EXCEPT ![j] = "done"]
    /\ published' \in {published, published \union {j}}
    /\ runs' = runs

\* Work a restart found goes back to the queue while it has runs left, or
\* ends; waiting jobs end when nobody wants them.
Reset(again, ended) ==
    /\ \A j \in again : stage[j] = "working" /\ runs[j] < MaxRuns
    /\ \A j \in ended : stage[j] \in {"waiting", "working"}
    /\ again \intersect ended = {}
    /\ stage' = [j \in Jobs |-> IF j \in again THEN "waiting"
                                ELSE IF j \in ended THEN "done" ELSE stage[j]]
    /\ UNCHANGED <<runs, published>>

Next == \/ \E j \in Jobs : Admit(j) \/ Start(j) \/ Finish(j)
        \/ \E again, ended \in SUBSET Jobs : Reset(again, ended)

Spec == Init /\ [][Next]_vars
=============================================================================
