------------------------------ MODULE FairClaims ------------------------------
(***************************************************************************)
(* Which queued job of one kind the scheduler claims next (fairness.rs).   *)
(* Claims rotate across sources, live work goes first, and every fourth    *)
(* claim belongs to the oldest waiting batch job.  The class of a job is   *)
(* computed at claim time: it is live while a monitor follows its source   *)
(* and its measured deadline has not passed (storage/deadline.rs).         *)
(*                                                                         *)
(* Job IDs and sources are numbers, because both are compared.             *)
(***************************************************************************)
EXTENDS Naturals, FiniteSets

CONSTANTS
    Jobs,        \* candidate IDs, in ID order
    Sources,     \* source revisions, in name order
    SourceOf,    \* Jobs -> Sources
    Deadline,    \* Jobs -> last live time; 0 when no pace was measured
    SharePeriod, \* SHARE_PERIOD
    Backlog,     \* jobs already queued when the service starts
    MaxTime      \* bound of the model: clock

ASSUME FairClaimsAssumption ==
    /\ Jobs \subseteq Nat \ {0} /\ IsFiniteSet(Jobs)
    /\ Sources \subseteq Nat \ {0} /\ IsFiniteSet(Sources)
    /\ SourceOf \in [Jobs -> Sources]
    /\ Deadline \in [Jobs -> Nat]
    /\ SharePeriod \in Nat \ {0}
    /\ Backlog \subseteq Jobs
    /\ MaxTime \in Nat

VARIABLES
    now,      \* wall clock of the service
    ready,    \* created_ms of each job; 0 before it is queued
    waiting,  \* queued jobs whose lineage is idle
    followed, \* sources an unpaused monitor follows
    cursor,   \* FairCursor: turn, and the last source of each class
    passed,   \* history: started claims that passed over the oldest batch job
    skipped   \* history: started claims of a class that passed over a source

vars == <<now, ready, waiting, followed, cursor, passed, skipped>>

Classes == {"Live", "Batch"}
None == 0
NewCursor == [turn |-> 0, last |-> [c \in Classes |-> None]]

ClassOf(j) == IF SourceOf[j] \in followed /\ now <= Deadline[j] THEN "Live" ELSE "Batch"
Candidates(c) == {j \in waiting : ClassOf(j) = c}

\* The order inside a class: deadline first for live work, arrival for batch.
Key(j) == IF ClassOf(j) = "Live" THEN <<Deadline[j], ready[j], j>>
          ELSE <<ready[j], ready[j], j>>
Before(p, q) == \/ p[1] < q[1]
                \/ p[1] = q[1] /\ p[2] < q[2]
                \/ p[1] = q[1] /\ p[2] = q[2] /\ p[3] < q[3]

First(S) == CHOOSE j \in S : \A k \in S \ {j} : Before(Key(j), Key(k))

SourcesWaiting(c) == {SourceOf[j] : j \in Candidates(c)}
SmallestOf(S) == CHOOSE s \in S : \A r \in S : s <= r

\* Mutant: the last source is not left behind.
RotateInclusive(c) ==
    LET later == {s \in SourcesWaiting(c) : s >= cursor.last[c]}
        turnOf == SmallestOf(IF later = {} THEN SourcesWaiting(c) ELSE later)
    IN  IF cursor.last[c] = None THEN First(Candidates(c))
        ELSE First({j \in Candidates(c) : SourceOf[j] = turnOf})

\* The next source after the last one of this class, in name order, round again.
Rotate(c) ==
    LET later == {s \in SourcesWaiting(c) : s > cursor.last[c]}
        turnOf == SmallestOf(IF later = {} THEN SourcesWaiting(c) ELSE later)
    IN  IF cursor.last[c] = None THEN First(Candidates(c))
        ELSE First({j \in Candidates(c) : SourceOf[j] = turnOf})

Reserved == cursor.turn % SharePeriod = SharePeriod - 1

\* Mutant: live work also takes the reserved claim.
ChooseLiveFirst == IF Candidates("Live") # {} THEN Rotate("Live")
                   ELSE IF Reserved THEN First(Candidates("Batch"))
                   ELSE Rotate("Batch")

Choose == IF Reserved /\ Candidates("Batch") # {} THEN First(Candidates("Batch"))
          ELSE IF Candidates("Live") # {} THEN Rotate("Live")
          ELSE Rotate("Batch")

\* Mutant: the rotation remembers the source after this one.
AdvanceToNext(j) == [turn |-> cursor.turn + 1,
                     last |-> [cursor.last EXCEPT ![ClassOf(j)] = SourceOf[j] + 1]]

\* FairCursor::advance
Advance(j) == [turn |-> cursor.turn + 1,
               last |-> [cursor.last EXCEPT ![ClassOf(j)] = SourceOf[j]]]

Init ==
    /\ now = 1
    /\ ready = [j \in Jobs |-> IF j \in Backlog THEN 1 ELSE 0]
    /\ waiting = Backlog
    /\ followed = {}
    /\ cursor = NewCursor
    /\ passed = [j \in Jobs |-> 0]
    /\ skipped = [c \in Classes |-> [s \in Sources |-> 0]]

\* A new job is queued.
Arrive(j) ==
    /\ ready[j] = 0
    /\ ready' = [ready EXCEPT ![j] = now]
    /\ waiting' = waiting \union {j}
    /\ UNCHANGED <<now, followed, cursor, passed, skipped>>

\* Time passes: a live job whose deadline passed is batch from now on.
Tick ==
    /\ now < MaxTime
    /\ now' = now + 1
    /\ UNCHANGED <<ready, waiting, followed, cursor, passed, skipped>>

\* A monitor starts or stops following a source.
Follow(s) ==
    /\ followed' = IF s \in followed THEN followed \ {s} ELSE followed \union {s}
    /\ UNCHANGED <<now, ready, waiting, cursor, passed, skipped>>

\* The history of one started claim.
Passed(pick) ==
    [j \in Jobs |-> IF /\ j \in Candidates("Batch") /\ j # pick
                       /\ j = First(Candidates("Batch"))
                    THEN passed[j] + 1 ELSE 0]

Skipped(pick) ==
    LET class == ClassOf(pick)
    IN  [skipped EXCEPT ![class] =
            [s \in Sources |-> IF s \in SourcesWaiting(class) /\ s # SourceOf[pick]
                               THEN @[s] + 1 ELSE 0]]

\* schedule() claims the choice and a worker starts.
ClaimStarts ==
    /\ waiting # {}
    /\ LET pick == Choose
       IN  /\ waiting' = waiting \ {pick}
           /\ cursor' = Advance(pick)
           /\ passed' = Passed(pick)
           /\ skipped' = Skipped(pick)
    /\ UNCHANGED <<now, ready, followed>>

\* The choice ends without a worker: the rotation is not consumed.
ClaimEnds ==
    /\ waiting # {}
    /\ waiting' = waiting \ {Choose}
    /\ UNCHANGED <<now, ready, followed, cursor, passed, skipped>>

\* The rotation memory lives with the process.
Restart ==
    /\ cursor' = NewCursor
    /\ passed' = [j \in Jobs |-> 0]
    /\ skipped' = [c \in Classes |-> [s \in Sources |-> 0]]
    /\ UNCHANGED <<now, ready, waiting, followed>>

Next == \/ \E j \in Jobs : Arrive(j)
        \/ \E s \in Sources : Follow(s)
        \/ Tick \/ ClaimStarts \/ ClaimEnds \/ Restart

Spec == Init /\ [][Next]_vars

-----------------------------------------------------------------------------
(***************************************************************************)
(* Properties.                                                             *)
(***************************************************************************)

\* Every variable has its type.
TypeOK ==
    /\ now \in 1 .. MaxTime + 1
    /\ ready \in [Jobs -> Nat]
    /\ waiting \subseteq {j \in Jobs : ready[j] # 0}
    /\ followed \subseteq Sources
    /\ cursor \in [turn : Nat, last : [Classes -> Sources \union {None}]]
    /\ passed \in [Jobs -> Nat]
    /\ skipped \in [Classes -> [Sources -> Nat]]

\* However live work keeps arriving, changes class and rotates, the oldest
\* waiting batch job is passed over by at most SHARE_PERIOD - 1 started claims.
OldestBatchShare == \A j \in Jobs : passed[j] < SharePeriod

\* A source whose live work waits is passed over by at most one live claim of
\* every other source, although the reserved claims fall in between.
LiveSourcesRotate ==
    \A s \in Sources : skipped["Live"][s] < Cardinality(Sources)
=============================================================================
