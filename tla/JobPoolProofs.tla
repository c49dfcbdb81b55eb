---------------------------- MODULE JobPoolProofs ----------------------------
(***************************************************************************)
(* Proofs about JobPool for every value of its constants: its types, its   *)
(* leases, and what a native stop target in the catalog says of its job,   *)
(* which jobs a withdrawal may stop and which worker may start.            *)
(***************************************************************************)
EXTENDS JobPool, TLAPS, FiniteSetTheorems

\* The initial values of the record-valued variables have their types.
LEMMA InitialValues ==
    /\ NoClaim \in Claims
    /\ NoRow \in Rows
    /\ NoHold \in Holds
    /\ NoWorker \in Workers /\ NoWorker.result = "none"
    /\ NoSlot \in Slots
    /\ Wait \in Threads
BY DEF NoClaim, Claims, NoRow, Rows, States, Open, Terminal, NoHold, Holds, Bodies,
       NoWorker, Workers, NoSlot, Slots, Wait, Threads, Positions, Kinds

\* The initial state has the types of TypeOK.
LEMMA InitTypes == Init => TypeOK
<1> SUFFICES ASSUME Init PROVE TypeOK
    OBVIOUS
<1>1. [job |-> NoJob, claim |-> NoClaim] \in Revisions
    BY InitialValues DEF Revisions
<1>2. transcripts \in [Lineages -> Seq(Revisions)]
    <2>1. <<[job |-> NoJob, claim |-> NoClaim]>> \in Seq(Revisions) /\ <<>> \in Seq(Revisions)
        BY <1>1
    <2> QED BY <2>1 DEF Init
<1>3. translations \in [Lineages -> Seq(Revisions)]
    BY DEF Init
<1>4. row \in [Jobs -> Rows] /\ hold \in [Jobs -> Holds]
    BY InitialValues DEF Init
<1>5. worker \in Pools /\ slot \in [Jobs -> Slots] /\ pc \in Threads
    BY InitialValues DEF Init, Pools
<1> QED BY <1>2, <1>3, <1>4, <1>5, ConstantsAssumption
        DEF Init, TypeOK, ConstantsAssumption

-----------------------------------------------------------------------------
(***************************************************************************)
(* The values a step computes keep their types.                            *)
(***************************************************************************)

\* The catalog thread's next places.
LEMMA TurnType == ASSUME NEW s PROVE Turn(s) \in Threads
<1> DEFINE due == {k \in Jobs : s[k].body # "none"}
<1>1. [Wait EXCEPT !.at = "drive", !.todo = due] \in Threads
    BY InitialValues DEF Threads, Positions
<1> QED BY <1>1, InitialValues DEF Turn

LEMMA SchedulePassType ==
    ASSUME NEW b \in {"client", "tick", "drive", "boot"}
    PROVE  SchedulePass(b) \in Threads
BY InitialValues DEF SchedulePass, Threads, Positions

LEMMA AfterPassType == ASSUME NEW b, NEW s PROVE AfterPass(b, s) \in Threads
BY TurnType, InitialValues DEF AfterPass

\* Signals change nothing but the stop flag of a worker.
LEMMA SignalTypes ==
    ASSUME NEW w \in Pools, NEW S
    PROVE  StopAll(w) \in Pools /\ Signalled(w, S) \in Pools
<1>1. ASSUME NEW k \in Jobs
      PROVE  /\ [w[k] EXCEPT !.stop = TRUE] \in Workers
             /\ [w[k] EXCEPT !.stop = TRUE].result = w[k].result
    BY DEF Pools, Workers
<1>2. StopAll(w) \in Pools
    BY <1>1 DEF StopAll, Pools
<1>3. Signalled(w, S) \in Pools
    BY <1>1 DEF Signalled, Pools
<1> QED BY <1>2, <1>3

\* A worker that starts, or is forgotten, leaves a pool.
LEMMA PoolUpdate ==
    ASSUME NEW w \in Pools, NEW j \in Jobs, NEW x \in Workers, x.result # "undrained" \/ Native(j)
    PROVE  [w EXCEPT ![j] = x] \in Pools
BY DEF Pools

\* A job row changed in its state or its claim is a job row.
LEMMA RowUpdates ==
    ASSUME NEW r \in Rows, NEW s \in States
    PROVE  /\ [r EXCEPT !.state = s] \in Rows
           /\ \A c \in Claims : [r EXCEPT !.state = s, !.claim = c] \in Rows
BY DEF Rows

\* The row an admission inserts.
LEMMA QueuedType == ASSUME TypeOK, NEW j \in Jobs PROVE Queued(j) \in Rows
<1>1. LatestParent(j) \in Nat
    BY ConstantsAssumption DEF TypeOK, LatestParent, ConstantsAssumption
<1> QED BY <1>1 DEF Queued, Rows, Claims, States, Open

\* The lease a claim commits.
LEMMA LeaseType ==
    ASSUME TypeOK, NEW j \in Jobs
    PROVE  /\ Lease(j) \in Claims
           /\ Claimed(j) \in [Jobs -> Rows]
           /\ Launched(j) \in Workers /\ Launched(j).result = "busy"
<1>1. Lease(j) \in Claims
    BY DEF TypeOK, Lease, Rows, Claims
<1>2. [row[j] EXCEPT !.state = "running", !.claim = Lease(j)] \in Rows
    BY <1>1, RowUpdates DEF TypeOK, States, Open
<1>3. Claimed(j) \in [Jobs -> Rows]
    BY <1>2 DEF TypeOK, Claimed
<1> QED BY <1>1, <1>3 DEF Launched, Workers

-----------------------------------------------------------------------------
(***************************************************************************)
(* Every step keeps TypeOK, one lemma for each part of Next.               *)
(***************************************************************************)

LEMMA ClientTypes == TypeOK /\ Client => TypeOK'
<1> SUFFICES ASSUME TypeOK, Client PROVE TypeOK'
    OBVIOUS
<1> USE DEF vars, catalog, owners
<1>1. ASSUME NEW j \in Jobs, Enqueue(j) PROVE TypeOK'
    BY <1>1, QueuedType, SchedulePassType DEF TypeOK, Enqueue
<1>2. ASSUME NEW o \in Tasks \union {Standing}, NEW j \in Jobs, Join(o, j) PROVE TypeOK'
    <2>1. row' \in [Jobs -> Rows] /\ pc' \in Threads
        <3>1. CASE row' = [row EXCEPT ![j] = Queued(j)] /\ pc' = SchedulePass("tick")
            BY <3>1, QueuedType, SchedulePassType DEF TypeOK
        <3>2. CASE row' = row /\ pc' = Turn(slot)
            BY <3>2, TurnType DEF TypeOK
        <3> QED BY <1>2, <3>1, <3>2 DEF Join
    <2>2. interest' \in [Jobs -> SUBSET (Tasks \union {Standing})]
        BY <1>2 DEF TypeOK, Join
    <2> QED BY <1>2, <2>1, <2>2 DEF TypeOK, Join
<1>3. ASSUME NEW j \in Jobs, Cancel(j) PROVE TypeOK'
    <2>1. row' \in [Jobs -> Rows]
        BY <1>3, ZenonT(30) DEF TypeOK, Cancel, Rows, States, Open, Terminal
    <2> QED BY <1>3, <2>1, SignalTypes, TurnType DEF TypeOK, Cancel
<1>4. ASSUME NEW t \in Tasks, Withdraw(t) PROVE TypeOK'
    <2>1. row' \in [Jobs -> Rows]
        <3>1. ASSUME NEW j \in Jobs, NEW s \in {"cancelling", "cancelled"}
              PROVE  [row[j] EXCEPT !.state = s] \in Rows
            BY RowUpdates DEF TypeOK, States, Open, Terminal
        <3> QED BY <1>4, <3>1 DEF TypeOK, Withdraw
    <2>2. stops' \subseteq JobClaims
        <3>1. ASSUME NEW j \in Jobs PROVE [job |-> j, claim |-> row[j].claim] \in JobClaims
            BY DEF TypeOK, JobClaims, Rows
        <3> QED BY <1>4, <3>1 DEF TypeOK, Withdraw, Unshared
    <2> QED BY <1>4, <2>1, <2>2, SignalTypes, TurnType DEF TypeOK, Withdraw
<1>5. ASSUME NEW l \in Lineages, Repin(l) PROVE TypeOK'
    BY <1>5, TurnType DEF TypeOK, Repin
<1>6. ASSUME NEW l \in Lineages, Correct(l) PROVE TypeOK'
    <2>1. [job |-> NoJob, claim |-> NoClaim] \in Revisions
        BY InitialValues DEF Revisions
    <2> QED BY <1>6, <2>1, TurnType DEF TypeOK, Correct
<1>7. ASSUME StopService PROVE TypeOK'
    BY <1>7, SignalTypes, TurnType DEF TypeOK, StopService, Halt
<1> QED BY <1>1, <1>2, <1>3, <1>4, <1>5, <1>6, <1>7 DEF Client

LEMMA SchedulingTypes == TypeOK /\ Scheduling => TypeOK'
<1> SUFFICES ASSUME TypeOK, Scheduling PROVE TypeOK'
    OBVIOUS
<1> USE DEF vars, catalog, owners
<1>1. NextClaim \in Threads
    <2>1. pc \in Threads
        BY DEF TypeOK
    <2> QED BY <2>1 DEF NextClaim, Threads
<1>2. ASSUME SignalDurableStops PROVE TypeOK'
    <2>1. pc' \in Threads
        BY <1>2 DEF TypeOK, SignalDurableStops, Threads, Positions, Kinds
    <2> QED BY <1>2, <2>1, SignalTypes DEF TypeOK, SignalDurableStops
<1>3. ASSUME pc' = [pc EXCEPT !.kind = KindAfter[@], !.claims = 0], KindAfter[pc.kind] # "none"
      PROVE  pc' \in Threads
    <2>1. KindAfter[pc.kind] \in Kinds
        BY <1>3 DEF TypeOK, Threads, KindAfter, Kinds
    <2> QED BY <1>3, <2>1 DEF TypeOK, Threads
<1>4. ASSUME NextKind PROVE TypeOK'
    BY <1>4, <1>3, AfterPassType DEF TypeOK, NextKind
<1>5. ASSUME DecoderMissing PROVE TypeOK'
    <2>1. KindAfter[pc.kind] # "none"
        BY <1>5 DEF DecoderMissing, KindAfter
    <2> QED BY <1>5, <1>3, <2>1 DEF TypeOK, DecoderMissing, Spend
<1>6. ASSUME NEW j \in Jobs, ClaimEnds(j) PROVE TypeOK'
    <2>1. [row[j] EXCEPT !.state = "failed"] \in Rows
        BY RowUpdates DEF TypeOK, States, Terminal
    <2> QED BY <1>6, <1>1, <2>1 DEF TypeOK, ClaimEnds
<1>7. ASSUME NEW j \in Jobs, Launch(j) PROVE TypeOK'
    <2>1. worker' \in Pools
        BY <1>7, LeaseType, PoolUpdate DEF TypeOK, Launch
    <2> QED BY <1>7, <1>1, <2>1, LeaseType DEF TypeOK, Launch
<1>8. ASSUME NEW j \in Jobs, LaunchParks(j) PROVE TypeOK'
    <2>1. [NoSlot EXCEPT !.claim = Lease(j), !.body = "failed"] \in Slots
        BY InitialValues, LeaseType DEF Slots, Bodies
    <2>2. [NextClaim EXCEPT !.at = "remember", !.job = j, !.via = "launch"] \in Threads
        BY <1>1 DEF Threads, Positions
    <2> QED BY <1>8, <2>1, <2>2, LeaseType DEF TypeOK, LaunchParks, Spend
<1>9. ASSUME NEW j \in Jobs, ClaimFails(j) PROVE TypeOK'
    <2>1. [Claimed(j) EXCEPT ![j].state = "failed"] \in [Jobs -> Rows]
        <3>1. [Claimed(j)[j] EXCEPT !.state = "failed"] \in Rows
            BY LeaseType, RowUpdates DEF States, Terminal
        <3> QED BY <3>1, LeaseType
    <2>2. row' \in [Jobs -> Rows]
        BY <1>9, <2>1, LeaseType DEF ClaimFails, TypeOK
    <2>3. pc' \in Threads /\ worker' \in Pools
          /\ phase' \in {"down", "starting", "serving", "stopped"}
        BY <1>9, AfterPassType, SignalTypes DEF ClaimFails, PassError, Halt, TypeOK
    <2> QED BY <1>9, <2>2, <2>3 DEF TypeOK, ClaimFails, Spend
<1> QED BY <1>2, <1>4, <1>5, <1>6, <1>7, <1>8, <1>9 DEF Scheduling

\* The outcome of a verification is a state of its row.
LEMMA VerificationRowType ==
    ASSUME TypeOK, NEW j \in Jobs, Arrived(j), ~Native(j)
    PROVE  VerificationRow(j) \in [Jobs -> Rows]
<1>1. VerificationOutcome(j) \in States
    BY DEF TypeOK, VerificationOutcome, Arrived, Pools, Workers, Bodies, States, Terminal
<1>2. [row[j] EXCEPT !.state = VerificationOutcome(j)] \in Rows
    BY <1>1, RowUpdates DEF TypeOK
<1> QED BY <1>2 DEF TypeOK, VerificationRow

LEMMA WorkingTypes == TypeOK /\ (\E j \in Jobs : Working(j)) => TypeOK'
<1> SUFFICES ASSUME TypeOK, NEW j \in Jobs, Working(j) PROVE TypeOK'
    OBVIOUS
<1> USE DEF catalog, owners
<1>1. ASSUME NEW r \in Bodies \union {"undrained"}, r = "undrained" => Native(j)
      PROVE  [worker EXCEPT ![j].result = r] \in Pools
    <2>1. [worker[j] EXCEPT !.result = r] \in Workers
        BY DEF TypeOK, Pools, Workers
    <2> QED BY <1>1, <2>1, PoolUpdate DEF TypeOK, Pools, Workers
<1>2. CASE WorkerUndrained(j)
    <2>1. worker' \in Pools
        BY <1>1, <1>2 DEF WorkerUndrained
    <2> QED BY <1>2, <2>1 DEF TypeOK, WorkerUndrained, Spend
<1>3. ASSUME NEW r \in Bodies, WorkerEnds(j, r) PROVE TypeOK'
    <2>1. worker' \in Pools
        BY <1>1, <1>3 DEF WorkerEnds, Bodies
    <2> QED BY <1>3, <2>1 DEF TypeOK, WorkerEnds
<1> QED BY <1>2, <1>3 DEF Working

\* The pool forgets a worker.
LEMMA RemovedType == ASSUME TypeOK, NEW j \in Jobs PROVE Removed(j) \in Pools
BY InitialValues, PoolUpdate DEF TypeOK, Removed

LEMMA ArrivingTypes == TypeOK /\ (\E j \in Jobs : Arriving(j)) => TypeOK'
<1> SUFFICES ASSUME TypeOK, NEW j \in Jobs, Arriving(j) PROVE TypeOK'
    OBVIOUS
<1> USE DEF catalog, owners
<1>1. CASE FinishVerification(j)
    BY <1>1, VerificationRowType, RemovedType, SchedulePassType DEF TypeOK, FinishVerification
<1>2. CASE FinishVerificationFails(j)
    <2>1. row' \in [Jobs -> Rows]
        BY <1>2, VerificationRowType DEF TypeOK, FinishVerificationFails
    <2>2. worker' \in Pools /\ phase' = "stopped"
        BY <1>2, RemovedType, SignalTypes DEF FinishVerificationFails, Halt
    <2> QED BY <1>2, <2>1, <2>2, TurnType DEF TypeOK, FinishVerificationFails, Spend
<1>3. CASE ArriveNative(j)
    <2>1. CASE worker[j].result = "undrained"
        <3>1. worker' \in Pools /\ phase' = "stopped"
            BY <1>3, <2>1, RemovedType, SignalTypes DEF ArriveNative, Halt
        <3> QED BY <1>3, <2>1, <3>1, TurnType DEF TypeOK, ArriveNative
    <2>2. CASE worker[j].result # "undrained"
        <3>1. [NoSlot EXCEPT !.claim = worker[j].claim, !.body = worker[j].result] \in Slots
            BY <1>3, <2>2, InitialValues DEF ArriveNative, Arrived, TypeOK, Pools, Workers, Slots
        <3>2. [Wait EXCEPT !.at = "remember", !.job = j, !.via = "arrive"] \in Threads
            BY InitialValues DEF Threads, Positions
        <3> QED BY <1>3, <2>2, <3>1, <3>2, RemovedType DEF TypeOK, ArriveNative
    <2> QED BY <2>1, <2>2
<1> QED BY <1>1, <1>2, <1>3 DEF Arriving

\* What the catalog thread itself writes as it settles a slot.
ThreadTypes ==
    /\ slot' \in [Jobs -> Slots]
    /\ pc' \in Threads
    /\ phase' \in {"down", "starting", "serving", "stopped"}
    /\ worker' \in Pools

\* The ways a settlement step of slot j ends.
LEMMA StepTypes ==
    ASSUME TypeOK, NEW j \in Jobs, NEW s \in Slots
    PROVE  /\ StepCommitted(j) => ThreadTypes
           /\ StepWaits(j, s) => ThreadTypes
           /\ StepRefused(j) => ThreadTypes
           /\ Stored(j) => ThreadTypes
           /\ AfterFailure(j, s) => ThreadTypes
<1>1. ASSUME NEW committed \in BOOLEAN PROVE Resume(committed) \in Threads
    <2>1. pc \in Threads
        BY DEF TypeOK
    <2> QED BY <2>1 DEF Resume, Threads, Positions
<1>2. StepCommitted(j) => ThreadTypes
    BY <1>1, InitialValues, SchedulePassType DEF StepCommitted, ThreadTypes, TypeOK
<1>3. StepWaits(j, s) => ThreadTypes
    BY <1>1, InitialValues, TurnType, ZenonT(30) DEF StepWaits, ThreadTypes, TypeOK
<1>4. StepRefused(j) => ThreadTypes
    <2> SUFFICES ASSUME StepRefused(j) PROVE ThreadTypes
        OBVIOUS
    <2>1. slot' \in [Jobs -> Slots]
        BY InitialValues DEF StepRefused, TypeOK
    <2>2. pc' \in Threads
        BY InitialValues, TurnType DEF StepRefused
    <2>3. worker' \in Pools /\ phase' \in {"down", "starting", "serving", "stopped"}
        BY SignalTypes DEF StepRefused, TypeOK, Halt
    <2> QED BY <2>1, <2>2, <2>3 DEF ThreadTypes
<1>5. Stored(j) => ThreadTypes
    <2>1. [slot[j] EXCEPT !.stored = TRUE] \in Slots /\ [pc EXCEPT !.at = "settle"] \in Threads
        BY DEF TypeOK, Slots, Threads, Positions
    <2> QED BY <2>1 DEF Stored, ThreadTypes, TypeOK
<1> QED BY <1>2, <1>3, <1>4, <1>5 DEF AfterFailure

\* The hold writes of a settlement.
LEMMA HoldTypes ==
    ASSUME TypeOK, NEW j \in Jobs
    PROVE  /\ PutHold(j) \in [Jobs -> Holds]
           /\ DiscardHold(j) \in [Jobs -> Holds]
           /\ HoldFinished(j) \in [Jobs -> Holds]
<1>1. HoldBody(j) \in Holds
    BY DEF TypeOK, HoldBody, Holds, Slots
<1> QED BY <1>1, InitialValues DEF TypeOK, PutHold, DiscardHold, HoldFinished

\* What a finish transaction writes.
LEMMA PublishTypes ==
    ASSUME TypeOK, NEW j \in Jobs, Publish(j)
    PROVE  /\ row' \in [Jobs -> Rows]
           /\ completions' \subseteq JobClaims
           /\ transcripts' \in [Lineages -> Seq(Revisions)]
           /\ translations' \in [Lineages -> Seq(Revisions)]
           /\ hold' \in [Jobs -> Holds]
<1>1. row' \in [Jobs -> Rows]
    <2>1. TerminalOutcome(j) \in States
        BY DEF TerminalOutcome, States, Terminal
    <2>2. [row[j] EXCEPT !.state = TerminalOutcome(j)] \in Rows
        BY <2>1, RowUpdates DEF TypeOK
    <2> QED BY <2>2 DEF TypeOK, Publish
<1>2. completions' \subseteq JobClaims
    BY DEF TypeOK, Publish, Completed
<1>3. Result(j) \in Revisions /\ LineageOf[j] \in Lineages
    BY ConstantsAssumption DEF TypeOK, Result, Revisions, Slots, ConstantsAssumption
<1>4. \A l \in Lineages : /\ Append(transcripts[l], Result(j)) \in Seq(Revisions)
                          /\ Append(translations[l], Result(j)) \in Seq(Revisions)
    BY <1>3 DEF TypeOK
<1>5. transcripts' \in [Lineages -> Seq(Revisions)]
    BY <1>3, <1>4 DEF TypeOK, Publish
<1>6. translations' \in [Lineages -> Seq(Revisions)]
    BY <1>3, <1>4 DEF TypeOK, Publish
<1> QED BY <1>1, <1>2, <1>5, <1>6, HoldTypes DEF Publish

LEMMA SettlementTypes == TypeOK /\ Settlement => TypeOK'
<1> SUFFICES ASSUME TypeOK, Settlement PROVE TypeOK'
    OBVIOUS
<1> USE DEF catalog, owners, unpublished
<1>1. ASSUME DriveEnds PROVE TypeOK'
    BY <1>1, InitialValues, SchedulePassType DEF TypeOK, DriveEnds
<1>2. ASSUME NEW j \in Jobs, DriveSlot(j) PROVE TypeOK'
    <2>1. pc \in Threads
        BY DEF TypeOK
    <2>2. pc' \in Threads
        BY <1>2, <2>1 DEF DriveSlot, Threads, Positions
    <2> QED BY <1>2, <2>2 DEF TypeOK, DriveSlot
<1>3. ASSUME NEW j \in Jobs
      PROVE  /\ [slot[j] EXCEPT !.tries = @ + 1] \in Slots
             /\ [slot[j] EXCEPT !.wait = TRUE] \in Slots
             /\ [Tried(j) EXCEPT !.wait = TRUE] \in Slots
             /\ Tried(j) \in Slots /\ slot[j] \in Slots
    <2>1. slot[j] \in Slots
        BY DEF TypeOK
    <2>2. slot[j].tries + 1 \in Nat
        BY <2>1 DEF Slots
    <2>3. Tried(j) \in Slots
        BY <2>1, <2>2 DEF Tried, Slots
    <2>4. ASSUME NEW s \in Slots PROVE [s EXCEPT !.wait = TRUE] \in Slots
        BY DEF Slots
    <2> QED BY <2>1, <2>3, <2>4 DEF Tried
<1>4. ASSUME NEW j \in Jobs, RememberHold(j) PROVE TypeOK'
    <2>1. hold' \in [Jobs -> Holds]
        BY <1>4, HoldTypes DEF RememberHold, TypeOK
    <2>2. ThreadTypes
        BY <1>4, <1>3, StepTypes DEF RememberHold
    <2> QED BY <1>4, <2>1, <2>2 DEF TypeOK, ThreadTypes, RememberHold
<1>5. ASSUME NEW j \in Jobs, RememberBusy(j) PROVE TypeOK'
    <2>1. ThreadTypes
        BY <1>5, <1>3, StepTypes DEF RememberBusy
    <2> QED BY <1>5, <2>1 DEF TypeOK, ThreadTypes, RememberBusy, Spend
<1>6. ASSUME NEW j \in Jobs, RememberUncertain(j) PROVE TypeOK'
    <2>1. hold' \in [Jobs -> Holds]
        BY <1>6, HoldTypes DEF RememberUncertain, TypeOK
    <2>2. ThreadTypes
        BY <1>6, <1>3, StepTypes DEF RememberUncertain
    <2> QED BY <1>6, <2>1, <2>2 DEF TypeOK, ThreadTypes, RememberUncertain, Spend
<1>7. ASSUME NEW j \in Jobs, RememberRefused(j) PROVE TypeOK'
    <2>1. ThreadTypes
        BY <1>7, <1>3, StepTypes DEF RememberRefused
    <2> QED BY <1>7, <2>1 DEF TypeOK, ThreadTypes, RememberRefused, Spend
<1>8. ASSUME NEW j \in Jobs, SettleWaits(j) PROVE TypeOK'
    <2>1. ThreadTypes
        BY <1>8, <1>3, StepTypes DEF SettleWaits
    <2> QED BY <1>8, <2>1 DEF TypeOK, ThreadTypes, SettleWaits
<1>9. ASSUME NEW j \in Jobs, Settle(j) PROVE TypeOK'
    <2>1. ThreadTypes
        BY <1>9, <1>3, StepTypes DEF Settle
    <2>2. CASE Publish(j)
        BY <1>9, <2>1, <2>2, PublishTypes DEF TypeOK, ThreadTypes, Settle
    <2>3. CASE UNCHANGED unpublished /\ hold' \in {hold, DiscardHold(j)}
        BY <1>9, <2>1, <2>3, HoldTypes DEF TypeOK, ThreadTypes, Settle
    <2> QED BY <1>9, <2>2, <2>3 DEF Settle
<1>10. ASSUME NEW j \in Jobs, SettleBusy(j) PROVE TypeOK'
    <2>1. ThreadTypes
        BY <1>10, <1>3, StepTypes DEF SettleBusy
    <2> QED BY <1>10, <2>1 DEF TypeOK, ThreadTypes, SettleBusy, Spend
<1>11. ASSUME NEW j \in Jobs, SettleUncertain(j) PROVE TypeOK'
    <2>1. ThreadTypes
        BY <1>11, <1>3, StepTypes DEF SettleUncertain
    <2>2. CASE Publish(j)
        BY <1>11, <2>1, <2>2, PublishTypes DEF TypeOK, ThreadTypes, SettleUncertain, Spend
    <2>3. CASE UNCHANGED <<unpublished, hold>>
        BY <1>11, <2>1, <2>3 DEF TypeOK, ThreadTypes, SettleUncertain, Spend
    <2> QED BY <1>11, <2>2, <2>3 DEF SettleUncertain
<1>12. ASSUME NEW j \in Jobs, SettleRefused(j) PROVE TypeOK'
    <2>1. ThreadTypes
        BY <1>12, <1>3, StepTypes DEF SettleRefused
    <2> QED BY <1>12, <2>1, HoldTypes DEF TypeOK, ThreadTypes, SettleRefused, Spend
<1> QED BY <1>1, <1>2, <1>4, <1>5, <1>6, <1>7, <1>8, <1>9, <1>10, <1>11, <1>12 DEF Settlement

\* A row a restart ended has one more generation.
LEMMA RecoveredRowType ==
    ASSUME TypeOK, NEW j \in Jobs
    PROVE  RecoveredRow(j) \in Rows
<1>1. row[j] \in Rows
    BY DEF TypeOK
<1>2. /\ [gen |-> row[j].claim.gen + 1, attempt |-> row[j].claim.attempt + 1, owner |-> 0] \in Claims
      /\ [row[j].claim EXCEPT !.gen = @ + 1] \in Claims
    BY <1>1 DEF Rows, Claims
<1>3. /\ [row[j] EXCEPT !.state = "queued",
             !.claim = [gen |-> @.gen + 1, attempt |-> @.attempt + 1, owner |-> 0]] \in Rows
      /\ [row[j] EXCEPT !.state = "interrupted", !.claim.gen = @ + 1] \in Rows
    BY <1>1, <1>2 DEF Rows, States, Open, Terminal
<1> QED BY <1>3 DEF RecoveredRow

LEMMA StartingTypes == TypeOK /\ Starting => TypeOK'
<1> SUFFICES ASSUME TypeOK, Starting PROVE TypeOK'
    OBVIOUS
<1> USE DEF catalog, owners
<1>1. pc \in Threads
    BY DEF TypeOK
<1>2. ASSUME NEW j, NextHold(j) PROVE pc' \in Threads
    BY <1>1, <1>2 DEF NextHold, Threads
<1>3. ASSUME RestoreError PROVE pc' \in Threads /\ worker' \in Pools /\ phase' = "stopped"
    BY <1>3, InitialValues, SignalTypes DEF RestoreError, Halt, TypeOK
<1>4. ASSUME NEW f \in Families, Recover(f) PROVE TypeOK'
    <2>1. row' \in [Jobs -> Rows]
        BY <1>4, RecoveredRowType DEF Recover, TypeOK
    <2>2. attempts' \subseteq JobClaims
        <3>1. ASSUME NEW j \in Jobs PROVE [job |-> j, claim |-> row[j].claim] \in JobClaims
            BY DEF TypeOK, JobClaims, Rows
        <3> QED BY <1>4, <3>1 DEF Recover, TypeOK, Ended, Lost
    <2>3. hold' \in [Jobs -> Holds]
        BY <1>4, InitialValues DEF Recover, TypeOK
    <2>4. pc' \in Threads
        <3>1. [pc EXCEPT !.at = "recover translation"] \in Threads
            BY <1>1 DEF Threads, Positions
        <3>2. [pc EXCEPT !.at = "restore", !.todo = {j \in Jobs : hold'[j].body # "none"}] \in Threads
            BY <1>1 DEF Threads, Positions
        <3> QED BY <1>4, <3>1, <3>2 DEF Recover
    <2> QED BY <1>4, <2>1, <2>2, <2>3, <2>4 DEF TypeOK, Recover
<1>5. ASSUME NEW j \in Jobs, RestoreSlot(j) PROVE TypeOK'
    <2>1. [NoSlot EXCEPT !.claim = row[j].claim, !.body = hold[j].body, !.stored = TRUE] \in Slots
        BY InitialValues DEF TypeOK, Rows, Holds, Slots
    <2>2. slot' \in [Jobs -> Slots]
        BY <1>5, <2>1 DEF RestoreSlot, TypeOK
    <2>3. /\ pc' \in Threads /\ worker' \in Pools
          /\ phase' \in {"down", "starting", "serving", "stopped"}
        BY <1>5, <1>2, <1>3 DEF RestoreSlot, NextHold, TypeOK
    <2> QED BY <1>5, <2>2, <2>3 DEF TypeOK, RestoreSlot
<1>6. ASSUME NEW j \in Jobs, RestoreReleases(j) PROVE TypeOK'
    <2>1. [row[j] EXCEPT !.state = "failed"] \in Rows
        BY RowUpdates DEF TypeOK, States, Terminal
    <2>2. row' \in [Jobs -> Rows]
        BY <1>6, <2>1 DEF RestoreReleases, TypeOK
    <2>3. completions' \subseteq JobClaims /\ hold' \in [Jobs -> Holds]
        BY <1>6, InitialValues DEF RestoreReleases, TypeOK, Completed
    <2>4. /\ pc' \in Threads /\ worker' \in Pools
          /\ phase' \in {"down", "starting", "serving", "stopped"}
        BY <1>6, <1>2, <1>3 DEF RestoreReleases, NextHold, TypeOK
    <2> QED BY <1>6, <2>2, <2>3, <2>4 DEF TypeOK, RestoreReleases
<1>7. ASSUME RestoreFails PROVE TypeOK'
    BY <1>7, <1>3 DEF TypeOK, RestoreFails, Spend
<1>8. ASSUME RestoreEnds PROVE TypeOK'
    BY <1>8, SchedulePassType DEF TypeOK, RestoreEnds
<1> QED BY <1>4, <1>5, <1>6, <1>7, <1>8 DEF Starting

\* The life of a service process, and the turns of its thread.
LEMMA LifeTypes ==
    /\ TypeOK
    /\ (\E j \in Jobs : SlotExpires(j)) \/ DriveTurn \/ Boot \/ Shutdown \/ Exit \/ Crash
    => TypeOK'
<1> SUFFICES ASSUME TypeOK,
                    (\E j \in Jobs : SlotExpires(j)) \/ DriveTurn \/ Boot \/ Shutdown \/ Exit \/ Crash
             PROVE  TypeOK'
    OBVIOUS
<1> USE DEF catalog, owners
<1>1. ASSUME NEW j \in Jobs, SlotExpires(j) PROVE TypeOK'
    <2>1. slot[j] \in Slots
        BY DEF TypeOK
    <2>2. [slot[j] EXCEPT !.expired = TRUE] \in Slots
        BY <2>1 DEF Slots
    <2> QED BY <1>1, <2>2 DEF TypeOK, SlotExpires
<1>2. CASE DriveTurn
    BY <1>2, TurnType DEF TypeOK, DriveTurn
<1>3. CASE Boot
    <2>1. [Wait EXCEPT !.at = "recover analysis"] \in Threads
        BY InitialValues DEF Threads, Positions
    <2>2. proc' \in Nat
        <3>1. proc \in Nat
            BY DEF TypeOK
        <3>2. proc' = proc + 1
            BY <1>3 DEF Boot
        <3> QED BY <3>1, <3>2
    <2> QED BY <1>3, <2>1, <2>2 DEF TypeOK, Boot
<1>4. CASE Shutdown
    BY <1>4, TurnType, SignalTypes DEF TypeOK, Shutdown, Halt
<1>5. CASE Exit
    BY <1>5, InitialValues DEF TypeOK, Exit
<1>6. CASE Crash
    <2>1. [j \in Jobs |-> NoWorker] \in Pools /\ [j \in Jobs |-> NoSlot] \in [Jobs -> Slots]
        BY InitialValues DEF Pools
    <2> QED BY <1>6, <2>1, InitialValues DEF TypeOK, Crash
<1> QED BY <1>1, <1>2, <1>3, <1>4, <1>5, <1>6

\* Every step of the pool keeps TypeOK.
LEMMA NextTypes == TypeOK /\ [Next]_vars => TypeOK'
<1>1. TypeOK /\ UNCHANGED vars => TypeOK'
    BY DEF TypeOK, vars, catalog
<1> QED BY <1>1, ClientTypes, SchedulingTypes, SettlementTypes, StartingTypes, WorkingTypes,
           ArrivingTypes, LifeTypes DEF Next

\* Every variable has its type in every reachable state, whatever the jobs,
\* lineages, caps and bounds.
THEOREM TypesAlways == Spec => []TypeOK
BY InitTypes, NextTypes, PTL DEF Spec

-----------------------------------------------------------------------------
(***************************************************************************)
(* What one step may do to the job rows.  The state changes are those the  *)
(* row triggers of 031-job-pool.sql allow.                                 *)
(***************************************************************************)

Moves(j) ==
    \/ row'[j] = row[j]
    \/ row[j].state = "absent" /\ row'[j].state = "queued"
    \/ row[j].state = "queued" /\ row'[j].state \in {"running", "cancelled", "failed"}
    \/ row[j].state = "running" /\ row'[j].state \in {"queued", "cancelling"} \union Terminal
    \/ row[j].state = "cancelling" /\ row'[j].state \in {"cancelled", "interrupted"}

\* A row that starts to run had no active rival, and no other row moves with it.
StartsAlone(j) ==
    row[j].state = "queued" /\ row'[j].state = "running" =>
        LineageFree(j) /\ \A k \in Jobs \ {j} : row'[k] = row[k]

RowStep == \A j \in Jobs : Moves(j) /\ StartsAlone(j)

\* One row gets a new state and the others stay.
LEMMA OneRowMoves ==
    ASSUME TypeOK, NEW j \in Jobs, NEW r, row' = [row EXCEPT ![j] = r],
           \/ row[j].state = "absent" /\ r.state = "queued"
           \/ row[j].state = "queued" /\ r.state \in {"cancelled", "failed"}
           \/ row[j].state = "queued" /\ r.state = "running" /\ LineageFree(j)
           \/ row[j].state = "running" /\ r.state \in {"queued", "cancelling"} \union Terminal
           \/ row[j].state = "cancelling" /\ r.state \in {"cancelled", "interrupted"}
    PROVE  RowStep
<1>1. row'[j] = r /\ \A k \in Jobs \ {j} : row'[k] = row[k]
    BY DEF TypeOK
<1> QED BY <1>1 DEF RowStep, Moves, StartsAlone

LEMMA NoRowMoves == row' = row => RowStep
BY DEF RowStep, Moves, StartsAlone

\* Rows that move without starting.
LEMMA NoRowStarts ==
    ASSUME \A j \in Jobs : Moves(j) /\ ~(row[j].state = "queued" /\ row'[j].state = "running")
    PROVE  RowStep
BY DEF RowStep, StartsAlone

LEMMA ClientRows == TypeOK /\ Client => RowStep
<1> SUFFICES ASSUME TypeOK, Client PROVE RowStep
    OBVIOUS
<1>1. ASSUME NEW j \in Jobs, Admissible(j), row' = [row EXCEPT ![j] = Queued(j)] PROVE RowStep
    <2>1. row[j].state = "absent" /\ Queued(j).state = "queued"
        BY <1>1 DEF Admissible, Queued
    <2> QED BY <1>1, <2>1, OneRowMoves
<1>2. ASSUME NEW j \in Jobs, Cancel(j) PROVE RowStep
    <2>1. row[j].state \in Open
        BY <1>2 DEF Cancel
    <2>2. row[j] \in Rows
        BY DEF TypeOK
    <2>3. CASE row[j].state = "queued"
        <3>1. row' = [row EXCEPT ![j] = [row[j] EXCEPT !.state = "cancelled"]]
            BY <1>2, <2>3 DEF Cancel
        <3> QED BY <2>2, <2>3, <3>1, OneRowMoves DEF Rows
    <2>4. CASE row[j].state = "running"
        <3>1. row' = [row EXCEPT ![j] = [row[j] EXCEPT !.state = "cancelling"]]
            BY <1>2, <2>4 DEF Cancel
        <3> QED BY <2>2, <2>4, <3>1, OneRowMoves DEF Rows
    <2>5. CASE row[j].state = "cancelling"
        <3>1. row' = row
            BY <1>2, <2>2, <2>5 DEF Cancel, TypeOK, Rows
        <3> QED BY <3>1, NoRowMoves
    <2> QED BY <2>1, <2>3, <2>4, <2>5 DEF Open
<1>3. ASSUME NEW t \in Tasks, Withdraw(t) PROVE RowStep
    <2>1. ASSUME NEW j \in Jobs
          PROVE  \/ row'[j] = row[j]
                 \/ row[j].state = "running" /\ row'[j].state = "cancelling"
                 \/ row[j].state = "queued" /\ row'[j].state = "cancelled"
        <3>1. row[j] \in Rows
            BY DEF TypeOK
        <3> QED BY <1>3, <3>1 DEF Withdraw, Rows
    <2> QED BY <2>1, NoRowStarts DEF Moves
<1>4. ASSUME row' = row PROVE RowStep
    BY <1>4, NoRowMoves
<1> QED BY <1>1, <1>2, <1>3, <1>4
        DEF Client, Enqueue, Join, Repin, Correct, StopService, catalog

LEMMA SchedulingRows == TypeOK /\ Scheduling => RowStep
<1> SUFFICES ASSUME TypeOK, Scheduling PROVE RowStep
    OBVIOUS
<1>1. ASSUME NEW j \in Jobs, Picks(j) PROVE row[j] \in Rows /\ row[j].state = "queued" /\ LineageFree(j)
    BY <1>1 DEF Picks, Candidates, TypeOK
<1>2. ASSUME NEW j \in Jobs, ClaimEnds(j) PROVE RowStep
    <2>1. row' = [row EXCEPT ![j] = [row[j] EXCEPT !.state = "failed"]]
        BY <1>2 DEF ClaimEnds
    <2> QED BY <1>1, <1>2, <2>1, OneRowMoves DEF ClaimEnds, Rows
<1>3. ASSUME NEW j \in Jobs, Picks(j), row' = Claimed(j) PROVE RowStep
    <2>1. row' = [row EXCEPT ![j] = [row[j] EXCEPT !.state = "running", !.claim = Lease(j)]]
        BY <1>3 DEF Claimed
    <2> QED BY <1>1, <1>3, <2>1, OneRowMoves DEF Rows
<1>4. ASSUME NEW j \in Jobs, Picks(j), row' = [Claimed(j) EXCEPT ![j].state = "failed"]
      PROVE  RowStep
    <2>1. row' = [row EXCEPT ![j] = [row[j] EXCEPT !.state = "failed", !.claim = Lease(j)]]
        BY <1>4 DEF Claimed, TypeOK, Rows
    <2> QED BY <1>1, <1>4, <2>1, OneRowMoves DEF Rows
<1>5. ASSUME row' = row PROVE RowStep
    BY <1>5, NoRowMoves
<1> QED BY <1>2, <1>3, <1>4, <1>5
        DEF Scheduling, SignalDurableStops, NextKind, DecoderMissing, Launch, LaunchParks,
            ClaimFails, catalog

LEMMA ArrivingRows == TypeOK /\ (\E j \in Jobs : Arriving(j)) => RowStep
<1> SUFFICES ASSUME TypeOK, NEW j \in Jobs, Arriving(j) PROVE RowStep
    OBVIOUS
<1>1. ASSUME Arrived(j), ~Native(j), row' = VerificationRow(j), row' # row PROVE RowStep
    <2>1. Active(j) /\ row' = [row EXCEPT ![j] = [row[j] EXCEPT !.state = VerificationOutcome(j)]]
        BY <1>1 DEF VerificationRow
    <2>2. row[j] \in Rows
        BY DEF TypeOK
    <2>3. VerificationOutcome(j) \in Terminal
          /\ (row[j].state = "cancelling" => VerificationOutcome(j) = "cancelled")
        BY <1>1 DEF TypeOK, VerificationOutcome, Arrived, Pools, Workers, Bodies, Terminal
    <2> QED BY <2>1, <2>2, <2>3, OneRowMoves DEF Active, ActiveStates, Rows
<1>2. ASSUME row' = row PROVE RowStep
    BY <1>2, NoRowMoves
<1> QED BY <1>1, <1>2
        DEF Arriving, FinishVerification, FinishVerificationFails, ArriveNative, catalog

\* A finish ends an active row, and a cancelling one only as cancelled.
LEMMA PublishRows ==
    ASSUME TypeOK, NEW j \in Jobs, Active(j), Publish(j)
    PROVE  RowStep
<1>1. row' = [row EXCEPT ![j] = [row[j] EXCEPT !.state = TerminalOutcome(j)]]
    BY DEF Publish
<1>2. row[j] \in Rows
    BY DEF TypeOK
<1>3. TerminalOutcome(j) \in Terminal
      /\ (row[j].state = "cancelling" => TerminalOutcome(j) = "cancelled")
    BY DEF TerminalOutcome, Terminal
<1> QED BY <1>1, <1>2, <1>3, OneRowMoves DEF Active, ActiveStates, Rows

LEMMA SettlementRows == TypeOK /\ Settlement => RowStep
<1> SUFFICES ASSUME TypeOK, Settlement PROVE RowStep
    OBVIOUS
<1>1. ASSUME row' = row PROVE RowStep
    BY <1>1, NoRowMoves
<1> QED BY <1>1, PublishRows
        DEF Settlement, DriveEnds, DriveSlot, RememberHold, RememberBusy, RememberUncertain,
            RememberRefused, SettleWaits, Settle, SettleBusy, SettleUncertain, SettleRefused,
            catalog, unpublished

LEMMA StartingRows == TypeOK /\ Starting => RowStep
<1> SUFFICES ASSUME TypeOK, Starting PROVE RowStep
    OBVIOUS
<1>1. ASSUME NEW f \in Families, Recover(f) PROVE RowStep
    <2>1. ASSUME NEW j \in Jobs
          PROVE  \/ row'[j] = row[j]
                 \/ row[j].state = "running" /\ row'[j].state \in {"queued", "interrupted"}
                 \/ row[j].state = "cancelling" /\ row'[j].state = "interrupted"
        <3>1. row[j] \in Rows
            BY DEF TypeOK
        <3>2. RecoveredRow(j).state = IF Requeues(j) THEN "queued" ELSE "interrupted"
            BY <3>1 DEF RecoveredRow, Rows
        <3>3. Requeues(j) => row[j].state = "running"
            BY DEF Requeues
        <3>4. j \in Ended(f) => row[j].state \in {"running", "cancelling"}
            BY DEF Ended, Lost, Active, ActiveStates
        <3>5. row'[j] = IF j \in Ended(f) THEN RecoveredRow(j) ELSE row[j]
            BY <1>1 DEF Recover
        <3> QED BY <3>2, <3>3, <3>4, <3>5
    <2> QED BY <2>1, NoRowStarts DEF Moves, Terminal
<1>2. ASSUME NEW j \in Jobs, row[j].state = "running", row' = [row EXCEPT ![j].state = "failed"]
      PROVE  RowStep
    <2>1. row[j] \in Rows /\ row' = [row EXCEPT ![j] = [row[j] EXCEPT !.state = "failed"]]
        BY <1>2 DEF TypeOK
    <2> QED BY <1>2, <2>1, OneRowMoves DEF Rows, Terminal
<1>3. ASSUME row' = row PROVE RowStep
    BY <1>3, NoRowMoves
<1> QED BY <1>1, <1>2, <1>3
        DEF Starting, RestoreSlot, RestoreReleases, RestoreFails, RestoreEnds, catalog

\* Every step of the pool moves rows as the triggers allow, and starts a row
\* only while no rival is active.
LEMMA NextRows == TypeOK /\ [Next]_vars => RowStep
<1>1. TypeOK /\ row' = row => RowStep
    BY NoRowMoves
<1>2. (\E j \in Jobs : Working(j) \/ SlotExpires(j)) \/ DriveTurn \/ Boot \/ Shutdown
        \/ Exit \/ Crash \/ UNCHANGED vars => row' = row
    BY DEF Working, WorkerEnds, WorkerUndrained, SlotExpires, DriveTurn, Boot, Shutdown, Exit,
           Crash, vars, catalog
<1> QED BY <1>1, <1>2, ClientRows, SchedulingRows, ArrivingRows, SettlementRows, StartingRows
        DEF Next

\* Cancellation is final: a cancelling job ends cancelled or interrupted and a
\* terminal row is never written again (terminal_outcome, the row triggers).
THEOREM CancellationIsFinal == Spec => CancellationWins
<1> DEFINE Final ==
        \A j \in Jobs :
          /\ row[j].state = "cancelling" =>
                row'[j].state \in {"cancelling", "cancelled", "interrupted"}
          /\ row[j].state \in Terminal => row'[j] = row[j]
<1>1. TypeOK /\ [Next]_vars => [Final]_vars
    BY NextRows DEF RowStep, Moves, Terminal
<1> QED BY <1>1, TypesAlways, PTL DEF Spec, CancellationWins

\* Initially no row is active.
LEMMA InitLineages == Init => OneActivePerLineage
BY DEF Init, OneActivePerLineage, Active, ActiveStates, NoRow, Rivals

\* Being rivals is mutual.
LEMMA RivalsMutual ==
    ASSUME NEW j \in Jobs, NEW k \in Rivals(j)
    PROVE  k \in Jobs /\ k # j /\ j \in Rivals(k)
BY DEF Rivals

LEMMA NextLineages == TypeOK /\ OneActivePerLineage /\ [Next]_vars => OneActivePerLineage'
<1> SUFFICES ASSUME TypeOK, OneActivePerLineage, [Next]_vars,
                    NEW j \in Jobs, NEW k \in Rivals(j)
             PROVE  ~(Active(j)' /\ Active(k)')
    BY DEF OneActivePerLineage, Rivals
<1>1. k \in Jobs /\ k # j /\ j \in Rivals(k)
    BY RivalsMutual
<1>2. RowStep
    BY NextRows
<1>3. ASSUME NEW i \in Jobs, Active(i)', ~Active(i)
      PROVE  row[i].state = "queued" /\ row'[i].state = "running"
    BY <1>2, <1>3 DEF RowStep, Moves, Active, ActiveStates, Terminal
<1>4. ASSUME NEW i \in Jobs, NEW o \in Rivals(i), o \in Jobs, o # i, Active(i)', ~Active(i)
      PROVE  ~Active(o)'
    <2>1. LineageFree(i) /\ row'[o] = row[o]
        BY <1>2, <1>3, <1>4 DEF RowStep, StartsAlone
    <2> QED BY <2>1 DEF LineageFree, Active
<1>5. ~(Active(j) /\ Active(k))
    BY DEF OneActivePerLineage
<1> QED BY <1>1, <1>4, <1>5

\* No two active rows of one table share a lineage, in every interleaving of
\* claims, cancellations, settlements, crashes and recoveries (claim_row and
\* the lineage indexes of 031-job-pool.sql).
THEOREM LineagesExclusive == Spec => []OneActivePerLineage
BY InitLineages, NextLineages, TypesAlways, PTL DEF Spec

\* -------------------------------------------------------- withdrawn work --

(***************************************************************************)
(* The inductive invariant.  StopLiability only says that an answered      *)
(* target's row is terminal.  A row that succeeded can be joined again, so *)
(* the invariant has to know that work under a target never succeeds.      *)
(***************************************************************************)
Stopped == {"cancelled", "interrupted"}

TargetsTrue ==
    /\ completions \subseteq stops
    /\ \A s \in stops : \/ s \in completions /\ row[s.job].state \in Stopped
                        \/ /\ s \notin completions
                           /\ row[s.job].state = "cancelling" /\ row[s.job].claim = s.claim

\* Only native work has owners, and stopped work has none left.
OwnersTrue ==
    /\ \A j \in Jobs : interest[j] # {} => Native(j)
    /\ \A s \in stops : Native(s.job) /\ interest[s.job] \subseteq withdrawn

StopInvariant == TypeOK /\ TargetsTrue /\ OwnersTrue

LEMMA StopInvariantImplies == StopInvariant => StopLiability /\ StoppedWorkIsUnwanted
BY DEF StopInvariant, TargetsTrue, OwnersTrue, StopLiability, StoppedWorkIsUnwanted, Stopped,
       Terminal

LEMMA InitStops == Init => StopInvariant
BY InitTypes DEF Init, StopInvariant, TargetsTrue, OwnersTrue

\* A target names a job that is stopping or was stopped.
LEMMA TargetStates ==
    ASSUME StopInvariant
    PROVE  \A s \in stops : s.job \in Jobs /\ row[s.job].state \in {"cancelling"} \union Stopped
BY DEF StopInvariant, TargetsTrue, TypeOK, JobClaims

\* Targets stay true when none is added or answered and no row that is
\* cancelling changes.
LEMMA TargetsKept ==
    ASSUME StopInvariant, RowStep, stops' = stops, completions' = completions,
           \A j \in Jobs : row[j].state = "cancelling" => row'[j].state = "cancelling"
    PROVE  TargetsTrue'
<1>1. ASSUME NEW s \in stops PROVE row'[s.job] = row[s.job]
    BY TargetStates DEF RowStep, Moves, Stopped, Terminal
<1> QED BY <1>1 DEF StopInvariant, TargetsTrue

LEMMA OwnersKept ==
    ASSUME StopInvariant, stops' = stops, interest' = interest, withdrawn' = withdrawn
    PROVE  OwnersTrue'
BY DEF StopInvariant, OwnersTrue

-----------------------------------------------------------------------------
(***************************************************************************)
(* Withdrawal, and new interests.                                          *)
(***************************************************************************)

LEMMA WithdrawStops ==
    ASSUME StopInvariant, RowStep, NEW t \in Tasks, Withdraw(t)
    PROVE  TargetsTrue' /\ OwnersTrue'
<1> DEFINE stopping == {j \in Unshared(t) : row[j].state = "running"}
<1>1. TypeOK /\ row \in [Jobs -> Rows] /\ stopping \subseteq Jobs
    BY DEF StopInvariant, TypeOK, Unshared
<1>2. /\ stops' = stops \union {[job |-> j, claim |-> row[j].claim] : j \in stopping}
      /\ completions' = completions /\ interest' = interest /\ withdrawn' = withdrawn \union {t}
    BY DEF Withdraw
<1>3. ASSUME NEW j \in stopping
      PROVE  row[j].state = "running" /\ row'[j].state = "cancelling" /\ row'[j].claim = row[j].claim
    <2>1. row[j] \in Rows /\ row'[j] = [row[j] EXCEPT !.state = "cancelling"]
        BY <1>1, <1>3 DEF Withdraw
    <2> QED BY <1>3, <2>1 DEF Rows
<1>4. ASSUME NEW s \in stops PROVE row'[s.job] = row[s.job]
    <2>1. s.job \in Jobs /\ row[s.job].state \notin {"running", "queued"}
        BY TargetStates DEF Stopped
    <2> QED BY <2>1 DEF Withdraw
<1>5. ASSUME NEW s \in stops' \ stops
      PROVE  s.job \in stopping /\ s.claim = row[s.job].claim /\ s \notin completions
    BY <1>2, <1>5 DEF StopInvariant, TargetsTrue
<1>6. TargetsTrue'
    BY <1>2, <1>3, <1>4, <1>5 DEF StopInvariant, TargetsTrue
<1>7. ASSUME NEW j \in stopping PROVE Native(j) /\ interest[j] \subseteq withdrawn'
    BY <1>1, <1>2 DEF Unshared, OtherAuthority, StopInvariant, OwnersTrue
<1>8. OwnersTrue'
    BY <1>2, <1>5, <1>7 DEF StopInvariant, OwnersTrue
<1> QED BY <1>6, <1>8

\* A job that gets an owner is new, or neither stopping nor stopped.
LEMMA JoinStops ==
    ASSUME StopInvariant, NEW j \in Jobs, Admissible(j) \/ Attachable(j), NEW S,
           interest' = [interest EXCEPT ![j] = S], S # {} => Native(j),
           stops' = stops, withdrawn' = withdrawn
    PROVE  OwnersTrue'
<1>1. ASSUME NEW s \in stops PROVE s.job \in Jobs /\ s.job # j
    BY TargetStates DEF Admissible, Attachable, Stopped
<1> QED BY <1>1 DEF StopInvariant, TypeOK, OwnersTrue

LEMMA ClientStops == StopInvariant /\ RowStep /\ Client => TargetsTrue' /\ OwnersTrue'
<1> SUFFICES ASSUME StopInvariant, RowStep, Client PROVE TargetsTrue' /\ OwnersTrue'
    OBVIOUS
<1>1. row \in [Jobs -> Rows]
    BY DEF StopInvariant, TypeOK
<1> USE DEF catalog, owners
<1>2. ASSUME NEW j \in Jobs, Admissible(j), row' = [row EXCEPT ![j] = Queued(j)]
      PROVE  \A k \in Jobs : row[k].state = "cancelling" => row'[k].state = "cancelling"
    BY <1>1, <1>2 DEF Admissible
<1>3. ASSUME NEW j \in Jobs, Enqueue(j) PROVE TargetsTrue' /\ OwnersTrue'
    <2>1. TargetsTrue'
        BY <1>2, <1>3, TargetsKept DEF Enqueue
    <2>2. OwnersTrue'
        BY <1>3, JoinStops DEF Enqueue
    <2> QED BY <2>1, <2>2
<1>4. ASSUME NEW o \in Tasks \union {Standing}, NEW j \in Jobs, Join(o, j)
      PROVE  TargetsTrue' /\ OwnersTrue'
    <2>1. stops' = stops /\ completions' = completions /\ withdrawn' = withdrawn
          /\ Native(j) /\ interest' = [interest EXCEPT ![j] = interest[j] \union {o}]
        BY <1>4 DEF Join
    <2>2. \/ Admissible(j) /\ row' = [row EXCEPT ![j] = Queued(j)]
          \/ Attachable(j) /\ row' = row
        BY <1>4 DEF Join
    <2>3. TargetsTrue'
        BY <1>2, <2>1, <2>2, TargetsKept
    <2> QED BY <2>1, <2>2, <2>3, JoinStops
<1>5. ASSUME NEW j \in Jobs, Cancel(j) PROVE TargetsTrue' /\ OwnersTrue'
    <2>1. row' = [row EXCEPT ![j] = [row[j] EXCEPT !.state =
                                        IF row[j].state = "queued" THEN "cancelled" ELSE "cancelling"]]
        BY <1>5 DEF Cancel
    <2>2. ASSUME NEW k \in Jobs, row[k].state = "cancelling" PROVE row'[k].state = "cancelling"
        BY <1>1, <2>1, <2>2 DEF Rows
    <2> QED BY <1>5, <2>2, TargetsKept, OwnersKept DEF Cancel
<1>6. ASSUME NEW l \in Lineages, Repin(l) \/ Correct(l) PROVE TargetsTrue' /\ OwnersTrue'
    BY <1>6, TargetsKept, OwnersKept DEF Repin, Correct
<1>7. ASSUME StopService PROVE TargetsTrue' /\ OwnersTrue'
    BY <1>7, TargetsKept, OwnersKept DEF StopService
<1> QED BY <1>3, <1>4, <1>5, <1>6, <1>7, WithdrawStops DEF Client

-----------------------------------------------------------------------------
(***************************************************************************)
(* The other steps.                                                        *)
(***************************************************************************)

\* Only clients write stop targets and owners.
OwnersSame == stops' = stops /\ interest' = interest /\ withdrawn' = withdrawn

\* A step that moves no cancelling row, and answers no target.
Unanswered ==
    /\ completions' = completions
    /\ \A j \in Jobs : row[j].state = "cancelling" => row'[j].state = "cancelling"

LEMMA SchedulingStops == StopInvariant /\ Scheduling => OwnersSame /\ Unanswered
<1> SUFFICES ASSUME StopInvariant, Scheduling PROVE OwnersSame /\ Unanswered
    OBVIOUS
<1>1. TypeOK /\ row \in [Jobs -> Rows]
    BY DEF StopInvariant, TypeOK
<1> USE DEF catalog, owners
<1>2. OwnersSame /\ completions' = completions
    BY DEF Scheduling, SignalDurableStops, NextKind, DecoderMissing, ClaimEnds, Launch,
           LaunchParks, ClaimFails, OwnersSame
<1>3. ASSUME NEW i \in Jobs, ClaimEnds(i) \/ Launch(i) \/ LaunchParks(i) \/ ClaimFails(i),
             NEW j \in Jobs, row[j].state = "cancelling"
      PROVE  row'[j] = row[j]
    <2>1. /\ Picks(i)
          /\ row' \in {row, Claimed(i), [row EXCEPT ![i].state = "failed"],
                      [Claimed(i) EXCEPT ![i].state = "failed"]}
        BY <1>3 DEF ClaimEnds, Launch, LaunchParks, ClaimFails
    <2>2. i # j
        BY <1>3, <2>1 DEF Picks, Candidates
    <2> QED BY <1>1, <2>1, <2>2, LeaseType DEF Claimed
<1>4. SignalDurableStops \/ NextKind \/ DecoderMissing => row' = row
    BY DEF SignalDurableStops, NextKind, DecoderMissing
<1> QED BY <1>2, <1>3, <1>4 DEF Scheduling, Unanswered

\* A verification is never under a stop target.
LEMMA ArrivingStops ==
    StopInvariant /\ RowStep /\ (\E j \in Jobs : Arriving(j)) => OwnersSame /\ TargetsTrue'
<1> SUFFICES ASSUME StopInvariant, RowStep, NEW i \in Jobs, Arriving(i)
             PROVE  OwnersSame /\ TargetsTrue'
    OBVIOUS
<1> USE DEF catalog, owners
<1>1. OwnersSame /\ completions' = completions
    BY DEF Arriving, FinishVerification, FinishVerificationFails, ArriveNative, OwnersSame
<1>2. row' = row \/ (~Native(i) /\ row' = VerificationRow(i))
    BY DEF Arriving, FinishVerification, FinishVerificationFails, ArriveNative
<1>3. ASSUME NEW s \in stops PROVE row'[s.job] = row[s.job]
    <2>1. Native(s.job)
        BY DEF StopInvariant, OwnersTrue
    <2>2. s.job \in Jobs /\ row \in [Jobs -> Rows]
        BY TargetStates DEF StopInvariant, TypeOK
    <2>3. \/ VerificationRow(i) = row
          \/ VerificationRow(i) = [row EXCEPT ![i].state = VerificationOutcome(i)]
        BY DEF VerificationRow
    <2>4. s.job # i \/ Native(i)
        BY <2>1
    <2> QED BY <1>2, <2>2, <2>3, <2>4
<1> QED BY <1>1, <1>3 DEF OwnersSame, StopInvariant, TargetsTrue

\* The targets of the row a finish ends.
LEMMA CompletedTargets ==
    ASSUME StopInvariant, NEW j \in Jobs, Active(j)
    PROVE  /\ Completed(j) \subseteq stops
           /\ \A s \in stops : s \in Completed(j) <=> s \in completions \/ s.job = j
<1>1. ASSUME NEW s \in stops, s.job = j PROVE s.claim = row[j].claim
    BY <1>1 DEF StopInvariant, TargetsTrue, Stopped, Active, ActiveStates
<1> QED BY <1>1 DEF Completed, StopInvariant, TargetsTrue

LEMMA PublishStops ==
    ASSUME StopInvariant, NEW j \in Jobs, Active(j), Publish(j), stops' = stops
    PROVE  TargetsTrue'
<1>1. row \in [Jobs -> Rows] /\ row[j] \in Rows
    BY DEF StopInvariant, TypeOK
<1>2. row' = [row EXCEPT ![j] = [row[j] EXCEPT !.state = TerminalOutcome(j)]]
      /\ completions' = Completed(j)
    BY DEF Publish
<1>3. row'[j].state = TerminalOutcome(j) /\ \A k \in Jobs \ {j} : row'[k] = row[k]
    BY <1>1, <1>2 DEF Rows
<1>4. ASSUME NEW s \in stops, s.job = j
      PROVE  s \in completions' /\ row'[s.job].state \in Stopped
    <2>1. row[j].state = "cancelling"
        BY <1>4, TargetStates DEF Active, ActiveStates, Stopped
    <2> QED BY <1>2, <1>3, <1>4, <2>1, CompletedTargets DEF TerminalOutcome, Stopped
<1>5. ASSUME NEW s \in stops, s.job # j
      PROVE  row'[s.job] = row[s.job] /\ (s \in completions' <=> s \in completions)
    BY <1>2, <1>3, <1>5, TargetStates, CompletedTargets
<1>6. completions' \subseteq stops'
    BY <1>2, CompletedTargets
<1> QED BY <1>4, <1>5, <1>6 DEF StopInvariant, TargetsTrue

LEMMA SettlementStops == StopInvariant /\ RowStep /\ Settlement => OwnersSame /\ TargetsTrue'
<1> SUFFICES ASSUME StopInvariant, RowStep, Settlement PROVE OwnersSame /\ TargetsTrue'
    OBVIOUS
<1> USE DEF catalog, owners, unpublished
<1>1. OwnersSame
    BY DEF Settlement, DriveEnds, DriveSlot, RememberHold, RememberBusy, RememberUncertain,
           RememberRefused, SettleWaits, Settle, SettleBusy, SettleUncertain, SettleRefused,
           OwnersSame
<1>2. \/ row' = row /\ completions' = completions
      \/ \E j \in Jobs : Active(j) /\ Publish(j)
    BY DEF Settlement, DriveEnds, DriveSlot, RememberHold, RememberBusy, RememberUncertain,
           RememberRefused, SettleWaits, Settle, SettleBusy, SettleUncertain, SettleRefused
<1>3. CASE row' = row /\ completions' = completions
    BY <1>1, <1>3, TargetsKept DEF OwnersSame
<1>4. CASE \E j \in Jobs : Active(j) /\ Publish(j)
    BY <1>1, <1>4, PublishStops DEF OwnersSame
<1> QED BY <1>1, <1>2, <1>3, <1>4

\* A restart ends no row under an unanswered target, and fails only running ones.
LEMMA StartingStops == StopInvariant /\ RowStep /\ Starting => OwnersSame /\ TargetsTrue'
<1> SUFFICES ASSUME StopInvariant, RowStep, Starting PROVE OwnersSame /\ TargetsTrue'
    OBVIOUS
<1>1. row \in [Jobs -> Rows]
    BY DEF StopInvariant, TypeOK
<1> USE DEF catalog, owners
<1>2. OwnersSame
    BY DEF Starting, Recover, RestoreSlot, RestoreReleases, RestoreFails, RestoreEnds, OwnersSame
<1>3. ASSUME NEW f \in Families, Recover(f) PROVE TargetsTrue'
    <2>1. ASSUME NEW s \in stops PROVE s.job \notin Ended(f)
        <3>1. CASE s \in completions
            BY <3>1 DEF StopInvariant, TargetsTrue, Ended, Lost, Active, ActiveStates, Stopped
        <3>2. CASE s \notin completions
            <4>1. row[s.job].state = "cancelling" /\ row[s.job].claim = s.claim
                BY <3>2 DEF StopInvariant, TargetsTrue
            <4>2. ~\E c \in completions : c.job = s.job
                BY <4>1 DEF StopInvariant, TargetsTrue, Stopped
            <4>3. Unproven(s.job)
                BY <4>1, <4>2 DEF Unproven
            <4> QED BY <4>3 DEF Ended
        <3> QED BY <3>1, <3>2
    <2>2. \A s \in stops : row'[s.job] = row[s.job]
        BY <1>3, <2>1, TargetStates DEF Recover
    <2>3. stops' = stops /\ completions' = completions
        BY <1>3 DEF Recover
    <2> QED BY <2>2, <2>3 DEF StopInvariant, TargetsTrue
<1>4. ASSUME NEW j \in Jobs, RestoreReleases(j) PROVE TargetsTrue'
    <2>1. \/ row' = row /\ completions' = completions
          \/ /\ row[j].state = "running" /\ row' = [row EXCEPT ![j].state = "failed"]
             /\ completions' = Completed(j)
        BY <1>4 DEF RestoreReleases
    <2>2. CASE row' = row /\ completions' = completions
        BY <1>2, <2>2, TargetsKept DEF OwnersSame
    <2>3. CASE /\ row[j].state = "running" /\ row' = [row EXCEPT ![j].state = "failed"]
               /\ completions' = Completed(j)
        <3>1. \A s \in stops : s.job # j
            BY <2>3, TargetStates DEF Stopped
        <3>2. completions' = completions
            BY <2>3, <3>1 DEF Completed
        <3>3. \A k \in Jobs : row[k].state = "cancelling" => row'[k].state = "cancelling"
            BY <1>1, <2>3
        <3> QED BY <1>2, <3>2, <3>3, TargetsKept DEF OwnersSame
    <2> QED BY <2>1, <2>2, <2>3
<1>5. ASSUME (\E j \in Jobs : RestoreSlot(j)) \/ RestoreFails \/ RestoreEnds PROVE TargetsTrue'
    BY <1>5, TargetsKept DEF RestoreSlot, RestoreFails, RestoreEnds
<1> QED BY <1>2, <1>3, <1>4, <1>5 DEF Starting

LEMMA NextStops == StopInvariant /\ [Next]_vars => StopInvariant'
<1> SUFFICES ASSUME StopInvariant, [Next]_vars PROVE StopInvariant'
    OBVIOUS
<1>1. TypeOK' /\ RowStep
    BY NextTypes, NextRows DEF StopInvariant
<1>2. CASE Client
    BY <1>1, <1>2, ClientStops DEF StopInvariant
<1>3. ASSUME OwnersSame, TargetsTrue' PROVE StopInvariant'
    BY <1>1, <1>3, OwnersKept DEF StopInvariant, OwnersSame
<1>4. ASSUME OwnersSame, Unanswered PROVE StopInvariant'
    BY <1>1, <1>3, <1>4, TargetsKept DEF OwnersSame, Unanswered
<1>5. (\E j \in Jobs : Working(j) \/ SlotExpires(j)) \/ DriveTurn \/ Boot \/ Shutdown
        \/ Exit \/ Crash \/ UNCHANGED vars => OwnersSame /\ Unanswered
    BY DEF Working, WorkerEnds, WorkerUndrained, SlotExpires, DriveTurn, Boot, Shutdown, Exit,
           Crash, vars, catalog, owners, OwnersSame, Unanswered
<1> QED BY <1>1, <1>2, <1>3, <1>4, <1>5, SchedulingStops, ArrivingStops, SettlementStops,
           StartingStops DEF Next

\* StopInvariant holds in every reachable state.
LEMMA StopsAlways == Spec => []StopInvariant
BY InitStops, NextStops, PTL DEF Spec

\* A native stop target stays open exactly while the claim it names is still
\* cancelling, and no restart takes a dead owner for a drained one.
THEOREM StopTargetsAnswered == Spec => []StopLiability
BY StopsAlways, StopInvariantImplies, PTL

\* Nobody becomes an owner of work that a withdrawal is stopping.
THEOREM StoppedWorkUnwanted == Spec => []StoppedWorkIsUnwanted
BY StopsAlways, StopInvariantImplies, PTL

-----------------------------------------------------------------------------
(***************************************************************************)
(* What a withdrawal may stop, and what may start meanwhile.               *)
(***************************************************************************)

\* Only a withdrawal records that a task withdrew.
LEMMA OthersKeepWithdrawn ==
    ASSUME [Next]_vars, ~\E t \in Tasks : Withdraw(t)
    PROVE  withdrawn' = withdrawn
BY DEF Next, vars, catalog, owners, unpublished, Client, Enqueue, Cancel, Join, Repin, Correct,
   StopService, Scheduling, SignalDurableStops, NextKind, DecoderMissing, ClaimEnds, Launch,
   LaunchParks, ClaimFails, Settlement, DriveEnds, DriveSlot, RememberHold, RememberBusy,
   RememberUncertain, RememberRefused, SettleWaits, Settle, SettleBusy, SettleUncertain,
   SettleRefused, Starting, Recover, RestoreSlot, RestoreReleases, RestoreFails, RestoreEnds,
   Working, WorkerUndrained, WorkerEnds, Arriving, FinishVerification, FinishVerificationFails,
   ArriveNative, SlotExpires, DriveTurn, Boot, Shutdown, Exit, Crash

\* The withdrawal of a task changes only jobs whose every owner withdrew: work
\* another task, a monitor or a direct request shares goes on
\* (withdraw_task_processing over job_interests).
THEOREM SharedWorkSpared == Spec => WithdrawalSparesShared
<1> DEFINE Spares == \A j \in Jobs : withdrawn' # withdrawn /\ row'[j] # row[j]
                                        => interest[j] \subseteq withdrawn'
<1>1. ASSUME [Next]_vars, withdrawn' # withdrawn, NEW j \in Jobs, row'[j] # row[j]
      PROVE  interest[j] \subseteq withdrawn'
    <2>1. PICK t \in Tasks : Withdraw(t)
        BY <1>1, OthersKeepWithdrawn
    <2>2. j \in Unshared(t) /\ withdrawn' = withdrawn \union {t}
        BY <1>1, <2>1 DEF Withdraw
    <2> QED BY <2>2 DEF Unshared, OtherAuthority
<1>2. [Next]_vars => [Spares]_vars
    BY <1>1
<1> QED BY <1>2, PTL DEF Spec, WithdrawalSparesShared

\* Stopping, signalling and forgetting start no worker.
LEMMA NoneStarts ==
    ASSUME TypeOK, NEW j \in Jobs, ~Live(j), NEW w,
           w = worker \/ (\E i \in Jobs : w = Removed(i))
    PROVE  w[j].result = "none" /\ StopAll(w)[j].result = "none"
           /\ \A S : Signalled(w, S)[j].result = "none"
<1>1. w[j].result = "none"
    BY InitialValues DEF Live, Removed, TypeOK, Pools
<1> QED BY <1>1 DEF StopAll, Signalled

\* Only a launch starts a worker.
LEMMA OnlyLaunches ==
    ASSUME TypeOK, [Next]_vars, NEW j \in Jobs, ~Live(j), Live(j)'
    PROVE  Launch(j)
<1> USE DEF vars, catalog, owners, unpublished
<1>1. worker' # worker /\ worker'[j].result # "none" /\ worker[j].result = "none"
    BY DEF Live
<1>2. ~(worker' = StopAll(worker)) /\ ~(\E S : worker' = Signalled(worker, S))
    BY <1>1, NoneStarts
<1>3. ~(\E i \in Jobs : worker' = Removed(i) \/ worker' = StopAll(Removed(i)))
    BY <1>1, NoneStarts
<1>4. ~Client
    BY <1>1, <1>2 DEF Client, Enqueue, Cancel, Withdraw, Join, Repin, Correct, StopService, Halt
<1>5. ASSUME NEW i \in Jobs, Launch(i) PROVE Launch(j)
    <2>1. worker' = [worker EXCEPT ![i] = Launched(i)] /\ worker \in [Jobs -> Workers]
        BY <1>5 DEF Launch, TypeOK, Pools
    <2> QED BY <1>1, <1>5, <2>1
<1>6. Scheduling => Launch(j)
    BY <1>1, <1>2, <1>5 DEF Scheduling, SignalDurableStops, NextKind, DecoderMissing, ClaimEnds,
       LaunchParks, ClaimFails, PassError, Halt
<1>7. ~Settlement
    BY <1>1, <1>2, ZenonT(30) DEF Settlement, DriveEnds, DriveSlot, RememberHold, RememberBusy,
       RememberUncertain, RememberRefused, SettleWaits, Settle, SettleBusy, SettleUncertain,
       SettleRefused, StepCommitted, StepWaits, StepRefused, Stored, AfterFailure, Halt
<1>8. ~Starting
    BY <1>1, <1>2 DEF Starting, Recover, RestoreSlot, RestoreReleases, RestoreFails, RestoreEnds,
       RestoreError, NextHold, Halt
<1>9. ASSUME NEW i \in Jobs, Working(i) PROVE FALSE
    <2>1. worker[i].result = "busy" /\ \E r : worker' = [worker EXCEPT ![i].result = r]
        BY <1>9 DEF Working, WorkerUndrained, WorkerEnds
    <2> QED BY <1>1, <2>1 DEF TypeOK, Pools
<1>10. ~\E i \in Jobs : Arriving(i)
    BY <1>1, <1>3 DEF Arriving, FinishVerification, FinishVerificationFails, ArriveNative, Halt
<1>11. ~(Crash \/ Shutdown)
    BY <1>1, <1>2, InitialValues DEF Crash, Shutdown, Halt
<1>12. ~(\E i \in Jobs : SlotExpires(i)) /\ ~DriveTurn /\ ~Boot /\ ~Exit
    BY <1>1 DEF SlotExpires, DriveTurn, Boot, Exit
<1> QED BY <1>1, <1>4, <1>6, <1>7, <1>8, <1>9, <1>10, <1>11, <1>12 DEF Next

\* How many elements two sets and one more element have together.
LEMMA UnionBound ==
    ASSUME NEW S, IsFiniteSet(S), NEW T, IsFiniteSet(T), NEW x
    PROVE  /\ IsFiniteSet((S \union T) \union {x})
           /\ Cardinality((S \union T) \union {x}) <= Cardinality(S) + Cardinality(T) + 1
<1>1. /\ IsFiniteSet(S \union T)
      /\ Cardinality(S \union T) = Cardinality(S) + Cardinality(T) - Cardinality(S \cap T)
    BY FS_Union
<1>2. IsFiniteSet(S \cap T)
    BY FS_Intersection
<1>3. /\ Cardinality(S) \in Nat /\ Cardinality(T) \in Nat
      /\ Cardinality(S \union T) \in Nat /\ Cardinality(S \cap T) \in Nat
    BY <1>1, <1>2, FS_CardinalityType
<1>4. /\ IsFiniteSet((S \union T) \union {x})
      /\ \/ Cardinality((S \union T) \union {x}) = Cardinality(S \union T)
         \/ Cardinality((S \union T) \union {x}) = Cardinality(S \union T) + 1
    BY <1>1, FS_AddElement
<1> QED BY <1>1, <1>3, <1>4

\* A launch leaves its kind within its cap.
LEMMA LaunchWithinCap ==
    ASSUME TypeOK, NEW j \in Jobs, Launch(j)
    PROVE  Cardinality({k \in Jobs : KindOf[k] = KindOf[j] /\ (Live(k) \/ Parked(k))'})
             <= Cap[KindOf[j]]
<1> DEFINE live == {k \in Jobs : KindOf[k] = KindOf[j] /\ Live(k)}
           parked == {k \in Jobs : KindOf[k] = KindOf[j] /\ Parked(k)}
           after == {k \in Jobs : KindOf[k] = KindOf[j] /\ (Live(k) \/ Parked(k))'}
<1>1. /\ Cardinality(live) + Cardinality(parked) < Cap[KindOf[j]]
      /\ worker' = [worker EXCEPT ![j] = Launched(j)] /\ slot' = slot
    BY DEF Launch, Picks, MayClaim, Occupied
<1>2. after \subseteq (live \union parked) \union {j}
    <2>1. \A k \in Jobs \ {j} : (Live(k) \/ Parked(k))' <=> (Live(k) \/ Parked(k))
        BY <1>1 DEF Live, Parked, TypeOK, Pools
    <2> QED BY <2>1
<1>3. IsFiniteSet(live) /\ IsFiniteSet(parked)
    <2>1. live \in SUBSET Jobs /\ parked \in SUBSET Jobs
        OBVIOUS
    <2> HIDE DEF live, parked
    <2> QED BY <2>1, JobsFinite, FS_Subset
<1>4. Cap[KindOf[j]] \in Nat
    BY ConstantsAssumption DEF ConstantsAssumption
<1> HIDE DEF live, parked, after
<1>5. /\ IsFiniteSet((live \union parked) \union {j})
      /\ Cardinality((live \union parked) \union {j}) <= Cardinality(live) + Cardinality(parked) + 1
    BY <1>3, UnionBound
<1>6. /\ IsFiniteSet(after)
      /\ Cardinality(after) <= Cardinality((live \union parked) \union {j})
    BY <1>2, <1>5, FS_Subset
<1>7. /\ Cardinality(live) \in Nat /\ Cardinality(parked) \in Nat /\ Cardinality(after) \in Nat
      /\ Cardinality((live \union parked) \union {j}) \in Nat
    BY <1>3, <1>5, <1>6, FS_CardinalityType
<1> QED BY <1>1, <1>4, <1>5, <1>6, <1>7 DEF after

\* A worker starts only in a service that accepts work, under its kind's cap
\* with parked outcomes counted, and a native one never while a native stop is
\* unproven (schedule, Pool::occupied and native_completion_unproven).
THEOREM LaunchesAdmitted == Spec => LaunchAdmitted
<1> DEFINE Admitted ==
        \A j \in Jobs : ~Live(j) /\ Live(j)' =>
          /\ phase = "serving"
          /\ Cardinality({k \in Jobs : KindOf[k] = KindOf[j] /\ (Live(k) \/ Parked(k))'})
               <= Cap[KindOf[j]]
          /\ Native(j) => ~NativeCompletionUnproven
<1>1. ASSUME NEW j \in Jobs, Launch(j)
      PROVE  phase = "serving" /\ (Native(j) => ~NativeCompletionUnproven)
    BY <1>1 DEF Launch, Picks, MayClaim, Native
<1>2. TypeOK /\ [Next]_vars => [Admitted]_vars
    BY <1>1, OnlyLaunches, LaunchWithinCap
<1> QED BY <1>2, TypesAlways, PTL DEF Spec, LaunchAdmitted
=============================================================================
