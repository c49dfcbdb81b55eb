------------------------------- MODULE JobPool -------------------------------
(***************************************************************************)
(* The durable local job pool of sigy-service: job rows, leases, completion*)
(* holds and native stop liabilities in the catalog, and the catalog actor *)
(* that claims queued jobs, launches workers, settles their drained        *)
(* outcomes and recovers what an earlier service process left behind.      *)
(*                                                                         *)
(* The catalog outlives a service process; everything the actor keeps is   *)
(* lost when the process dies.  The actor is one thread: pc says where it  *)
(* is inside one turn of poll_catalog, so a crash can fall between any two *)
(* catalog transactions.  Workers run beside it.                           *)
(***************************************************************************)
EXTENDS Naturals, Sequences, FiniteSets

CONSTANTS
    Jobs,               \* job IDs of both job tables
    NoJob,              \* the writer of a revision no job wrote
    Lineages,           \* analysis IDs, and the transcript IDs translations read
    Tasks,              \* owners that may withdraw their interest
    Standing,           \* a direct, monitor or legacy authority: never withdrawn
    KindOf,             \* Jobs -> Kinds
    LineageOf,          \* Jobs -> Lineages
    Seeded,             \* lineages whose transcript already has one revision
    Cap,                \* Kinds -> running jobs allowed (PoolCaps)
    MaxOpen,            \* MAX_OPEN_JOBS
    MaxAttempts,        \* MAX_ATTEMPTS
    SettlementAttempts, \* SETTLEMENT_ATTEMPTS
    ClaimsPerPass,      \* MAX_CLAIMS_PER_PASS
    NativeRequeue,      \* NATIVE_REQUEUE, TRUE on Windows
    ForeignBodies,      \* TRUE when a start may meet hold bodies it cannot read
    MaxProcs,           \* bound of the model: service processes
    MaxFaults,          \* bound of the model: failed catalog or process calls
    MaxRevisions        \* bound of the model: transcript revisions by correction

Kinds == {"verification", "recognition", "translation"}
Families == {"analysis", "translation"}
Open == {"queued", "running", "cancelling"}
ActiveStates == {"running", "cancelling"}
Terminal == {"succeeded", "failed", "cancelled", "interrupted"}
States == {"absent"} \union Open \union Terminal
Bodies == {"succeeded", "failed", "cancelled"}

ASSUME ConstantsAssumption ==
    /\ NoJob \notin Jobs
    /\ Standing \notin Tasks
    /\ KindOf \in [Jobs -> Kinds]
    /\ LineageOf \in [Jobs -> Lineages]
    /\ Seeded \subseteq Lineages
    /\ Cap \in [Kinds -> Nat]
    /\ {MaxOpen, SettlementAttempts, ClaimsPerPass} \subseteq Nat
    /\ MaxAttempts \in Nat \ {0}
    /\ {NativeRequeue, ForeignBodies} \subseteq BOOLEAN
    /\ {MaxProcs, MaxFaults, MaxRevisions} \subseteq Nat

\* A catalog has finitely many rows.
ASSUME JobsFinite == IsFiniteSet(Jobs)

VARIABLES
    (* catalog *)
    row,          \* job row: state, claim (generation, attempt, owner), parent
    attempts,     \* job_attempts: claims a restart ended
    hold,         \* completion_holds: at most one per job
    stops,        \* native_stop_targets
    completions,  \* native_stop_completions
    transcripts,  \* revisions of each transcript, with the claim that wrote it
    translations, \* translations of each transcript
    moved,        \* lineages whose pinned input is no longer current
    interest,     \* job_interests: the authorities that want a job
    withdrawn,    \* tasks that withdrew
    proc,         \* service processes started so far; also the lease owner
    (* service process *)
    phase,        \* down, starting, serving, stopped
    shutdown,     \* Message::Shutdown was received
    worker,       \* Pool.verification, .recognition, .translation
    slot,         \* Pool.recognition_slots, .translation_slots
    pc,           \* where the catalog thread is
    faults        \* faults left

catalog == <<row, attempts, hold, stops, completions, transcripts, translations,
             moved, interest, withdrawn>>
owners == <<moved, interest, withdrawn>>
vars == <<catalog, proc, phase, shutdown, worker, slot, pc, faults>>

NoClaim == [gen |-> 0, attempt |-> 0, owner |-> 0]
NoRow == [state |-> "absent", claim |-> NoClaim, parent |-> 0]
NoHold == [claim |-> NoClaim, body |-> "none"]
NoWorker == [claim |-> NoClaim, stop |-> FALSE, result |-> "none"]
NoSlot == [claim |-> NoClaim, body |-> "none", tries |-> 0, wait |-> FALSE,
           stored |-> FALSE, expired |-> FALSE]
Wait == [at |-> "wait", job |-> NoJob, todo |-> {}, kind |-> "verification",
         claims |-> 0, via |-> "none", back |-> "none", committed |-> FALSE]

FamilyOf(j) == IF KindOf[j] = "translation" THEN "translation" ELSE "analysis"
Native(j) == KindOf[j] # "verification"
Rivals(j) == {k \in Jobs \ {j} : /\ FamilyOf(k) = FamilyOf(j)
                                 /\ LineageOf[k] = LineageOf[j]}

Active(j) == row[j].state \in ActiveStates
Live(j) == worker[j].result # "none"
Parked(j) == slot[j].body # "none"
Held(j) == hold[j].body # "none" /\ hold[j].claim = row[j].claim

(***************************************************************************)
(* Catalog rules.                                                          *)
(***************************************************************************)

\* check_open_bound: queued and active rows of one table.
OpenBelowBound(f) ==
    Cardinality({j \in Jobs : FamilyOf(j) = f /\ row[j].state \in Open}) < MaxOpen

\* The pinned input a job names is still the published, retained revision.
\* A translation reads an immutable transcript revision.
InputCurrent(j) == KindOf[j] = "translation" \/ LineageOf[j] \notin moved

LatestParent(j) == Len(transcripts[LineageOf[j]])

\* Mutant: only running rivals block a claim.
LineageFreeOfRunning(j) == \A k \in Rivals(j) : row[k].state # "running"

\* No other active row of the table has this lineage (claim_row, candidate_sql).
LineageFree(j) == \A k \in Rivals(j) : ~Active(k)

\* A stop target of the row's own generation that no completion answers.
Unproven(j) ==
    /\ \E s \in stops : s.job = j /\ s.claim.gen = row[j].claim.gen
    /\ ~\E c \in completions : c.job = j /\ c.claim.gen = row[j].claim.gen

NativeCompletionUnproven ==
    \E j \in Jobs : Native(j) /\ row[j].state = "cancelling" /\ Unproven(j)

\* Mutant: a job that is stopping can be joined.
AttachableWhileStopping(j) == row[j].state \in Open \union {"succeeded"}

\* The states of a canonical job that another owner may attach to.
Attachable(j) == row[j].state \in {"queued", "running", "succeeded"}

\* Mutant: only tasks count as owners.
OtherTask(j, t) == interest[j] \ (withdrawn \union {t, Standing})

\* Un-withdrawn authorities other than task t.
OtherAuthority(j, t) == interest[j] \ (withdrawn \union {t})

\* withdrawals::complete answers this generation's target, if it has one.
Completed(j) ==
    completions \union {s \in stops : s.job = j /\ s.claim = row[j].claim}

\* complete refuses a target that already has its completion.
CompletionRefused(j) ==
    /\ \E s \in stops : s.job = j /\ s.claim.gen = row[j].claim.gen
    /\ \/ \E c \in completions : c.job = j /\ c.claim.gen = row[j].claim.gen
       \/ ~\E s \in stops : s.job = j /\ s.claim = row[j].claim

-----------------------------------------------------------------------------
(***************************************************************************)
(* The catalog thread.                                                     *)
(***************************************************************************)

Idle == phase \in {"serving", "stopped"} /\ pc.at = "wait"
Arrived(j) == worker[j].result \notin {"none", "busy"}

\* Mutant: parked outcomes hold no capacity.
OccupiedByWorkers(k) == Cardinality({j \in Jobs : KindOf[j] = k /\ Live(j)})

\* Pool::occupied: completed slots hold capacity together with live workers.
Occupied(k) ==
    Cardinality({j \in Jobs : KindOf[j] = k /\ Live(j)})
      + Cardinality({j \in Jobs : KindOf[j] = k /\ Parked(j)})

\* After a message the thread drives every slot, then waits again.
Turn(s) ==
    LET due == {k \in Jobs : s[k].body # "none"}
    IN  IF due = {} THEN Wait ELSE [Wait EXCEPT !.at = "drive", !.todo = due]

\* schedule() is called by: a client operation, which only answers its error;
\* a service tick or a finished worker, whose error stops the service; the
\* settlement driver; startup.
SchedulePass(back) == [Wait EXCEPT !.at = "signal", !.back = back]

AfterPass(back, s) == IF back \in {"drive", "boot"} THEN Wait ELSE Turn(s)

\* Pool::stop signals live workers; no job starts after it.
StopAll(w) == [k \in Jobs |-> IF w[k].result = "none" THEN w[k]
                              ELSE [w[k] EXCEPT !.stop = TRUE]]

\* mark_failed
Halt(w) == phase' = "stopped" /\ worker' = StopAll(w)

\* Pool::signal reaches exactly this generation, if it runs.
Signalled(w, S) == [k \in Jobs |-> IF /\ k \in S
                                      /\ w[k].result # "none"
                                      /\ w[k].claim.gen = row[k].claim.gen
                                   THEN [w[k] EXCEPT !.stop = TRUE] ELSE w[k]]

Spend == faults > 0 /\ faults' = faults - 1

-----------------------------------------------------------------------------
(***************************************************************************)
(* Operations of clients and of the one-second service tick.               *)
(***************************************************************************)

Admissible(j) ==
    /\ row[j].state = "absent"
    /\ OpenBelowBound(FamilyOf(j))
    /\ InputCurrent(j)
    /\ KindOf[j] = "translation" => transcripts[LineageOf[j]] # <<>>

Queued(j) == [state |-> "queued",
              claim |-> [gen |-> 1, attempt |-> 1, owner |-> 0],
              parent |-> IF KindOf[j] = "recognition" THEN LatestParent(j) ELSE 0]

\* Analysis Verify, Transcribe or Translate for a new job ID.
Enqueue(j) ==
    /\ Idle /\ phase = "serving"
    /\ Admissible(j)
    /\ row' = [row EXCEPT ![j] = Queued(j)]
    /\ interest' = [interest EXCEPT ![j] = IF Native(j) THEN {Standing} ELSE {}]
    /\ pc' = SchedulePass("client")
    /\ UNCHANGED <<attempts, hold, stops, completions, transcripts, translations,
                   moved, withdrawn, proc, phase, shutdown, worker, slot, faults>>

\* A monitor's or a task's processing step: a new canonical job, or one more
\* interest in an old one.  Task collection gives a recording one task.
Join(o, j) ==
    /\ Idle /\ phase = "serving"
    /\ o \notin withdrawn \union interest[j]
    /\ o \in Tasks => interest[j] \intersect Tasks = {}
    /\ Native(j)
    /\ \/ /\ Admissible(j)
          /\ row' = [row EXCEPT ![j] = Queued(j)]
          /\ pc' = SchedulePass("tick")
       \/ /\ Attachable(j)
          /\ row' = row
          /\ pc' = Turn(slot)
    /\ interest' = [interest EXCEPT ![j] = @ \union {o}]
    /\ UNCHANGED <<attempts, hold, stops, completions, transcripts, translations,
                   moved, withdrawn, proc, phase, shutdown, worker, slot, faults>>

\* Analysis Cancel naming the current generation; any other is stale-worker.
Cancel(j) ==
    /\ Idle /\ phase = "serving"
    /\ row[j].state \in Open
    /\ row' = [row EXCEPT ![j].state =
                  IF @ = "queued" THEN "cancelled" ELSE "cancelling"]
    /\ worker' = IF Active(j) THEN Signalled(worker, {j}) ELSE worker
    /\ pc' = Turn(slot)
    /\ UNCHANGED <<attempts, hold, stops, completions, transcripts, translations,
                   owners, proc, phase, shutdown, slot, faults>>

Unshared(t) == {j \in Jobs : t \in interest[j] /\ OtherAuthority(j, t) = {}}

\* withdraw_job writes cancelling over a row that is already cancelling, which
\* the row trigger refuses.
WithdrawalAborts(t) == \E j \in Unshared(t) : row[j].state = "cancelling"

\* withdraw_task_processing: one transaction over every job the task wants,
\* then a signal to each worker it stopped.
Withdraw(t) ==
    LET stopping == {j \in Unshared(t) : row[j].state = "running"}
    IN  /\ Idle /\ phase = "serving"
        /\ t \notin withdrawn
        /\ \E j \in Jobs : t \in interest[j]
        /\ ~WithdrawalAborts(t)
        /\ withdrawn' = withdrawn \union {t}
        /\ stops' = stops \union {[job |-> j, claim |-> row[j].claim] : j \in stopping}
        /\ row' = [j \in Jobs |->
                     IF j \in stopping THEN [row[j] EXCEPT !.state = "cancelling"]
                     ELSE IF j \in Unshared(t) /\ row[j].state = "queued"
                     THEN [row[j] EXCEPT !.state = "cancelled"]
                     ELSE row[j]]
        /\ worker' = Signalled(worker, stopping)
        /\ pc' = Turn(slot)
        /\ UNCHANGED <<attempts, hold, completions, transcripts, translations,
                       moved, interest, proc, phase, shutdown, slot, faults>>

\* A new pin revision, refused while a native worker of the pin is active.
Repin(l) ==
    /\ Idle /\ phase = "serving"
    /\ l \notin moved
    /\ ~\E j \in Jobs : KindOf[j] = "recognition" /\ LineageOf[j] = l /\ Active(j)
    /\ moved' = moved \union {l}
    /\ pc' = Turn(slot)
    /\ UNCHANGED <<row, attempts, hold, stops, completions, transcripts, translations,
                   interest, withdrawn, proc, phase, shutdown, worker, slot, faults>>

\* A correction appends a transcript revision that no job wrote.
Correct(l) ==
    /\ Idle /\ phase = "serving"
    /\ transcripts[l] # <<>>
    /\ Len(transcripts[l]) < MaxRevisions
    /\ transcripts' = [transcripts EXCEPT ![l] =
                          Append(@, [job |-> NoJob, claim |-> NoClaim])]
    /\ pc' = Turn(slot)
    /\ UNCHANGED <<row, attempts, hold, stops, completions, translations, owners,
                   proc, phase, shutdown, worker, slot, faults>>

\* Operation::Stop
StopService ==
    /\ Idle /\ phase = "serving"
    /\ Halt(worker)
    /\ pc' = Turn(slot)
    /\ UNCHANGED <<catalog, proc, shutdown, slot, faults>>

-----------------------------------------------------------------------------
(***************************************************************************)
(* schedule(): one pass over the kinds, claims while there is capacity.    *)
(***************************************************************************)

KindAfter == [verification |-> "recognition", recognition |-> "translation",
              translation |-> "none"]

\* signal_durable_stops, then the first kind.
SignalDurableStops ==
    /\ pc.at = "signal"
    /\ worker' = Signalled(worker, {j \in Jobs : Native(j) /\ Unproven(j)})
    /\ pc' = [pc EXCEPT !.at = "schedule", !.kind = "verification", !.claims = 0]
    /\ UNCHANGED <<catalog, proc, phase, shutdown, slot, faults>>

Candidates(k) == {j \in Jobs : /\ KindOf[j] = k
                               /\ row[j].state = "queued"
                               /\ LineageFree(j)}

MayClaim(k) ==
    /\ phase = "serving"
    /\ k # "verification" => ~NativeCompletionUnproven
    /\ Occupied(k) < Cap[k]
    /\ pc.claims < ClaimsPerPass

\* Mutant: the parent revision is checked at admission only.
EligibleByInput(j) == InputCurrent(j)

\* A claim and a publication both need the current input and, for a recognition,
\* the transcript revision its request named.
Eligible(j) == InputCurrent(j) /\ (KindOf[j] = "recognition" => LatestParent(j) = row[j].parent)

\* next_fair picks one candidate; which one is the Fairness module's subject.
Picks(j) == /\ pc.at = "schedule" /\ KindOf[j] = pc.kind
            /\ MayClaim(pc.kind) /\ j \in Candidates(pc.kind)

NextClaim == [pc EXCEPT !.claims = @ + 1]
Lease(j) == [row[j].claim EXCEPT !.owner = proc]
Claimed(j) == [row EXCEPT ![j].state = "running", ![j].claim = Lease(j)]
Launched(j) == [claim |-> Lease(j), stop |-> FALSE, result |-> "busy"]

PassError(w) ==
    /\ pc' = AfterPass(pc.back, slot)
    /\ IF pc.back = "client" THEN phase' = phase /\ worker' = w ELSE Halt(w)

\* The input or the transcript parent moved on: end_queued, no worker.
ClaimEnds(j) ==
    /\ Picks(j) /\ ~Eligible(j)
    /\ row' = [row EXCEPT ![j].state = "failed"]
    /\ pc' = NextClaim
    /\ UNCHANGED <<attempts, hold, stops, completions, transcripts, translations,
                   owners, proc, phase, shutdown, worker, slot, faults>>

\* claim_* commits the lease, then the worker starts.
Launch(j) ==
    /\ Picks(j) /\ Eligible(j)
    /\ row' = Claimed(j)
    /\ worker' = [worker EXCEPT ![j] = Launched(j)]
    /\ pc' = NextClaim
    /\ UNCHANGED <<attempts, hold, stops, completions, transcripts, translations,
                   owners, proc, phase, shutdown, slot, faults>>

\* The lease committed but no native worker started: the refusal is settled.
LaunchParks(j) ==
    /\ Picks(j) /\ Eligible(j) /\ Native(j) /\ Spend
    /\ row' = Claimed(j)
    /\ slot' = [slot EXCEPT ![j] = [NoSlot EXCEPT !.claim = Lease(j), !.body = "failed"]]
    /\ pc' = [NextClaim EXCEPT !.at = "remember", !.job = j, !.via = "launch"]
    /\ UNCHANGED <<attempts, hold, stops, completions, transcripts, translations,
                   owners, proc, phase, shutdown, worker>>

\* The claim itself failed, committed or not; or a verification worker did not
\* start, and its row is failed if that finish commits.  The pass ends.
ClaimFails(j) ==
    /\ Picks(j) /\ Eligible(j) /\ Spend
    /\ \/ row' = row
       \/ row' = Claimed(j)
       \/ KindOf[j] = "verification" /\ row' = [Claimed(j) EXCEPT ![j].state = "failed"]
    /\ PassError(worker)
    /\ UNCHANGED <<attempts, hold, stops, completions, transcripts, translations,
                   owners, proc, shutdown, slot>>

\* Mutant: the pass has no last kind.
NextKindForever ==
    /\ pc.at = "schedule"
    /\ ~(MayClaim(pc.kind) /\ Candidates(pc.kind) # {})
    /\ pc' = [pc EXCEPT !.kind = KindAfter[@], !.claims = 0]
    /\ UNCHANGED <<catalog, proc, phase, shutdown, worker, slot, faults>>

\* The kind reached its cap, is held, or has no eligible work.
NextKind ==
    /\ pc.at = "schedule"
    /\ ~(MayClaim(pc.kind) /\ Candidates(pc.kind) # {})
    /\ pc' = IF KindAfter[pc.kind] = "none" THEN AfterPass(pc.back, slot)
             ELSE [pc EXCEPT !.kind = KindAfter[@], !.claims = 0]
    /\ UNCHANGED <<catalog, proc, phase, shutdown, worker, slot, faults>>

\* No decoder is configured: recognition stays queued for this pass.
DecoderMissing ==
    /\ pc.at = "schedule" /\ pc.kind = "recognition"
    /\ MayClaim("recognition") /\ Spend
    /\ pc' = [pc EXCEPT !.kind = KindAfter[@], !.claims = 0]
    /\ UNCHANGED <<catalog, proc, phase, shutdown, worker, slot>>

-----------------------------------------------------------------------------
(***************************************************************************)
(* Workers, and the messages they send.                                    *)
(***************************************************************************)

\* The worker task ends and its result waits in the actor's channel.
WorkerEnds(j, r) ==
    /\ worker[j].result = "busy"
    /\ r = "cancelled" => worker[j].stop
    /\ worker' = [worker EXCEPT ![j].result = r]
    /\ UNCHANGED <<catalog, proc, phase, shutdown, slot, pc, faults>>

\* A native process tree that cannot be proven drained.
WorkerUndrained(j) ==
    /\ worker[j].result = "busy" /\ Native(j) /\ Spend
    /\ worker' = [worker EXCEPT ![j].result = "undrained"]
    /\ UNCHANGED <<catalog, proc, phase, shutdown, slot, pc>>

\* Mutant: the finished worker stays in the pool.
Kept(j) == worker

\* The pool forgets a worker whose result it takes.
Removed(j) == [worker EXCEPT ![j] = NoWorker]

VerificationOutcome(j) ==
    IF row[j].state = "cancelling" THEN "cancelled"
    ELSE IF worker[j].result = "succeeded" /\ ~InputCurrent(j) THEN "failed"
    ELSE worker[j].result

VerificationRow(j) ==
    IF Active(j) /\ row[j].claim.gen = worker[j].claim.gen
    THEN [row EXCEPT ![j].state = VerificationOutcome(j)] ELSE row

\* Message::AnalysisFinished
FinishVerification(j) ==
    /\ Idle /\ ~Native(j) /\ Arrived(j)
    /\ row' = VerificationRow(j)
    /\ worker' = Removed(j)
    /\ pc' = SchedulePass("tick")
    /\ UNCHANGED <<attempts, hold, stops, completions, transcripts, translations,
                   owners, proc, phase, shutdown, slot, faults>>

\* A failed commit keeps the lease, drops the result and stops the service.
FinishVerificationFails(j) ==
    /\ Idle /\ ~Native(j) /\ Arrived(j) /\ Spend
    /\ row' \in {row, VerificationRow(j)}
    /\ Halt(Removed(j))
    /\ pc' = Turn(slot)
    /\ UNCHANGED <<attempts, hold, stops, completions, transcripts, translations,
                   owners, proc, shutdown, slot>>

\* Message::RecognitionFinished, TranslationFinished: take a slot and advance it.
\* An undrained result opens no slot, keeps the lease and stops the service.
ArriveNative(j) ==
    /\ Idle /\ Native(j) /\ Arrived(j)
    /\ IF worker[j].result = "undrained"
       THEN /\ Halt(Removed(j))
            /\ slot' = slot
            /\ pc' = Turn(slot)
       ELSE /\ worker' = Removed(j)
            /\ slot' = [slot EXCEPT ![j] = [NoSlot EXCEPT !.claim = worker[j].claim,
                                                          !.body = worker[j].result]]
            /\ pc' = [Wait EXCEPT !.at = "remember", !.job = j, !.via = "arrive"]
            /\ phase' = phase
    /\ UNCHANGED <<catalog, proc, shutdown, faults>>

-----------------------------------------------------------------------------
(***************************************************************************)
(* Settlement of one slot: commit its hold, then finish.                   *)
(***************************************************************************)

\* Mutant: a slot has a try budget but no deadline.
ExhaustedByTries(s) == s.tries >= SettlementAttempts

\* pace: three tries or the deadline end a slot.
Exhausted(s) == s.expired \/ s.tries >= SettlementAttempts

\* The 15 second deadline of a slot passes.  An advance of the slot reads the
\* clock as it starts, so it sees a deadline that passed before it.
SlotExpires(j) ==
    /\ Parked(j) /\ ~slot[j].expired /\ pc.job # j
    /\ slot' = [slot EXCEPT ![j].expired = TRUE]
    /\ UNCHANGED <<catalog, proc, phase, shutdown, worker, pc, faults>>

\* No message was waiting: a slot keeps the thread awake.
DriveTurn ==
    /\ Idle
    /\ ~\E j \in Jobs : Arrived(j)
    /\ \E j \in Jobs : Parked(j)
    /\ pc' = Turn(slot)
    /\ UNCHANGED <<catalog, proc, phase, shutdown, worker, slot, faults>>

\* drive_recognition, then drive_translation; each takes its slots in map order.
DriveSlot(j) ==
    /\ pc.at = "drive" /\ j \in pc.todo
    /\ KindOf[j] = "translation" => \A k \in pc.todo : KindOf[k] # "recognition"
    /\ pc' = [pc EXCEPT !.at = IF slot[j].stored THEN "settle" ELSE "remember",
                        !.job = j, !.via = "drive", !.todo = @ \ {j}]
    /\ UNCHANGED <<catalog, proc, phase, shutdown, worker, slot, faults>>

DriveEnds ==
    /\ pc.at = "drive" /\ pc.todo = {}
    /\ pc' = IF pc.committed THEN SchedulePass("drive") ELSE Wait
    /\ UNCHANGED <<catalog, proc, phase, shutdown, worker, slot, faults>>

\* Back to the launch that parked this slot, or to the drive loop.
Resume(committed) ==
    IF pc.via = "launch" THEN [pc EXCEPT !.at = "schedule", !.job = NoJob, !.via = "none"]
    ELSE [pc EXCEPT !.at = "drive", !.job = NoJob, !.via = "none",
                    !.committed = @ \/ committed]

\* Mutant: a settled arrival does not schedule.
StepCommittedQuietly(j) ==
    /\ slot' = [slot EXCEPT ![j] = NoSlot]
    /\ pc' = IF pc.via = "arrive" THEN Turn(slot') ELSE Resume(TRUE)
    /\ UNCHANGED <<phase, worker>>

\* Step::Committed: the slot is gone; an arrival or a drive schedules.
StepCommitted(j) ==
    /\ slot' = [slot EXCEPT ![j] = NoSlot]
    /\ pc' = IF pc.via = "arrive" THEN SchedulePass("tick") ELSE Resume(TRUE)
    /\ UNCHANGED <<phase, worker>>

\* Step::Pending keeps the slot, Step::Exhausted drops it.  Neither schedules.
StepWaits(j, s) ==
    /\ slot' = [slot EXCEPT ![j] = IF Exhausted(s) THEN NoSlot ELSE s]
    /\ pc' = IF pc.via = "arrive" THEN Turn(slot') ELSE Resume(FALSE)
    /\ UNCHANGED <<phase, worker>>

\* A refused settlement drops the outcome and stops the service, except inside
\* the schedule pass of a client operation, which answers the error.
StepRefused(j) ==
    /\ slot' = [slot EXCEPT ![j] = NoSlot]
    /\ pc' = IF pc.via = "drive" \/ pc.back = "drive" THEN Wait ELSE Turn(slot')
    /\ IF pc.via = "launch" /\ pc.back = "client" THEN UNCHANGED <<phase, worker>>
       ELSE Halt(worker)

\* apply_failure after a membership read: this claim's row decides.
AfterFailure(j, s) ==
    IF row[j].claim # s.claim THEN StepRefused(j)
    ELSE IF ~Active(j) THEN StepCommitted(j)
    ELSE StepWaits(j, s)

Remembering(j) == pc.at = "remember" /\ pc.job = j
HoldBody(j) == [claim |-> slot[j].claim, body |-> slot[j].body]
HoldFits(j) == hold[j] \in {NoHold, HoldBody(j)}
PutHold(j) == IF hold[j].body = "none" THEN [hold EXCEPT ![j] = HoldBody(j)] ELSE hold
Stored(j) == /\ slot' = [slot EXCEPT ![j].stored = TRUE]
             /\ pc' = [pc EXCEPT !.at = "settle"]
             /\ UNCHANGED <<phase, worker>>

\* put_*_hold commits the publication body, or finds the same body there.
RememberHold(j) ==
    /\ Remembering(j)
    /\ IF HoldFits(j) THEN hold' = PutHold(j) /\ Stored(j)
       ELSE hold' = hold /\ StepRefused(j)
    /\ UNCHANGED <<row, attempts, stops, completions, transcripts, translations,
                   owners, proc, shutdown, faults>>

\* A busy or locked hold write spends one try and does not finish.
RememberBusy(j) ==
    /\ Remembering(j) /\ Spend
    /\ AfterFailure(j, [slot[j] EXCEPT !.tries = @ + 1])
    /\ UNCHANGED <<catalog, proc, shutdown>>

\* An uncertain hold write either landed or not, and is read again.
RememberUncertain(j) ==
    /\ Remembering(j) /\ HoldFits(j) /\ Spend
    /\ hold' \in {hold, PutHold(j)}
    /\ \/ /\ hold'[j].body # "none"
          /\ Stored(j)
       \/ /\ hold'[j].body = "none"
          /\ AfterFailure(j, [slot[j] EXCEPT !.wait = TRUE])
       \/ StepWaits(j, [slot[j] EXCEPT !.wait = TRUE])
    /\ UNCHANGED <<row, attempts, stops, completions, transcripts, translations,
                   owners, proc, shutdown>>

\* Any other hold failure, an oversized body among them.
RememberRefused(j) ==
    /\ Remembering(j) /\ Spend
    /\ StepRefused(j)
    /\ UNCHANGED <<catalog, proc, shutdown>>

Settling(j) == pc.at = "settle" /\ pc.job = j
Attempting(j) == Settling(j) /\ ~Exhausted(slot[j]) /\ ~slot[j].wait
Tried(j) == [slot[j] EXCEPT !.tries = @ + 1]

\* Mutant: the worker's own outcome stands although its job is cancelling.
ReportedOutcome(j) ==
    IF slot[j].body = "cancelled" THEN "cancelled"
    ELSE IF slot[j].body = "failed" \/ ~Eligible(j) THEN "failed"
    ELSE "succeeded"

\* terminal_outcome, publish_translation: cancellation wins over a late success;
\* a recognition publishes only over its current input and parent revision.
TerminalOutcome(j) ==
    IF row[j].state = "cancelling" \/ slot[j].body = "cancelled" THEN "cancelled"
    ELSE IF slot[j].body = "failed" \/ ~Eligible(j) THEN "failed"
    ELSE "succeeded"

\* Mutant: a finish needs a row that is still running.
FinishRefusesCancelling(j) ==
    row[j].claim # slot[j].claim \/ row[j].state # "running" \/ CompletionRefused(j)

\* stale-worker, a conflicting replay, or a stop that already completed.
FinishRefuses(j) ==
    \/ row[j].claim # slot[j].claim
    \/ row[j].state = "succeeded" /\ slot[j].body # "succeeded"
    \/ Active(j) /\ CompletionRefused(j)

Result(j) == [job |-> j, claim |-> slot[j].claim]

\* Mutant: a finish leaves its hold behind.
HoldKept(j) == hold

\* A finish deletes the hold of its claim.
HoldFinished(j) == IF hold[j].claim = slot[j].claim THEN [hold EXCEPT ![j] = NoHold] ELSE hold

\* Mutant: the revision commits in a transaction before the row's.
PublishAhead(j) ==
    LET l == LineageOf[j]
    IN  /\ transcripts' = IF KindOf[j] = "recognition" /\ TerminalOutcome(j) = "succeeded"
                          THEN [transcripts EXCEPT ![l] = Append(@, Result(j))] ELSE transcripts
        /\ UNCHANGED <<row, completions, translations, hold>>

\* The finish transaction: completion, revision, terminal row, hold.
Publish(j) ==
    LET outcome == TerminalOutcome(j)
        l == LineageOf[j]
    IN  /\ row' = [row EXCEPT ![j].state = outcome]
        /\ completions' = Completed(j)
        /\ transcripts' = IF outcome = "succeeded" /\ KindOf[j] = "recognition"
                          THEN [transcripts EXCEPT ![l] = Append(@, Result(j))]
                          ELSE transcripts
        /\ translations' = IF outcome = "succeeded" /\ KindOf[j] = "translation"
                           THEN [translations EXCEPT ![l] = Append(@, Result(j))]
                           ELSE translations
        /\ hold' = HoldFinished(j)

unpublished == <<row, completions, transcripts, translations>>

\* delete_completion_hold after a refusal
DiscardHold(j) == IF slot[j].stored /\ hold[j].claim = slot[j].claim
                  THEN [hold EXCEPT ![j] = NoHold] ELSE hold

\* The pause of an uncertain commit, or the end of the slot's budget.
SettleWaits(j) ==
    /\ Settling(j)
    /\ Exhausted(slot[j]) \/ slot[j].wait
    /\ StepWaits(j, slot[j])
    /\ UNCHANGED <<catalog, proc, shutdown, faults>>

\* finish_local_asr, finish_held_recognition, finish_translation and its held form.
Settle(j) ==
    /\ Attempting(j)
    /\ IF FinishRefuses(j)
       THEN hold' = DiscardHold(j) /\ UNCHANGED unpublished /\ StepRefused(j)
       ELSE /\ IF Active(j) THEN Publish(j) ELSE UNCHANGED <<unpublished, hold>>
            /\ StepCommitted(j)
    /\ UNCHANGED <<attempts, stops, owners, proc, shutdown, faults>>

\* Busy or locked: nothing committed; the membership is read again.
SettleBusy(j) ==
    /\ Attempting(j) /\ Spend
    /\ AfterFailure(j, Tried(j))
    /\ UNCHANGED <<catalog, proc, shutdown>>

\* An uncertain commit, landed or not.  A terminal row is settled; otherwise,
\* and when the row cannot be read, the slot never finishes again.
SettleUncertain(j) ==
    /\ Attempting(j) /\ ~FinishRefuses(j) /\ Active(j) /\ Spend
    /\ \/ Publish(j)
       \/ UNCHANGED <<unpublished, hold>>
    /\ \/ row'[j].state \notin ActiveStates /\ StepCommitted(j)
       \/ StepWaits(j, [Tried(j) EXCEPT !.wait = TRUE])
    /\ UNCHANGED <<attempts, stops, owners, proc, shutdown>>

\* Constraint, disk full, corruption: the hold is deleted if it can be.
SettleRefused(j) ==
    /\ Attempting(j) /\ Spend
    /\ hold' \in {hold, DiscardHold(j)}
    /\ StepRefused(j)
    /\ UNCHANGED <<unpublished, attempts, stops, owners, proc, shutdown>>

-----------------------------------------------------------------------------
(***************************************************************************)
(* Process life: start, recovery, restore, stop, crash.                    *)
(***************************************************************************)

\* serve() opens the catalog under a new lease owner.
Boot ==
    /\ phase = "down" /\ proc < MaxProcs
    /\ proc' = proc + 1
    /\ phase' = "starting"
    /\ pc' = [Wait EXCEPT !.at = "recover analysis"]
    /\ UNCHANGED <<catalog, shutdown, worker, slot, faults>>

\* Mutant: a restart always requeues running work.
RequeuesAlways(j) == row[j].state = "running" /\ (NativeRequeue \/ ~Native(j))

\* Running work has another attempt, native work only where its group is dead.
Requeues(j) == /\ row[j].state = "running"
               /\ row[j].claim.attempt < MaxAttempts
               /\ NativeRequeue \/ ~Native(j)

\* Mutant: a stored outcome does not keep its claim.
LostWithHolds(f) == {j \in Jobs : FamilyOf(j) = f /\ Active(j)}

\* Active rows of the table whose outcome was not stored, and among them those
\* no unproven native stop keeps.
Lost(f) == {j \in Jobs : FamilyOf(j) = f /\ Active(j) /\ ~Held(j)}
\* Mutant: a dead owner is taken for a drained one.
EndedUnproven(f) == Lost(f)

Ended(f) == {j \in Lost(f) : ~Unproven(j)}

\* Mutant: a requeued job gets its attempts back.
RecoveredAfresh(j) ==
    IF Requeues(j) THEN [row[j] EXCEPT !.state = "queued", !.claim.gen = @ + 1, !.claim.owner = 0]
    ELSE [row[j] EXCEPT !.state = "interrupted", !.claim.gen = @ + 1]

RecoveredRow(j) ==
    IF Requeues(j)
    THEN [row[j] EXCEPT !.state = "queued",
                        !.claim = [gen |-> @.gen + 1, attempt |-> @.attempt + 1, owner |-> 0]]
    ELSE [row[j] EXCEPT !.state = "interrupted", !.claim.gen = @ + 1]

\* job_pool::recover, one transaction per table.
Recover(f) ==
    /\ pc.at = (IF f = "analysis" THEN "recover analysis" ELSE "recover translation")
    /\ attempts' = attempts \union {[job |-> j, claim |-> row[j].claim] : j \in Ended(f)}
    /\ row' = [j \in Jobs |-> IF j \in Ended(f) THEN RecoveredRow(j) ELSE row[j]]
    /\ hold' = [j \in Jobs |-> IF j \in Lost(f) THEN NoHold ELSE hold[j]]
    /\ IF f = "analysis"
       THEN pc' = [pc EXCEPT !.at = "recover translation"] /\ phase' = phase
       ELSE /\ pc' = [pc EXCEPT !.at = "restore", !.todo = {j \in Jobs : hold'[j].body # "none"}]
            /\ phase' = "serving"
    /\ UNCHANGED <<stops, completions, transcripts, translations, owners,
                   proc, shutdown, worker, slot, faults>>

RestoreError == Halt(worker) /\ pc' = Wait
Restoring(j) == pc.at = "restore" /\ j \in pc.todo
NextHold(j) == pc' = [pc EXCEPT !.todo = @ \ {j}] /\ UNCHANGED <<phase, worker>>

\* resume_local_asr and resume_translation find the committed claim.
Resumable(j) == Active(j) /\ InputCurrent(j)

\* restore_recognition, restore_translation: a fresh slot over the stored body.
RestoreSlot(j) ==
    /\ Restoring(j) /\ Resumable(j)
    /\ IF hold[j].claim = row[j].claim
       THEN /\ slot' = [slot EXCEPT ![j] = [NoSlot EXCEPT !.claim = row[j].claim,
                                                          !.body = hold[j].body,
                                                          !.stored = TRUE]]
            /\ NextHold(j)
       ELSE slot' = slot /\ RestoreError
    /\ UNCHANGED <<catalog, proc, shutdown, faults>>

\* release_unreadable_hold: a body this binary cannot apply, or a row that is
\* no longer active.  The row trigger refuses to fail a cancelling row.
RestoreReleases(j) ==
    /\ Restoring(j)
    /\ ~Resumable(j) \/ ForeignBodies
    /\ IF Held(j) /\ Active(j)
       THEN IF row[j].state = "running"
            THEN /\ row' = [row EXCEPT ![j].state = "failed"]
                 /\ completions' = Completed(j)
                 /\ hold' = [hold EXCEPT ![j] = NoHold]
                 /\ NextHold(j)
            ELSE UNCHANGED <<row, completions, hold>> /\ RestoreError
       ELSE /\ hold' = [hold EXCEPT ![j] = NoHold]
            /\ UNCHANGED <<row, completions>>
            /\ NextHold(j)
    /\ UNCHANGED <<attempts, stops, transcripts, translations, owners, proc, shutdown, slot, faults>>

RestoreFails ==
    /\ pc.at = "restore" /\ Spend
    /\ RestoreError
    /\ UNCHANGED <<catalog, proc, shutdown, slot>>

\* Startup schedules once every hold is loaded.
RestoreEnds ==
    /\ pc.at = "restore" /\ pc.todo = {}
    /\ pc' = SchedulePass("boot")
    /\ UNCHANGED <<catalog, proc, phase, shutdown, worker, slot, faults>>

\* The server stopped accepting clients and drained them.
Shutdown ==
    /\ Idle /\ ~shutdown
    /\ shutdown' = TRUE
    /\ Halt(worker)
    /\ pc' = Turn(slot)
    /\ UNCHANGED <<catalog, proc, slot, faults>>

\* poll_catalog returns false once shutdown is asked and the pool is idle.
Exit ==
    /\ Idle /\ shutdown
    /\ \A j \in Jobs : ~Live(j) /\ ~Parked(j)
    /\ phase' = "down"
    /\ shutdown' = FALSE
    /\ pc' = Wait
    /\ UNCHANGED <<catalog, proc, worker, slot, faults>>

\* The process dies between two transactions.
Crash ==
    /\ phase # "down" /\ proc < MaxProcs
    /\ phase' = "down"
    /\ shutdown' = FALSE
    /\ worker' = [j \in Jobs |-> NoWorker]
    /\ slot' = [j \in Jobs |-> NoSlot]
    /\ pc' = Wait
    /\ UNCHANGED <<catalog, proc, faults>>

-----------------------------------------------------------------------------
Init ==
    /\ row = [j \in Jobs |-> NoRow]
    /\ attempts = {} /\ stops = {} /\ completions = {}
    /\ hold = [j \in Jobs |-> NoHold]
    /\ transcripts = [l \in Lineages |-> IF l \in Seeded
                        THEN <<[job |-> NoJob, claim |-> NoClaim]>> ELSE <<>>]
    /\ translations = [l \in Lineages |-> <<>>]
    /\ moved = {} /\ withdrawn = {}
    /\ interest = [j \in Jobs |-> {}]
    /\ proc = 0 /\ phase = "down" /\ shutdown = FALSE
    /\ worker = [j \in Jobs |-> NoWorker]
    /\ slot = [j \in Jobs |-> NoSlot]
    /\ pc = Wait
    /\ faults = MaxFaults

Client == \/ \E j \in Jobs : Enqueue(j) \/ Cancel(j)
          \/ \E t \in Tasks : Withdraw(t)
          \/ \E o \in Tasks \union {Standing}, j \in Jobs : Join(o, j)
          \/ \E l \in Lineages : Repin(l) \/ Correct(l)
          \/ StopService

Scheduling == \/ SignalDurableStops \/ NextKind \/ DecoderMissing
              \/ \E j \in Jobs : ClaimEnds(j) \/ Launch(j) \/ LaunchParks(j) \/ ClaimFails(j)

Working(j) == WorkerUndrained(j) \/ \E r \in Bodies : WorkerEnds(j, r)

Arriving(j) == FinishVerification(j) \/ FinishVerificationFails(j) \/ ArriveNative(j)

Settlement == \/ DriveEnds
              \/ \E j \in Jobs :
                    \/ DriveSlot(j)
                    \/ RememberHold(j) \/ RememberBusy(j)
                    \/ RememberUncertain(j) \/ RememberRefused(j)
                    \/ SettleWaits(j) \/ Settle(j) \/ SettleBusy(j)
                    \/ SettleUncertain(j) \/ SettleRefused(j)

Starting == \/ \E f \in Families : Recover(f)
            \/ \E j \in Jobs : RestoreSlot(j) \/ RestoreReleases(j)
            \/ RestoreFails \/ RestoreEnds

Next == \/ Client \/ Scheduling \/ Settlement \/ Starting
        \/ \E j \in Jobs : Working(j) \/ Arriving(j) \/ SlotExpires(j)
        \/ DriveTurn \/ Boot \/ Shutdown \/ Exit \/ Crash

Spec == Init /\ [][Next]_vars

\* What the code's own scheduling provides: the catalog thread keeps running,
\* every worker has a wall-clock limit, a slot's deadline passes however often
\* the slot is advanced meanwhile, and a server whose service stopped sends
\* Shutdown.  Nobody has to start a process or send a
\* request, and no fault has to happen.
Fairness ==
    /\ WF_vars(Scheduling) /\ WF_vars(Settlement) /\ WF_vars(Starting)
    /\ WF_vars(DriveTurn) /\ WF_vars(Exit)
    /\ WF_vars(phase = "stopped" /\ Shutdown)
    /\ \A j \in Jobs : /\ WF_vars(Working(j)) /\ WF_vars(Arriving(j))
                       /\ SF_vars(SlotExpires(j))

FairSpec == Spec /\ Fairness

-----------------------------------------------------------------------------
(***************************************************************************)
(* Properties: invariants.                                                 *)
(***************************************************************************)

Claims == [gen : Nat, attempt : Nat, owner : Nat]
Rows == [state : States, claim : Claims, parent : Nat]
Holds == [claim : Claims, body : Bodies \union {"none"}]
JobClaims == [job : Jobs, claim : Claims]
Revisions == [job : Jobs \union {NoJob}, claim : Claims]
Workers == [claim : Claims, stop : BOOLEAN, result : Bodies \union {"none", "busy", "undrained"}]
\* A verification worker has no process tree to drain.
Pools == {w \in [Jobs -> Workers] : \A j \in Jobs : w[j].result = "undrained" => Native(j)}
Slots == [claim : Claims, body : Bodies \union {"none"}, tries : Nat,
          wait : BOOLEAN, stored : BOOLEAN, expired : BOOLEAN]
Positions == {"wait", "signal", "schedule", "remember", "settle", "drive",
              "recover analysis", "recover translation", "restore"}
Threads == [at : Positions, job : Jobs \union {NoJob}, todo : SUBSET Jobs, kind : Kinds,
            claims : Nat, via : {"none", "arrive", "launch", "drive"},
            back : {"none", "client", "tick", "drive", "boot"}, committed : BOOLEAN]

\* Every variable has its type.
TypeOK ==
    /\ row \in [Jobs -> Rows]
    /\ attempts \subseteq JobClaims
    /\ hold \in [Jobs -> Holds]
    /\ stops \subseteq JobClaims /\ completions \subseteq JobClaims
    /\ transcripts \in [Lineages -> Seq(Revisions)]
    /\ translations \in [Lineages -> Seq(Revisions)]
    /\ moved \subseteq Lineages
    /\ interest \in [Jobs -> SUBSET (Tasks \union {Standing})]
    /\ withdrawn \subseteq Tasks
    /\ proc \in Nat
    /\ phase \in {"down", "starting", "serving", "stopped"}
    /\ shutdown \in BOOLEAN
    /\ worker \in Pools
    /\ slot \in [Jobs -> Slots]
    /\ pc \in Threads
    /\ faults \in Nat

\* No two active rows of one table share a lineage, whatever is claimed,
\* cancelled, settled or recovered in between (claim_row, 031-job-pool.sql).
OneActivePerLineage ==
    \A j \in Jobs : \A k \in Rivals(j) : ~(Active(j) /\ Active(k))

\* A completion hold is the stored outcome of the claim its row still has: no
\* finish, recovery or refusal leaves the hold of a terminal or a newer claim.
HoldMatchesClaim ==
    \A j \in Jobs : hold[j].body # "none" =>
        Native(j) /\ Active(j) /\ hold[j].claim = row[j].claim

\* A worker and a slot belong to the process that runs and to the claim its
\* row has, and one job never has both: an outcome is taken once.
LeaseInHand ==
    \A j \in Jobs :
        /\ Live(j) => Active(j) /\ worker[j].claim = row[j].claim /\ row[j].claim.owner = proc
        /\ Parked(j) => Native(j) /\ slot[j].claim = row[j].claim
        /\ ~(Live(j) /\ Parked(j))

\* The revisions of transcripts and translations that job j wrote.
WrittenIn(revisions, j) ==
    UNION {{<<l, i>> : i \in {n \in DOMAIN revisions[l] : revisions[l][n].job = j}}
             : l \in Lineages}
WrittenBy(j) == WrittenIn(transcripts, j) \union WrittenIn(translations, j)

\* A native job publishes exactly one revision if its row succeeded and none
\* otherwise, through every retry, lost commit, crash and restored hold.
PublishedOnce ==
    \A j \in Jobs : Cardinality(WrittenBy(j)) =
        IF Native(j) /\ row[j].state = "succeeded" THEN 1 ELSE 0

\* A recognition's revision follows the parent revision its request named: a
\* correction or another job's revision in between makes it fail instead.
LinearHistory ==
    \A l \in Lineages : \A i \in DOMAIN transcripts[l] :
        transcripts[l][i].job # NoJob =>
            /\ row[transcripts[l][i].job].parent = i - 1
            /\ transcripts[l][i].claim = row[transcripts[l][i].job].claim

\* Each generation a restart ended left one attempt row, attempt numbers are
\* not reused, and no job runs more than MAX_ATTEMPTS times.
AttemptsAccountForGenerations ==
    \A j \in Jobs :
        LET ended == {a \in attempts : a.job = j}
        IN  /\ row[j].state # "absent" => Cardinality(ended) = row[j].claim.gen - 1
            /\ Cardinality({a.claim.attempt : a \in ended}) = Cardinality(ended)
            /\ row[j].claim.attempt <= MaxAttempts

\* A stop target is open while its row is still the cancelling claim it names;
\* a completion answers a target, and only of a row that ended.
StopLiability ==
    /\ completions \subseteq stops
    /\ \A s \in stops :
        IF s \in completions THEN row[s.job].state \in Terminal
        ELSE row[s.job].state = "cancelling" /\ row[s.job].claim = s.claim

\* A task can always withdraw: its jobs' states never abort the transaction
\* that records its decisions (0079-task-interest-withdrawal.md).
WithdrawalCommits == \A t \in Tasks \ withdrawn : ~WithdrawalAborts(t)

\* Work under a stop target has no owner left that did not withdraw: nobody
\* joins a job that a withdrawal is already stopping.
StoppedWorkIsUnwanted == \A s \in stops : interest[s.job] \subseteq withdrawn

-----------------------------------------------------------------------------
(***************************************************************************)
(* Properties: actions.                                                    *)
(***************************************************************************)

\* A cancelling job never ends succeeded or failed and never runs again, and a
\* terminal row is never written again.
CancellationWins ==
    [][\A j \in Jobs :
         /\ row[j].state = "cancelling" =>
               row'[j].state \in {"cancelling", "cancelled", "interrupted"}
         /\ row[j].state \in Terminal => row'[j] = row[j]]_vars

\* A stored outcome is never recomputed: a restart neither requeues nor
\* interrupts the claim whose completion hold is committed.
HeldNeverRerun ==
    [][\A j \in Jobs : Held(j) =>
         row'[j].claim = row[j].claim /\ row'[j].state \notin {"queued", "interrupted"}]_vars

\* A worker starts only in a service that accepts work, under its kind's cap
\* with parked outcomes counted, and never while a native stop is unproven.
LaunchAdmitted ==
    [][\A j \in Jobs : ~Live(j) /\ Live(j)' =>
         /\ phase = "serving"
         /\ Cardinality({k \in Jobs : KindOf[k] = KindOf[j] /\ (Live(k) \/ Parked(k))'})
              <= Cap[KindOf[j]]
         /\ Native(j) => ~NativeCompletionUnproven]_vars

\* A start that meets an unreadable hold fails that job and goes on: only a
\* failed catalog call stops it (0108-durable-completion-hold.md).
UnreadableHoldFailsJob ==
    [][pc.at = "restore" /\ phase' = "stopped" => faults' # faults]_vars

\* Withdrawing a task stops or cancels only jobs no other authority wants.
WithdrawalSparesShared ==
    [][\A j \in Jobs :
         withdrawn' # withdrawn /\ row'[j] # row[j] => interest[j] \subseteq withdrawn']_vars

-----------------------------------------------------------------------------
(***************************************************************************)
(* Refinement: the rows implement JobContract.                             *)
(***************************************************************************)

Stage(j) == CASE row[j].state = "absent" -> "new"
              [] row[j].state = "queued" -> "waiting"
              [] row[j].state \in ActiveStates -> "working"
              [] OTHER -> "done"

\* The attempt a row shows was started once it has had an owner.
Runs(j) == IF row[j].claim.owner # 0 THEN row[j].claim.attempt
           ELSE IF row[j].claim.attempt = 0 THEN 0 ELSE row[j].claim.attempt - 1

Contract == INSTANCE JobContract WITH
                MaxRuns <- MaxAttempts,
                stage <- [j \in Jobs |-> Stage(j)],
                runs <- [j \in Jobs |-> Runs(j)],
                published <- {j \in Jobs : WrittenBy(j) # {}}

\* Every operation, fault, crash and recovery of the pool is a step of the
\* contract: at most one publication and MAX_ATTEMPTS runs for each job.
ImplementsContract == Contract!Spec

-----------------------------------------------------------------------------
(***************************************************************************)
(* Properties: liveness.                                                   *)
(***************************************************************************)

\* A stopping service exits: every worker reports and every parked outcome
\* commits, exhausts its tries or meets its deadline without another message.
ShutdownEnds == phase = "stopped" ~> phase = "down"

\* Until the first fault a queued job does not wait for another request: it is
\* claimed or ended, or the service stopped accepting work.
QueuedIsClaimed ==
    \A j \in Jobs : row[j].state = "queued" /\ phase = "serving"
                        ~> row[j].state # "queued" \/ phase # "serving" \/ faults < MaxFaults

\* Until the first fault a cancelled running job ends, through its worker's
\* answer or its parked outcome, also when the service is stopping.
CancelSettles ==
    \A j \in Jobs : row[j].state = "cancelling"
                        ~> row[j].state # "cancelling" \/ faults < MaxFaults

=============================================================================
