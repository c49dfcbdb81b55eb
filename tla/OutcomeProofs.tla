---------------------------- MODULE OutcomeProofs ----------------------------
(***************************************************************************)
(* Proofs about the outcomes of claims: those a service process holds (its *)
(* workers, its settlement slots and the completion holds it commits), the *)
(* revisions they publish, the attempts they leave, and that the rows      *)
(* implement the abstract JobContract.  For every value of the constants   *)
(* of JobPool.                                                             *)
(***************************************************************************)
EXTENDS JobPoolProofs

(***************************************************************************)
(* The inductive invariant.  JobKept is what the invariants to prove say   *)
(* of one job, and where the row of a parked outcome can be: an outcome    *)
(* whose hold is not committed still has its active row.                   *)
(***************************************************************************)
JobKept(j) ==
    /\ hold[j].body # "none" => Native(j) /\ Active(j) /\ hold[j].claim = row[j].claim
    /\ Live(j) => Active(j) /\ worker[j].claim = row[j].claim /\ row[j].claim.owner = proc
    /\ Parked(j) => /\ Native(j) /\ slot[j].claim = row[j].claim
                    /\ row[j].state \in ActiveStates \union Terminal
                    /\ slot[j].stored \/ Active(j)
    /\ ~(Live(j) /\ Parked(j))

\* Where the thread is agrees with the slots: it settles a parked outcome, what
\* it still has to drive is parked, and it restores before anything runs.
ThreadPlaced ==
    /\ pc.at \in {"remember", "settle"} => pc.job \in Jobs /\ Parked(pc.job)
    /\ pc.at = "remember" => ~slot[pc.job].stored
    /\ pc.at = "settle" => slot[pc.job].stored
    /\ pc.at \in {"signal", "schedule"} \/ pc.via = "launch" => pc.todo = {}
    /\ pc.via = "launch" => pc.at \in {"remember", "settle"}
    /\ pc.at # "restore" => \A k \in pc.todo : Parked(k) /\ k # pc.job
    /\ pc.at = "restore" => phase = "serving" /\ (\A j \in Jobs : ~Live(j))
                            /\ \A j \in pc.todo : ~Parked(j)
    /\ pc.at \in {"recover analysis", "recover translation"} => phase = "starting"

\* A process that does not serve has neither workers nor slots.
NothingInHand == phase \in {"down", "starting"} => \A j \in Jobs : ~Live(j) /\ ~Parked(j)

HoldInvariant ==
    TypeOK /\ (\A j \in Jobs : JobKept(j)) /\ ThreadPlaced /\ NothingInHand

\* The invariants the runs check follow from it.
LEMMA HoldInvariantImplies == HoldInvariant => HoldMatchesClaim /\ LeaseInHand
BY DEF HoldInvariant, JobKept, HoldMatchesClaim, LeaseInHand

\* Nothing is held before the first process starts.
LEMMA InitHolds == Init => HoldInvariant
<1> SUFFICES ASSUME Init PROVE HoldInvariant
    OBVIOUS
<1>1. ASSUME NEW j \in Jobs
      PROVE  hold[j].body = "none" /\ ~Live(j) /\ ~Parked(j)
    BY DEF Init, NoHold, NoWorker, NoSlot, Live, Parked
<1>2. pc.at = "wait" /\ pc.via = "none" /\ pc.todo = {}
    BY DEF Init, Wait
<1> QED BY <1>1, <1>2, InitTypes DEF HoldInvariant, JobKept, ThreadPlaced, NothingInHand

-----------------------------------------------------------------------------
(***************************************************************************)
(* What a step keeps of a job.                                             *)
(***************************************************************************)

\* The parts of a worker and of a slot that JobKept reads.
SameWorker(j) == worker'[j].claim = worker[j].claim /\ worker'[j].result = worker[j].result
SameSlot(j) == /\ slot'[j].claim = slot[j].claim
               /\ slot'[j].body = slot[j].body
               /\ slot'[j].stored = slot[j].stored
SameCatalog(j) == row'[j] = row[j] /\ hold'[j] = hold[j] /\ (proc' = proc \/ ~Live(j))
SameJob(j) == SameCatalog(j) /\ SameWorker(j) /\ SameSlot(j)

\* A job that a step leaves alone stays kept.
LEMMA SameJobKept == \A j \in Jobs : JobKept(j) /\ SameJob(j) => JobKept(j)'
BY DEF JobKept, SameJob, SameCatalog, SameWorker, SameSlot, Live, Parked, Active

\* Dropping the worker or the slot of a job that is otherwise left alone.
LEMMA DroppedKept ==
    \A j \in Jobs : /\ JobKept(j) /\ SameCatalog(j)
                    /\ worker'[j].result = "none" \/ SameWorker(j)
                    /\ slot'[j].body = "none" \/ SameSlot(j)
                    => JobKept(j)'
BY DEF JobKept, SameCatalog, SameWorker, SameSlot, Live, Parked, Active

\* A row that is not active has no worker and no hold; a queued or absent one
\* has no slot either.
LEMMA InactiveJob ==
    ASSUME NEW j \in Jobs, JobKept(j), ~Active(j)
    PROVE  /\ ~Live(j) /\ hold[j].body = "none"
           /\ row[j].state \notin Terminal => ~Parked(j)
BY DEF JobKept, Active

\* StopAll and Signalled change nothing but stop flags.
LEMMA StopsKeepWorkers ==
    ASSUME NEW w \in Pools, NEW S, NEW j \in Jobs
    PROVE  /\ StopAll(w)[j].claim = w[j].claim /\ StopAll(w)[j].result = w[j].result
           /\ Signalled(w, S)[j].claim = w[j].claim /\ Signalled(w, S)[j].result = w[j].result
<1>1. w[j] \in Workers
    BY DEF Pools
<1>2. [w[j] EXCEPT !.stop = TRUE].claim = w[j].claim
      /\ [w[j] EXCEPT !.stop = TRUE].result = w[j].result
    BY <1>1 DEF Workers
<1> QED BY <1>2 DEF StopAll, Signalled

\* A stopped service keeps its workers and slots.
LEMMA HaltKeeps ==
    ASSUME NEW w \in Pools, Halt(w)
    PROVE  /\ phase' = "stopped"
           /\ \A j \in Jobs : worker'[j].claim = w[j].claim /\ worker'[j].result = w[j].result
BY StopsKeepWorkers DEF Halt

\* A removed worker is gone and the others stay.
LEMMA RemovedWorkers ==
    ASSUME TypeOK, NEW j \in Jobs
    PROVE  /\ Removed(j)[j].result = "none"
           /\ \A k \in Jobs \ {j} : Removed(j)[k] = worker[k]
BY DEF TypeOK, Pools, Removed, NoWorker

\* A new state of one row.
LEMMA RowChange ==
    ASSUME TypeOK, NEW j \in Jobs, NEW s, row' = [row EXCEPT ![j].state = s]
    PROVE  /\ row'[j].state = s /\ row'[j].claim = row[j].claim
           /\ \A k \in Jobs \ {j} : row'[k] = row[k]
<1>1. row[j] \in Rows
    BY DEF TypeOK
<1> QED BY <1>1 DEF TypeOK, Rows

-----------------------------------------------------------------------------
(***************************************************************************)
(* Clients.                                                                *)
(***************************************************************************)

LEMMA ClientJobs == HoldInvariant /\ Client => \A j \in Jobs : JobKept(j)'
<1> SUFFICES ASSUME HoldInvariant, Client, NEW j \in Jobs PROVE JobKept(j)'
    OBVIOUS
<1>1. TypeOK /\ JobKept(j) /\ worker \in Pools /\ row[j] \in Rows
    BY DEF HoldInvariant, TypeOK
<1> USE DEF catalog, owners
<1>2. ASSUME row'[j] = row[j], hold' = hold, proc' = proc, SameWorker(j), slot' = slot
      PROVE  JobKept(j)'
    BY <1>1, <1>2, SameJobKept DEF SameJob, SameCatalog, SameSlot
<1>3. ASSUME ~Active(j), row[j].state \notin Terminal, hold' = hold, worker' = worker, slot' = slot
      PROVE  JobKept(j)'
    BY <1>1, <1>3, InactiveJob DEF JobKept, Live, Parked, Active
<1>4. ASSUME row[j].state = "absent", hold' = hold, worker' = worker, slot' = slot
      PROVE  JobKept(j)'
    BY <1>3, <1>4 DEF Active, ActiveStates, Terminal
<1>5. ASSUME NEW i \in Jobs, Enqueue(i) PROVE JobKept(j)'
    <2>1. i # j => row'[j] = row[j]
        BY <1>5 DEF Enqueue
    <2> QED BY <1>2, <1>4, <1>5, <2>1 DEF Enqueue, Admissible, SameWorker
<1>6. ASSUME NEW o \in Tasks \union {Standing}, NEW i \in Jobs, Join(o, i) PROVE JobKept(j)'
    <2>1. row'[j] = row[j] \/ row[j].state = "absent"
        <3>1. row' = row \/ (row' = [row EXCEPT ![i] = Queued(i)] /\ row[i].state = "absent")
            BY <1>6 DEF Join, Admissible
        <3> QED BY <1>1, <3>1 DEF TypeOK
    <2> QED BY <1>2, <1>4, <1>6, <2>1 DEF Join, SameWorker
<1>7. ASSUME row'[j].claim = row[j].claim, proc' = proc, hold' = hold, SameWorker(j), slot' = slot,
             Active(j), Active(j)'
      PROVE  JobKept(j)'
    BY <1>1, <1>7 DEF JobKept, SameWorker, Live, Parked, Active, ActiveStates
<1>8. ASSUME row[j].state = "queued", hold' = hold, SameWorker(j), slot' = slot PROVE JobKept(j)'
    <2>1. ~Live(j) /\ ~Parked(j) /\ hold[j].body = "none"
        BY <1>1, <1>8, InactiveJob DEF Active, ActiveStates, Terminal
    <2> QED BY <1>8, <2>1 DEF JobKept, SameWorker, Live, Parked
<1>9. ASSUME NEW i \in Jobs, Cancel(i) PROVE JobKept(j)'
    <2>1. SameWorker(j)
        BY <1>1, <1>9, StopsKeepWorkers DEF Cancel, SameWorker
    <2>2. CASE i # j
        BY <1>2, <1>9, <2>1, <2>2 DEF Cancel
    <2>3. CASE i = j /\ row[j].state = "queued"
        BY <1>8, <1>9, <2>1, <2>3 DEF Cancel
    <2>4. CASE i = j /\ row[j].state # "queued"
        <3>1. row' = [row EXCEPT ![j].state = "cancelling"]
            BY <1>9, <2>4 DEF Cancel
        <3>2. Active(j) /\ Active(j)' /\ row'[j].claim = row[j].claim
            BY <1>1, <1>9, <2>4, <3>1, RowChange DEF Cancel, Open, Active, ActiveStates
        <3> QED BY <1>7, <1>9, <2>1, <3>2 DEF Cancel
    <2> QED BY <2>2, <2>3, <2>4
<1>10. ASSUME NEW t \in Tasks, Withdraw(t) PROVE JobKept(j)'
    <2>1. SameWorker(j)
        BY <1>1, <1>10, StopsKeepWorkers DEF Withdraw, SameWorker
    <2>2. \/ row'[j] = row[j]
          \/ row[j].state = "running" /\ row'[j].state = "cancelling" /\ row'[j].claim = row[j].claim
          \/ row[j].state = "queued"
        BY <1>1, <1>10 DEF Withdraw, Rows
    <2>3. hold' = hold /\ proc' = proc /\ slot' = slot
        BY <1>10 DEF Withdraw
    <2> QED BY <1>2, <1>7, <1>8, <2>1, <2>2, <2>3 DEF Active, ActiveStates
<1>11. ASSUME NEW l \in Lineages, Repin(l) \/ Correct(l) PROVE JobKept(j)'
    BY <1>2, <1>11 DEF Repin, Correct, SameWorker
<1>12. ASSUME StopService PROVE JobKept(j)'
    BY <1>1, <1>2, <1>12, HaltKeeps DEF StopService, SameWorker
<1> QED BY <1>5, <1>6, <1>9, <1>10, <1>11, <1>12 DEF Client

-----------------------------------------------------------------------------
(***************************************************************************)
(* Scheduling, workers and arrivals.                                       *)
(***************************************************************************)

LEMMA SchedulingJobs == HoldInvariant /\ Scheduling => \A j \in Jobs : JobKept(j)'
<1> SUFFICES ASSUME HoldInvariant, Scheduling, NEW j \in Jobs PROVE JobKept(j)'
    OBVIOUS
<1>1. TypeOK /\ JobKept(j) /\ worker \in Pools /\ row \in [Jobs -> Rows]
      /\ slot \in [Jobs -> Slots] /\ hold \in [Jobs -> Holds]
    BY DEF HoldInvariant, TypeOK
<1> USE DEF catalog, owners
<1>2. ASSUME row'[j] = row[j], hold' = hold, proc' = proc, SameWorker(j), slot'[j] = slot[j]
      PROVE  JobKept(j)'
    BY <1>1, <1>2, SameJobKept DEF SameJob, SameCatalog, SameSlot
<1>3. ASSUME Picks(j)
      PROVE  row[j].state = "queued" /\ ~Live(j) /\ ~Parked(j) /\ hold[j].body = "none"
    BY <1>1, <1>3, InactiveJob DEF Picks, Candidates, Active, ActiveStates, Terminal
<1>4. ASSUME Picks(j), hold' = hold, SameWorker(j), slot'[j] = slot[j] PROVE JobKept(j)'
    BY <1>3, <1>4 DEF JobKept, SameWorker, Live, Parked
<1>5. ASSUME SignalDurableStops PROVE JobKept(j)'
    BY <1>1, <1>2, <1>5, StopsKeepWorkers DEF SignalDurableStops, SameWorker
<1>6. ASSUME NextKind \/ DecoderMissing PROVE JobKept(j)'
    BY <1>2, <1>6 DEF NextKind, DecoderMissing, SameWorker
<1>7. ASSUME NEW i \in Jobs, ClaimEnds(i) PROVE JobKept(j)'
    <2>1. i # j => row'[j] = row[j]
        BY <1>7 DEF ClaimEnds
    <2> QED BY <1>2, <1>4, <1>7, <2>1 DEF ClaimEnds, SameWorker
<1>8. ASSUME NEW i \in Jobs
      PROVE  /\ Claimed(i)[i].state = "running" /\ Claimed(i)[i].claim = Lease(i)
             /\ Lease(i).owner = proc
             /\ \A k \in Jobs \ {i} : Claimed(i)[k] = row[k]
    <2>1. row[i] \in Rows /\ row[i].claim \in Claims
        BY <1>1 DEF Rows
    <2>2. Lease(i).owner = proc
        BY <2>1 DEF Lease, Claims
    <2>3. Claimed(i) = [row EXCEPT ![i] = [row[i] EXCEPT !.state = "running", !.claim = Lease(i)]]
        BY DEF Claimed
    <2> QED BY <1>1, <2>1, <2>2, <2>3 DEF Rows
<1>9. ASSUME NEW i \in Jobs, Launch(i) PROVE JobKept(j)'
    <2>1. worker'[i] = Launched(i) /\ \A k \in Jobs \ {i} : worker'[k] = worker[k]
        BY <1>1, <1>9 DEF Launch, Pools
    <2>2. CASE i # j
        BY <1>2, <1>8, <1>9, <2>1, <2>2 DEF Launch, SameWorker
    <2>3. CASE i = j
        <3>1. hold'[j].body = "none" /\ slot'[j].body = "none"
            BY <1>3, <1>9, <2>3 DEF Launch, Parked
        <3>2. row'[j].state = "running" /\ row'[j].claim = Lease(j) /\ Lease(j).owner = proc'
            BY <1>8, <1>9, <2>3 DEF Launch
        <3>3. worker'[j].claim = Lease(j)
            BY <2>1, <2>3 DEF Launched
        <3> QED BY <3>1, <3>2, <3>3 DEF JobKept, Live, Parked, Active, ActiveStates
    <2> QED BY <2>2, <2>3
<1>10. ASSUME NEW i \in Jobs, LaunchParks(i) PROVE JobKept(j)'
    <2>1. /\ slot'[i].claim = Lease(i) /\ slot'[i].body = "failed"
          /\ \A k \in Jobs \ {i} : slot'[k] = slot[k]
        BY <1>1, <1>10 DEF LaunchParks, NoSlot
    <2>2. CASE i # j
        BY <1>2, <1>8, <1>10, <2>1, <2>2 DEF LaunchParks, SameWorker
    <2>3. CASE i = j
        <3>1. hold'[j].body = "none" /\ worker'[j].result = "none"
            BY <1>3, <1>10, <2>3 DEF LaunchParks, Live
        <3>2. row'[j].state = "running" /\ row'[j].claim = Lease(j) /\ Native(j)
            BY <1>8, <1>10, <2>3 DEF LaunchParks
        <3> QED BY <2>1, <2>3, <3>1, <3>2 DEF JobKept, Live, Parked, Active, ActiveStates
    <2> QED BY <2>2, <2>3
<1>11. ASSUME NEW i \in Jobs, ClaimFails(i) PROVE JobKept(j)'
    <2>1. SameWorker(j)
        BY <1>1, <1>11, HaltKeeps DEF ClaimFails, PassError, SameWorker
    <2>2. i # j => row'[j] = row[j]
        <3>1. ASSUME i # j, row' = [Claimed(i) EXCEPT ![i].state = "failed"]
              PROVE  row'[j] = Claimed(i)[j]
            BY <3>1, LeaseType, <1>1
        <3> QED BY <1>8, <1>11, <3>1 DEF ClaimFails
    <2>3. Picks(i) /\ hold' = hold /\ proc' = proc /\ slot' = slot
        BY <1>11 DEF ClaimFails
    <2> QED BY <1>2, <1>4, <2>1, <2>2, <2>3
<1> QED BY <1>5, <1>6, <1>7, <1>9, <1>10, <1>11 DEF Scheduling

LEMMA WorkingJobs ==
    HoldInvariant /\ (\E i \in Jobs : Working(i)) => \A j \in Jobs : JobKept(j)'
<1> SUFFICES ASSUME HoldInvariant, NEW i \in Jobs, Working(i), NEW j \in Jobs PROVE JobKept(j)'
    OBVIOUS
<1>1. TypeOK /\ JobKept(j) /\ worker[i] \in Workers /\ worker \in Pools
    BY DEF HoldInvariant, TypeOK, Pools
<1>2. PICK r \in Bodies \union {"undrained"} :
         worker[i].result = "busy" /\ worker' = [worker EXCEPT ![i] = [worker[i] EXCEPT !.result = r]]
    BY DEF Working, WorkerEnds, WorkerUndrained
<1>3. row' = row /\ hold' = hold /\ proc' = proc /\ slot' = slot
    BY DEF Working, WorkerEnds, WorkerUndrained, catalog
<1>4. CASE i # j
    <2>1. worker'[j] = worker[j]
        BY <1>1, <1>2, <1>4 DEF Pools
    <2> QED BY <1>1, <1>3, <2>1, SameJobKept DEF SameJob, SameCatalog, SameWorker, SameSlot
<1>5. CASE i = j
    <2>1. worker'[j].claim = worker[j].claim /\ Live(j)
        BY <1>1, <1>2, <1>5 DEF Pools, Workers, Live
    <2> QED BY <1>1, <1>3, <2>1 DEF JobKept, Live, Parked, Active
<1> QED BY <1>4, <1>5

LEMMA ArrivingJobs ==
    HoldInvariant /\ (\E i \in Jobs : Arriving(i)) => \A j \in Jobs : JobKept(j)'
<1> SUFFICES ASSUME HoldInvariant, NEW i \in Jobs, Arriving(i), NEW j \in Jobs PROVE JobKept(j)'
    OBVIOUS
<1>1. TypeOK /\ JobKept(j) /\ JobKept(i) /\ slot \in [Jobs -> Slots] /\ Removed(i) \in Pools
    BY RemovedType DEF HoldInvariant, TypeOK
<1>2. hold' = hold /\ proc' = proc
    BY DEF Arriving, FinishVerification, FinishVerificationFails, ArriveNative, catalog, owners
<1>3. /\ i = j => worker'[j].result = "none"
      /\ i # j => SameWorker(j)
    <2>1. worker' = Removed(i) \/ Halt(Removed(i))
        BY DEF Arriving, FinishVerification, FinishVerificationFails, ArriveNative
    <2> QED BY <1>1, <2>1, RemovedWorkers, HaltKeeps DEF SameWorker
<1>4. CASE FinishVerification(i) \/ FinishVerificationFails(i)
    <2>1. slot' = slot /\ ~Native(i)
        BY <1>4 DEF FinishVerification, FinishVerificationFails
    <2>2. i # j => row'[j] = row[j]
        <3>1. row' \in {row, VerificationRow(i)}
            BY <1>4 DEF FinishVerification, FinishVerificationFails
        <3>2. \/ VerificationRow(i) = row
              \/ VerificationRow(i) = [row EXCEPT ![i].state = VerificationOutcome(i)]
            BY DEF VerificationRow
        <3> QED BY <1>1, <3>1, <3>2, RowChange
    <2>3. CASE i # j
        BY <1>1, <1>2, <1>3, <2>1, <2>2, <2>3, SameJobKept DEF SameJob, SameCatalog, SameSlot
    <2>4. CASE i = j
        <3>1. hold[j].body = "none" /\ ~Parked(j)
            BY <1>1, <2>1, <2>4 DEF JobKept
        <3> QED BY <1>2, <1>3, <2>1, <2>4, <3>1 DEF JobKept, Live, Parked
    <2> QED BY <2>3, <2>4
<1>5. CASE ArriveNative(i)
    <2>1. row' = row
        BY <1>5 DEF ArriveNative, catalog
    <2>2. CASE slot'[j] = slot[j]
        BY <1>1, <1>2, <1>3, <2>1, <2>2, DroppedKept DEF SameCatalog, SameSlot
    <2>3. CASE slot'[j] # slot[j]
        <3>1. i = j /\ slot' = [slot EXCEPT ![j] = [NoSlot EXCEPT !.claim = worker[j].claim,
                                                                  !.body = worker[j].result]]
            BY <1>1, <1>5, <2>3 DEF ArriveNative
        <3>2. slot'[j].claim = worker[j].claim
            BY <1>1, <3>1 DEF NoSlot
        <3>3. Live(j) /\ Native(j)
            BY <1>5, <3>1 DEF ArriveNative, Arrived, Live
        <3> QED BY <1>1, <1>2, <1>3, <2>1, <3>1, <3>2, <3>3 DEF JobKept, Live, Parked, Active
    <2> QED BY <2>2, <2>3
<1> QED BY <1>4, <1>5 DEF Arriving

-----------------------------------------------------------------------------
(***************************************************************************)
(* Settlement.                                                             *)
(***************************************************************************)

\* A settlement step leaves every other slot, and never takes a worker.
OnlySlot(j) ==
    /\ \A k \in Jobs \ {j} : slot'[k] = slot[k]
    /\ \A k \in Jobs : SameWorker(k)

\* Slot j is gone, or it still holds the same outcome.
SlotAfter(j) ==
    \/ slot'[j].body = "none"
    \/ /\ slot'[j].claim = slot[j].claim
       /\ slot'[j].body = slot[j].body
       /\ slot[j].stored => slot'[j].stored

\* A slot value that holds the outcome of slot j.
Variant(s, j) == s \in Slots /\ s.claim = slot[j].claim /\ s.body = slot[j].body
                             /\ s.stored = slot[j].stored

\* The slot updates of busy and uncertain attempts change no outcome.
LEMMA SlotVariants ==
    ASSUME TypeOK, NEW j \in Jobs
    PROVE  /\ Variant(slot[j], j)
           /\ Variant([slot[j] EXCEPT !.tries = @ + 1], j)
           /\ Variant([slot[j] EXCEPT !.wait = TRUE], j)
           /\ Variant([Tried(j) EXCEPT !.wait = TRUE], j)
<1>1. slot[j] \in Slots /\ slot[j].tries + 1 \in Nat
    BY DEF TypeOK, Slots
<1> QED BY <1>1 DEF Variant, Slots, Tried

\* How a settlement step of slot j may end.
LEMMA StepOutcomes ==
    ASSUME TypeOK, NEW j \in Jobs, NEW s, Variant(s, j)
    PROVE  /\ StepCommitted(j) => OnlySlot(j) /\ slot'[j].body = "none"
           /\ StepRefused(j) => OnlySlot(j) /\ slot'[j].body = "none"
           /\ StepWaits(j, s) => OnlySlot(j) /\ SlotAfter(j)
           /\ Stored(j) => OnlySlot(j) /\ slot'[j].claim = slot[j].claim
                                      /\ slot'[j].body = slot[j].body /\ slot'[j].stored
           /\ AfterFailure(j, s) => OnlySlot(j) /\ SlotAfter(j)
<1>1. slot \in [Jobs -> Slots] /\ worker \in Pools /\ NoSlot.body = "none"
    BY DEF TypeOK, NoSlot
<1>2. StepCommitted(j) => OnlySlot(j) /\ slot'[j].body = "none"
    BY <1>1 DEF StepCommitted, OnlySlot, SameWorker
<1>3. StepRefused(j) => OnlySlot(j) /\ slot'[j].body = "none"
    <2>1. StepRefused(j) => \A k \in Jobs : SameWorker(k)
        BY <1>1, HaltKeeps DEF StepRefused, SameWorker
    <2>2. StepRefused(j) => slot' = [slot EXCEPT ![j] = NoSlot]
        BY DEF StepRefused
    <2> QED BY <1>1, <2>1, <2>2 DEF OnlySlot
<1>4. StepWaits(j, s) => OnlySlot(j) /\ SlotAfter(j)
    BY <1>1 DEF StepWaits, OnlySlot, SlotAfter, SameWorker, Variant
<1>5. Stored(j) => OnlySlot(j) /\ slot'[j].claim = slot[j].claim
                               /\ slot'[j].body = slot[j].body /\ slot'[j].stored
    <2>1. slot[j] \in Slots
        BY <1>1
    <2> QED BY <1>1, <2>1 DEF Stored, OnlySlot, SameWorker, Slots
<1> QED BY <1>2, <1>3, <1>4, <1>5 DEF AfterFailure, SlotAfter

\* What settles slot j leaves every other job alone.
LEMMA OtherJobsKept ==
    ASSUME HoldInvariant, NEW j \in Jobs, OnlySlot(j), proc' = proc,
           \A k \in Jobs \ {j} : row'[k] = row[k] /\ hold'[k] = hold[k]
    PROVE  \A k \in Jobs \ {j} : JobKept(k)'
BY SameJobKept DEF HoldInvariant, OnlySlot, SameJob, SameCatalog, SameSlot

\* A finish writes one row and ends it; no hold of that job is left.
LEMMA PublishKeeps ==
    ASSUME HoldInvariant, NEW j \in Jobs, Parked(j), Active(j), row[j].claim = slot[j].claim,
           Publish(j)
    PROVE  /\ row'[j].state \in Terminal /\ row'[j].claim = row[j].claim
           /\ hold'[j].body = "none"
           /\ \A k \in Jobs \ {j} : row'[k] = row[k] /\ hold'[k] = hold[k]
<1>1. TypeOK /\ JobKept(j) /\ hold \in [Jobs -> Holds] /\ NoHold.body = "none"
    BY DEF HoldInvariant, TypeOK, NoHold
<1>2. TerminalOutcome(j) \in Terminal
    BY DEF TerminalOutcome, Terminal
<1>3. row' = [row EXCEPT ![j].state = TerminalOutcome(j)] /\ hold' = HoldFinished(j)
    BY DEF Publish
<1>4. hold'[j].body = "none" /\ \A k \in Jobs \ {j} : hold'[k] = hold[k]
    BY <1>1, <1>3 DEF HoldFinished, JobKept
<1> QED BY <1>1, <1>2, <1>3, <1>4, RowChange

\* Discarding a hold leaves the job without its hold or with the same one.
LEMMA DiscardKeeps ==
    ASSUME TypeOK, NEW j \in Jobs, hold' \in {hold, DiscardHold(j)}
    PROVE  /\ hold'[j] = hold[j] \/ hold'[j].body = "none"
           /\ \A k \in Jobs \ {j} : hold'[k] = hold[k]
BY DEF TypeOK, DiscardHold, NoHold

\* The job whose slot a step advances stays kept when its row keeps its claim
\* and its hold is gone, is unchanged, or becomes the outcome in the slot.
LEMMA SettledKept ==
    ASSUME HoldInvariant, NEW j \in Jobs, Parked(j), OnlySlot(j), SlotAfter(j), proc' = proc,
           row'[j].claim = row[j].claim,
           \/ row'[j] = row[j]
           \/ row'[j].state \in Terminal /\ slot[j].stored /\ hold'[j].body = "none",
           \/ hold'[j].body = "none"
           \/ hold'[j] = hold[j]
           \/ hold'[j] = HoldBody(j) /\ Active(j)
    PROVE  JobKept(j)'
<1>1. JobKept(j) /\ SameWorker(j)
    BY DEF HoldInvariant, OnlySlot
<1>2. ~Live(j)' /\ Native(j) /\ slot[j].claim = row[j].claim
    BY <1>1 DEF JobKept, SameWorker, Live
<1>3. hold'[j].body # "none" => Active(j)' /\ hold'[j].claim = row'[j].claim
    BY <1>1, <1>2 DEF JobKept, HoldBody, Active
<1>4. Parked(j)' => /\ slot'[j].claim = row'[j].claim
                    /\ row'[j].state \in ActiveStates \union Terminal
                    /\ slot'[j].stored \/ Active(j)'
    BY <1>1, <1>2 DEF JobKept, SlotAfter, Parked, Active
<1> QED BY <1>2, <1>3, <1>4 DEF JobKept

LEMMA SettlementJobs == HoldInvariant /\ Settlement => \A j \in Jobs : JobKept(j)'
<1> SUFFICES ASSUME HoldInvariant, Settlement PROVE \A j \in Jobs : JobKept(j)'
    OBVIOUS
<1>1. TypeOK /\ slot \in [Jobs -> Slots] /\ hold \in [Jobs -> Holds]
    BY DEF HoldInvariant, TypeOK
<1> USE DEF catalog, owners, unpublished
<1>2. ASSUME NEW j \in Jobs, row' = row, hold' = hold, proc' = proc, slot' = slot, worker' = worker
      PROVE  \A k \in Jobs : JobKept(k)'
    BY <1>2, SameJobKept DEF HoldInvariant, SameJob, SameCatalog, SameWorker, SameSlot
<1>3. ASSUME NEW j \in Jobs, Parked(j), OnlySlot(j), SlotAfter(j), proc' = proc, row' = row,
             \A k \in Jobs \ {j} : hold'[k] = hold[k],
             \/ hold'[j].body = "none"
             \/ hold'[j] = hold[j]
             \/ hold'[j] = HoldBody(j) /\ Active(j)
      PROVE  \A k \in Jobs : JobKept(k)'
    <2>1. JobKept(j)'
        BY <1>3, SettledKept
    <2>2. \A k \in Jobs \ {j} : JobKept(k)'
        BY <1>3, OtherJobsKept
    <2> QED BY <2>1, <2>2
<1>4. ASSUME NEW j \in Jobs, Remembering(j)
      PROVE  Parked(j) /\ ~slot[j].stored /\ Active(j)
    BY <1>4 DEF Remembering, HoldInvariant, ThreadPlaced, JobKept
<1>5. ASSUME NEW j \in Jobs, Settling(j)
      PROVE  Parked(j) /\ slot[j].stored
    BY <1>5 DEF Settling, HoldInvariant, ThreadPlaced
<1>6. ASSUME NEW j \in Jobs, HoldFits(j), hold' \in {hold, PutHold(j)}
      PROVE  /\ hold'[j].body = "none" \/ hold'[j] = hold[j] \/ hold'[j] = HoldBody(j)
             /\ \A k \in Jobs \ {j} : hold'[k] = hold[k]
    BY <1>1, <1>6 DEF PutHold
<1>7. ASSUME NEW j \in Jobs, DriveSlot(j) \/ DriveEnds PROVE \A k \in Jobs : JobKept(k)'
    BY <1>2, <1>7 DEF DriveSlot, DriveEnds
<1>8. ASSUME NEW j \in Jobs, RememberHold(j) PROVE \A k \in Jobs : JobKept(k)'
    <2>1. Parked(j) /\ Active(j) /\ proc' = proc /\ row' = row
        BY <1>4, <1>8 DEF RememberHold
    <2>2. OnlySlot(j) /\ SlotAfter(j)
        BY <1>1, <1>8, StepOutcomes, SlotVariants DEF RememberHold, SlotAfter
    <2>3. (HoldFits(j) /\ hold' = PutHold(j)) \/ hold' = hold
        BY <1>8 DEF RememberHold
    <2> QED BY <1>3, <1>6, <2>1, <2>2, <2>3
<1>9. ASSUME NEW j \in Jobs, RememberBusy(j) \/ RememberRefused(j)
      PROVE  \A k \in Jobs : JobKept(k)'
    <2>1. Parked(j) /\ proc' = proc /\ row' = row /\ hold' = hold
        BY <1>4, <1>9 DEF RememberBusy, RememberRefused
    <2>2. OnlySlot(j) /\ SlotAfter(j)
        BY <1>1, <1>9, StepOutcomes, SlotVariants DEF RememberBusy, RememberRefused, SlotAfter
    <2> QED BY <1>3, <2>1, <2>2
<1>10. ASSUME NEW j \in Jobs, RememberUncertain(j) PROVE \A k \in Jobs : JobKept(k)'
    <2>1. Parked(j) /\ Active(j) /\ proc' = proc /\ row' = row
        BY <1>4, <1>10 DEF RememberUncertain
    <2>2. OnlySlot(j) /\ SlotAfter(j)
        BY <1>1, <1>10, StepOutcomes, SlotVariants DEF RememberUncertain, SlotAfter
    <2>3. HoldFits(j) /\ hold' \in {hold, PutHold(j)}
        BY <1>10 DEF RememberUncertain
    <2> QED BY <1>3, <1>6, <2>1, <2>2, <2>3
<1>11. ASSUME NEW j \in Jobs, SettleWaits(j) \/ SettleBusy(j) PROVE \A k \in Jobs : JobKept(k)'
    <2>1. Parked(j) /\ proc' = proc /\ row' = row /\ hold' = hold
        BY <1>5, <1>11 DEF SettleWaits, SettleBusy, Attempting
    <2>2. OnlySlot(j) /\ SlotAfter(j)
        BY <1>1, <1>11, StepOutcomes, SlotVariants DEF SettleWaits, SettleBusy, Tried
    <2> QED BY <1>3, <2>1, <2>2
<1>12. ASSUME NEW j \in Jobs, Parked(j), slot[j].stored, Publish(j), Active(j), ~FinishRefuses(j),
              OnlySlot(j), SlotAfter(j), proc' = proc
       PROVE  \A k \in Jobs : JobKept(k)'
    <2>1. row[j].claim = slot[j].claim
        BY <1>12 DEF FinishRefuses
    <2>2. JobKept(j)'
        BY <1>12, <2>1, PublishKeeps, SettledKept
    <2>3. \A k \in Jobs \ {j} : JobKept(k)'
        BY <1>12, <2>1, PublishKeeps, OtherJobsKept
    <2> QED BY <2>2, <2>3
<1>13. ASSUME NEW j \in Jobs, Settle(j) PROVE \A k \in Jobs : JobKept(k)'
    <2>1. Parked(j) /\ slot[j].stored /\ proc' = proc
        BY <1>5, <1>13 DEF Settle, Attempting
    <2>2. OnlySlot(j) /\ SlotAfter(j)
        BY <1>1, <1>13, StepOutcomes, SlotVariants DEF Settle, SlotAfter
    <2>3. CASE FinishRefuses(j)
        BY <1>1, <1>3, <1>13, <2>1, <2>2, <2>3, DiscardKeeps DEF Settle
    <2>4. CASE ~FinishRefuses(j) /\ Active(j)
        BY <1>12, <1>13, <2>1, <2>2, <2>4 DEF Settle
    <2>5. CASE ~FinishRefuses(j) /\ ~Active(j)
        BY <1>3, <1>13, <2>1, <2>2, <2>5 DEF Settle
    <2> QED BY <2>3, <2>4, <2>5
<1>14. ASSUME NEW j \in Jobs, SettleUncertain(j) PROVE \A k \in Jobs : JobKept(k)'
    <2>1. Parked(j) /\ slot[j].stored /\ proc' = proc /\ Active(j) /\ ~FinishRefuses(j)
        BY <1>5, <1>14 DEF SettleUncertain, Attempting
    <2>2. OnlySlot(j) /\ SlotAfter(j)
        BY <1>1, <1>14, StepOutcomes, SlotVariants DEF SettleUncertain, SlotAfter
    <2>3. CASE Publish(j)
        BY <1>12, <2>1, <2>2, <2>3
    <2>4. CASE row' = row /\ hold' = hold
        BY <1>3, <2>1, <2>2, <2>4
    <2> QED BY <1>14, <2>3, <2>4 DEF SettleUncertain
<1>15. ASSUME NEW j \in Jobs, SettleRefused(j) PROVE \A k \in Jobs : JobKept(k)'
    <2>1. Parked(j) /\ proc' = proc /\ row' = row /\ hold' \in {hold, DiscardHold(j)}
        BY <1>5, <1>15 DEF SettleRefused, Attempting
    <2>2. OnlySlot(j) /\ SlotAfter(j)
        BY <1>1, <1>15, StepOutcomes, SlotVariants DEF SettleRefused, SlotAfter
    <2> QED BY <1>1, <1>3, <2>1, <2>2, DiscardKeeps
<1> QED BY <1>7, <1>8, <1>9, <1>10, <1>11, <1>13, <1>14, <1>15 DEF Settlement

-----------------------------------------------------------------------------
(***************************************************************************)
(* Recovery, restore and the life of a process.                            *)
(***************************************************************************)

LEMMA StartingJobs == HoldInvariant /\ Starting => \A j \in Jobs : JobKept(j)'
<1> SUFFICES ASSUME HoldInvariant, Starting, NEW j \in Jobs PROVE JobKept(j)'
    OBVIOUS
<1>1. /\ TypeOK /\ JobKept(j) /\ worker \in Pools /\ NoHold.body = "none"
      /\ slot \in [Jobs -> Slots] /\ hold \in [Jobs -> Holds]
    BY DEF HoldInvariant, TypeOK, NoHold
<1> USE DEF catalog, owners
<1>2. ASSUME row'[j] = row[j], hold'[j] = hold[j], proc' = proc, SameWorker(j), slot'[j] = slot[j]
      PROVE  JobKept(j)'
    BY <1>1, <1>2, SameJobKept DEF SameJob, SameCatalog, SameSlot
<1>3. RestoreError \/ worker' = worker => SameWorker(j)
    BY <1>1, HaltKeeps DEF RestoreError, SameWorker
<1>4. ASSUME NEW f \in Families, Recover(f) PROVE JobKept(j)'
    <2>1. ~Live(j) /\ ~Parked(j)
        BY <1>4 DEF HoldInvariant, ThreadPlaced, NothingInHand, Recover
    <2>2. worker' = worker /\ slot' = slot
        BY <1>4 DEF Recover
    <2>3. CASE j \in Lost(f)
        <3>1. hold'[j] = NoHold
            BY <1>4, <2>3 DEF Recover
        <3> QED BY <1>1, <2>1, <2>2, <3>1 DEF JobKept, Live, Parked
    <2>4. CASE j \notin Lost(f)
        <3>1. row'[j] = row[j] /\ hold'[j] = hold[j] /\ proc' = proc
            BY <1>4, <2>4 DEF Recover, Ended
        <3> QED BY <1>2, <2>2, <3>1 DEF SameWorker
    <2> QED BY <2>3, <2>4
<1>5. ASSUME NEW i \in Jobs, RestoreSlot(i) PROVE JobKept(j)'
    <2>1. row' = row /\ hold' = hold /\ proc' = proc /\ SameWorker(j)
        BY <1>3, <1>5 DEF RestoreSlot, NextHold
    <2>2. CASE slot'[j] = slot[j]
        BY <1>2, <2>1, <2>2
    <2>3. CASE slot'[j] # slot[j]
        <3>1. /\ i = j
              /\ slot' = [slot EXCEPT ![j] = [NoSlot EXCEPT !.claim = row[j].claim,
                                                           !.body = hold[j].body,
                                                           !.stored = TRUE]]
            BY <1>1, <1>5, <2>3 DEF RestoreSlot
        <3>2. slot'[j].claim = row[j].claim /\ slot'[j].body = hold[j].body /\ slot'[j].stored
            BY <1>1, <3>1 DEF NoSlot
        <3>3. Active(j) /\ ~Live(j)
            BY <1>5, <3>1 DEF RestoreSlot, Resumable, Restoring, HoldInvariant, ThreadPlaced
        <3> QED BY <1>1, <2>1, <3>2, <3>3 DEF JobKept, SameWorker, Live, Parked, Active
    <2> QED BY <2>2, <2>3
<1>6. ASSUME NEW i \in Jobs, RestoreReleases(i) PROVE JobKept(j)'
    <2>1. slot' = slot /\ proc' = proc /\ SameWorker(j)
        BY <1>3, <1>6 DEF RestoreReleases, NextHold
    <2>2. \/ row'[j] = row[j] /\ hold'[j] = hold[j]
          \/ i = j /\ hold'[j] = NoHold
        BY <1>1, <1>6, RowChange DEF RestoreReleases
    <2>3. CASE row'[j] = row[j] /\ hold'[j] = hold[j]
        BY <1>2, <2>1, <2>3
    <2>4. CASE i = j /\ hold'[j] = NoHold
        <3>1. ~Live(j) /\ ~Parked(j)
            BY <1>6, <2>4 DEF RestoreReleases, Restoring, HoldInvariant, ThreadPlaced
        <3> QED BY <1>1, <2>1, <2>4, <3>1 DEF JobKept, SameWorker, Live, Parked
    <2> QED BY <2>2, <2>3, <2>4
<1>7. ASSUME RestoreFails \/ RestoreEnds PROVE JobKept(j)'
    BY <1>2, <1>3, <1>7 DEF RestoreFails, RestoreEnds
<1> QED BY <1>4, <1>5, <1>6, <1>7 DEF Starting

LEMMA LifeJobs ==
    /\ HoldInvariant
    /\ (\E j \in Jobs : SlotExpires(j)) \/ DriveTurn \/ Boot \/ Shutdown \/ Exit \/ Crash
    => \A j \in Jobs : JobKept(j)'
<1> SUFFICES ASSUME HoldInvariant, NEW j \in Jobs,
                    (\E k \in Jobs : SlotExpires(k)) \/ DriveTurn \/ Boot \/ Shutdown \/ Exit \/ Crash
             PROVE  JobKept(j)'
    OBVIOUS
<1>1. JobKept(j) /\ worker \in Pools /\ slot \in [Jobs -> Slots]
    BY DEF HoldInvariant, TypeOK
<1> USE DEF catalog, owners
<1>2. ASSUME NEW k \in Jobs, SlotExpires(k) PROVE JobKept(j)'
    <2>1. slot[k] \in Slots
        BY <1>1
    <2>2. SameSlot(j)
        BY <1>1, <1>2, <2>1 DEF SlotExpires, SameSlot, Slots
    <2> QED BY <1>1, <1>2, <2>2, SameJobKept DEF SlotExpires, SameJob, SameCatalog, SameWorker
<1>3. CASE DriveTurn \/ Exit
    BY <1>1, <1>3, SameJobKept DEF DriveTurn, Exit, SameJob, SameCatalog, SameWorker, SameSlot
<1>4. CASE Shutdown
    BY <1>1, <1>4, SameJobKept, HaltKeeps DEF Shutdown, SameJob, SameCatalog, SameWorker, SameSlot
<1>5. CASE Boot
    <2>1. ~Live(j)
        BY <1>5 DEF Boot, HoldInvariant, NothingInHand
    <2> QED BY <1>1, <1>5, <2>1, SameJobKept DEF Boot, SameJob, SameCatalog, SameWorker, SameSlot
<1>6. CASE Crash
    <2>1. worker'[j].result = "none" /\ slot'[j].body = "none"
        BY <1>6 DEF Crash, NoWorker, NoSlot
    <2> QED BY <1>1, <1>6, <2>1, DroppedKept DEF Crash, SameCatalog
<1> QED BY <1>2, <1>3, <1>4, <1>5, <1>6

-----------------------------------------------------------------------------
(***************************************************************************)
(* Where the thread goes.                                                  *)
(***************************************************************************)

\* The places a turn ends at agree with any slots.
LEMMA TurnEnds ==
    ASSUME NEW b, pc' \in {Wait, Turn(slot'), SchedulePass(b)}
    PROVE  ThreadPlaced'
<1>1. CASE pc' = Wait
    BY <1>1 DEF Wait, ThreadPlaced
<1>2. CASE pc' = SchedulePass(b)
    BY <1>2 DEF Wait, SchedulePass, ThreadPlaced
<1>3. CASE pc' = Turn(slot') /\ pc' # Wait
    <2>1. pc' = [Wait EXCEPT !.at = "drive", !.todo = {k \in Jobs : Parked(k)'}]
        BY <1>3 DEF Turn, Parked
    <2>2. /\ pc'.at = "drive" /\ pc'.via = "none" /\ pc'.job = NoJob
          /\ pc'.todo = {k \in Jobs : Parked(k)'}
        BY <2>1 DEF Wait
    <2> QED BY <2>2, ConstantsAssumption DEF ThreadPlaced, ConstantsAssumption
<1> QED BY <1>1, <1>2, <1>3

\* A step of anyone else leaves the thread where it is.
LEMMA PlaceKept ==
    ASSUME TypeOK, ThreadPlaced, pc' = pc, phase' = phase,
           \A k \in Jobs : (Live(k)' => Live(k)) /\ SameSlot(k)
    PROVE  ThreadPlaced'
<1>1. pc.todo \subseteq Jobs
    BY DEF TypeOK, Threads
<1>2. \A k \in Jobs : (Parked(k)' <=> Parked(k)) /\ slot'[k].stored = slot[k].stored
    BY DEF SameSlot, Parked
<1> QED BY <1>1, <1>2 DEF ThreadPlaced

\* Nothing comes into the hands of a process that does not serve.
LEMMA HandKept ==
    ASSUME NothingInHand, phase' \in {"down", "starting"} => phase \in {"down", "starting"},
           \A k \in Jobs : (Live(k)' => Live(k)) /\ (Parked(k)' => Parked(k))
    PROVE  NothingInHand'
BY DEF NothingInHand

LEMMA ClientPlace == HoldInvariant /\ Client => ThreadPlaced' /\ NothingInHand'
<1> SUFFICES ASSUME HoldInvariant, Client PROVE ThreadPlaced' /\ NothingInHand'
    OBVIOUS
<1>1. phase' \notin {"down", "starting"}
    BY DEF Client, Enqueue, Join, Cancel, Withdraw, Repin, Correct, StopService, Halt
<1>2. pc' \in {Wait, Turn(slot'), SchedulePass("client")} \/ pc' = SchedulePass("tick")
    BY DEF Client, Enqueue, Join, Cancel, Withdraw, Repin, Correct, StopService, catalog
<1> QED BY <1>1, <1>2, TurnEnds DEF NothingInHand

LEMMA SchedulingPlace == HoldInvariant /\ Scheduling => ThreadPlaced' /\ NothingInHand'
<1> SUFFICES ASSUME HoldInvariant, Scheduling PROVE ThreadPlaced' /\ NothingInHand'
    OBVIOUS
<1>1. /\ TypeOK /\ ThreadPlaced /\ NothingInHand /\ worker \in Pools /\ pc \in Threads
      /\ slot \in [Jobs -> Slots]
    BY DEF HoldInvariant, TypeOK
<1>2. pc.at \in {"signal", "schedule"} /\ pc.todo = {} /\ pc.via # "launch"
    BY <1>1 DEF Scheduling, SignalDurableStops, NextKind, DecoderMissing, ClaimEnds, Launch,
                LaunchParks, ClaimFails, Picks, ThreadPlaced
<1>3. ASSUME pc'.at = "schedule", pc'.todo = {}, pc'.via # "launch" PROVE ThreadPlaced'
    BY <1>3 DEF ThreadPlaced
<1>4. NextClaim.at = pc.at /\ NextClaim.todo = {} /\ NextClaim.via # "launch"
    BY <1>1, <1>2 DEF NextClaim, Threads
<1>5. ASSUME slot' = slot, (\A k \in Jobs : SameWorker(k)), phase' \in {phase, "stopped"}
      PROVE  NothingInHand'
    BY <1>1, <1>5, HandKept DEF SameWorker, Live, Parked
<1>6. ASSUME SignalDurableStops PROVE ThreadPlaced' /\ NothingInHand'
    <2>1. pc'.at = "schedule" /\ pc'.todo = {} /\ pc'.via # "launch"
        BY <1>1, <1>2, <1>6 DEF SignalDurableStops, Threads
    <2>2. slot' = slot /\ (\A k \in Jobs : SameWorker(k)) /\ phase' = phase
        BY <1>1, <1>6, StopsKeepWorkers DEF SignalDurableStops, SameWorker
    <2> QED BY <1>3, <1>5, <2>1, <2>2
<1>7. ASSUME NEW x, pc' = [pc EXCEPT !.kind = x, !.claims = 0], pc.at = "schedule" PROVE ThreadPlaced'
    <2>1. pc'.at = "schedule" /\ pc'.todo = {} /\ pc'.via # "launch"
        BY <1>1, <1>2, <1>7 DEF Threads
    <2> QED BY <1>3, <2>1
<1>8. ASSUME pc' = AfterPass(pc.back, slot), slot' = slot PROVE ThreadPlaced'
    BY <1>8, TurnEnds DEF AfterPass
<1>9. ASSUME NextKind \/ DecoderMissing PROVE ThreadPlaced' /\ NothingInHand'
    <2>1. slot' = slot /\ worker' = worker /\ phase' = phase
        BY <1>9 DEF NextKind, DecoderMissing
    <2>2. ThreadPlaced'
        BY <1>7, <1>8, <1>9, <2>1 DEF NextKind, DecoderMissing
    <2> QED BY <1>5, <2>1, <2>2 DEF SameWorker
<1>10. ASSUME NEW j \in Jobs, ClaimEnds(j) PROVE ThreadPlaced' /\ NothingInHand'
    <2>1. pc' = NextClaim /\ pc.at = "schedule" /\ slot' = slot /\ worker' = worker /\ phase' = phase
        BY <1>10 DEF ClaimEnds, Picks
    <2> QED BY <1>3, <1>4, <1>5, <2>1 DEF SameWorker
<1>11. ASSUME NEW j \in Jobs, Launch(j) PROVE ThreadPlaced' /\ NothingInHand'
    <2>1. pc' = NextClaim /\ pc.at = "schedule" /\ phase' = "serving"
        BY <1>11 DEF Launch, Picks, MayClaim
    <2> QED BY <1>3, <1>4, <2>1 DEF NothingInHand
<1>12. ASSUME NEW j \in Jobs, LaunchParks(j) PROVE ThreadPlaced' /\ NothingInHand'
    <2>1. phase' = "serving"
        BY <1>12 DEF LaunchParks, Picks, MayClaim, catalog, owners
    <2>2. pc'.at = "remember" /\ pc'.job = j /\ pc'.todo = {} /\ pc'.via = "launch"
        BY <1>1, <1>2, <1>12 DEF LaunchParks, NextClaim, Threads
    <2>3. slot'[j].body = "failed" /\ ~slot'[j].stored
        BY <1>1, <1>12 DEF LaunchParks, NoSlot
    <2> QED BY <2>1, <2>2, <2>3 DEF ThreadPlaced, NothingInHand, Parked
<1>13. ASSUME NEW j \in Jobs, ClaimFails(j) PROVE ThreadPlaced' /\ NothingInHand'
    <2>1. pc' = AfterPass(pc.back, slot) /\ slot' = slot
        BY <1>13 DEF ClaimFails, PassError
    <2>2. (\A k \in Jobs : SameWorker(k)) /\ phase' \in {phase, "stopped"}
        BY <1>1, <1>13, HaltKeeps DEF ClaimFails, PassError, SameWorker
    <2> QED BY <1>5, <1>8, <2>1, <2>2
<1> QED BY <1>6, <1>9, <1>10, <1>11, <1>12, <1>13 DEF Scheduling

LEMMA WorkingPlace ==
    HoldInvariant /\ (\E j \in Jobs : Working(j)) => ThreadPlaced' /\ NothingInHand'
<1> SUFFICES ASSUME HoldInvariant, NEW j \in Jobs, Working(j)
             PROVE  ThreadPlaced' /\ NothingInHand'
    OBVIOUS
<1>1. TypeOK /\ ThreadPlaced /\ NothingInHand /\ worker \in Pools
    BY DEF HoldInvariant, TypeOK
<1>2. slot' = slot /\ pc' = pc /\ phase' = phase /\ Live(j)
    BY DEF Working, WorkerEnds, WorkerUndrained, Live
<1>3. \A k \in Jobs \ {j} : worker'[k] = worker[k]
    BY <1>1 DEF Working, WorkerEnds, WorkerUndrained, Pools
<1> QED BY <1>1, <1>2, <1>3, PlaceKept, HandKept DEF SameSlot, Live, Parked

LEMMA ArrivingPlace ==
    HoldInvariant /\ (\E j \in Jobs : Arriving(j)) => ThreadPlaced' /\ NothingInHand'
<1> SUFFICES ASSUME HoldInvariant, NEW j \in Jobs, Arriving(j)
             PROVE  ThreadPlaced' /\ NothingInHand'
    OBVIOUS
<1>1. slot \in [Jobs -> Slots]
    BY DEF HoldInvariant, TypeOK
<1>2. phase' \in {"serving", "stopped"}
    BY DEF Arriving, FinishVerification, FinishVerificationFails, ArriveNative, Idle, Halt
<1>3. CASE FinishVerification(j) \/ FinishVerificationFails(j)
    <2>1. pc' \in {Wait, Turn(slot'), SchedulePass("tick")}
        BY <1>3 DEF FinishVerification, FinishVerificationFails
    <2> QED BY <1>2, <2>1, TurnEnds DEF NothingInHand
<1>4. CASE ArriveNative(j) /\ worker[j].result = "undrained"
    <2>1. pc' \in {Wait, Turn(slot'), SchedulePass("tick")}
        BY <1>4 DEF ArriveNative
    <2> QED BY <1>2, <2>1, TurnEnds DEF NothingInHand
<1>5. CASE ArriveNative(j) /\ worker[j].result # "undrained"
    <2>1. pc'.at = "remember" /\ pc'.job = j /\ pc'.todo = {} /\ pc'.via = "arrive"
        BY <1>5 DEF ArriveNative, Wait
    <2>2. slot'[j].body = worker[j].result /\ ~slot'[j].stored
        BY <1>1, <1>5 DEF ArriveNative, NoSlot
    <2>3. worker[j].result # "none"
        BY <1>5 DEF ArriveNative, Arrived
    <2> QED BY <1>2, <2>1, <2>2, <2>3 DEF ThreadPlaced, NothingInHand, Parked
<1> QED BY <1>3, <1>4, <1>5 DEF Arriving

\* A settlement step of slot j ends the turn, resumes what it interrupted, or
\* goes on to the finish of the same slot.
LEMMA StepPlaces ==
    ASSUME HoldInvariant, NEW j \in Jobs, Remembering(j) \/ Settling(j), OnlySlot(j),
           \/ pc' \in {Wait, Turn(slot'), SchedulePass("tick"), Resume(TRUE), Resume(FALSE)}
           \/ Stored(j)
    PROVE  ThreadPlaced'
<1>1. /\ TypeOK /\ ThreadPlaced /\ pc \in Threads /\ pc.todo \subseteq Jobs
      /\ slot \in [Jobs -> Slots] /\ slot[j] \in Slots
    BY DEF HoldInvariant, TypeOK, Threads
<1>2. Parked(j) /\ pc.job = j /\ pc.at \in {"remember", "settle"}
    BY <1>1 DEF Remembering, Settling, ThreadPlaced
<1>3. \A k \in pc.todo : Parked(k)' /\ k # j
    BY <1>1, <1>2 DEF ThreadPlaced, OnlySlot, Parked
<1>4. CASE pc' \in {Wait, Turn(slot'), SchedulePass("tick")}
    BY <1>4, TurnEnds
<1>5. ASSUME NEW c \in BOOLEAN, pc' = Resume(c) PROVE ThreadPlaced'
    <2>1. /\ pc'.at = (IF pc.via = "launch" THEN "schedule" ELSE "drive")
          /\ pc'.job = NoJob /\ pc'.via = "none" /\ pc'.todo = pc.todo
        BY <1>1, <1>5 DEF Resume, Threads
    <2>2. pc.via = "launch" => pc.todo = {}
        BY <1>1 DEF ThreadPlaced
    <2>3. \A k \in pc.todo : k # NoJob
        BY <1>1, ConstantsAssumption DEF ConstantsAssumption
    <2> QED BY <1>3, <2>1, <2>2, <2>3 DEF ThreadPlaced
<1>6. CASE Stored(j)
    <2>1. /\ pc'.at = "settle" /\ pc'.job = j /\ pc'.via = pc.via /\ pc'.todo = pc.todo
        BY <1>1, <1>2, <1>6 DEF Stored, Threads
    <2>2. slot'[j].body = slot[j].body /\ slot'[j].stored
        BY <1>1, <1>6 DEF Stored, Slots
    <2> QED BY <1>1, <1>2, <1>3, <2>1, <2>2 DEF ThreadPlaced, Parked
<1> QED BY <1>4, <1>5, <1>6

LEMMA SettlementPlace == HoldInvariant /\ Settlement => ThreadPlaced' /\ NothingInHand'
<1> SUFFICES ASSUME HoldInvariant, Settlement PROVE ThreadPlaced' /\ NothingInHand'
    OBVIOUS
<1>1. /\ TypeOK /\ ThreadPlaced /\ NothingInHand /\ pc \in Threads /\ pc.todo \subseteq Jobs
      /\ slot \in [Jobs -> Slots]
    BY DEF HoldInvariant, TypeOK, Threads
<1>2. CASE DriveEnds
    <2>1. pc' \in {Wait, Turn(slot'), SchedulePass("drive")}
        BY <1>2 DEF DriveEnds
    <2>2. slot' = slot /\ worker' = worker /\ phase' = phase
        BY <1>2 DEF DriveEnds
    <2> QED BY <1>1, <2>1, <2>2, TurnEnds, HandKept DEF Live, Parked
<1>3. ASSUME NEW j \in Jobs, DriveSlot(j) PROVE ThreadPlaced' /\ NothingInHand'
    <2>1. Parked(j) /\ \A k \in pc.todo : Parked(k)
        BY <1>1, <1>3 DEF DriveSlot, ThreadPlaced
    <2>2. /\ pc'.at = (IF slot[j].stored THEN "settle" ELSE "remember")
          /\ pc'.job = j /\ pc'.via = "drive" /\ pc'.todo = pc.todo \ {j}
        BY <1>1, <1>3 DEF DriveSlot, Threads
    <2>3. slot' = slot /\ worker' = worker /\ phase' = phase
        BY <1>3 DEF DriveSlot
    <2>4. ThreadPlaced'
        BY <2>1, <2>2, <2>3 DEF ThreadPlaced, Parked
    <2> QED BY <1>1, <2>3, <2>4, HandKept DEF Live, Parked
<1>4. ASSUME NEW j \in Jobs, Remembering(j) \/ Settling(j), OnlySlot(j), SlotAfter(j),
             phase' \in {phase, "stopped"},
             \/ pc' \in {Wait, Turn(slot'), SchedulePass("tick"), Resume(TRUE), Resume(FALSE)}
             \/ Stored(j)
      PROVE  ThreadPlaced' /\ NothingInHand'
    <2>1. ThreadPlaced'
        BY <1>4, StepPlaces DEF HoldInvariant
    <2>2. Parked(j)
        BY <1>1, <1>4 DEF Remembering, Settling, ThreadPlaced
    <2>3. \A k \in Jobs : (Live(k)' => Live(k)) /\ (Parked(k)' => Parked(k))
        BY <1>4, <2>2 DEF OnlySlot, SlotAfter, SameWorker, Live, Parked
    <2> QED BY <1>1, <1>4, <2>1, <2>3, HandKept
<1>5. ASSUME NEW j \in Jobs, NEW s, Variant(s, j), Remembering(j) \/ Settling(j),
             StepCommitted(j) \/ StepRefused(j) \/ StepWaits(j, s) \/ Stored(j) \/ AfterFailure(j, s)
      PROVE  ThreadPlaced' /\ NothingInHand'
    <2>1. OnlySlot(j) /\ SlotAfter(j)
        BY <1>1, <1>5, StepOutcomes DEF SlotAfter
    <2>2. StepCommitted(j) \/ StepRefused(j) \/ StepWaits(j, s) \/ Stored(j)
        BY <1>5 DEF AfterFailure
    <2>3. phase' \in {phase, "stopped"}
        BY <2>2 DEF StepCommitted, StepRefused, StepWaits, Stored, Halt
    <2>4. \/ pc' \in {Wait, Turn(slot'), SchedulePass("tick"), Resume(TRUE), Resume(FALSE)}
          \/ Stored(j)
        BY <2>2 DEF StepCommitted, StepRefused, StepWaits
    <2> QED BY <1>4, <1>5, <2>1, <2>3, <2>4
<1>6. ASSUME NEW j \in Jobs,
             \/ RememberHold(j) \/ RememberBusy(j) \/ RememberUncertain(j) \/ RememberRefused(j)
             \/ SettleWaits(j) \/ Settle(j) \/ SettleBusy(j) \/ SettleUncertain(j) \/ SettleRefused(j)
      PROVE  ThreadPlaced' /\ NothingInHand'
    <2>1. Remembering(j) \/ Settling(j)
        BY <1>6 DEF RememberHold, RememberBusy, RememberUncertain, RememberRefused, SettleWaits,
                    Settle, SettleBusy, SettleUncertain, SettleRefused, Attempting
    <2>2. PICK s \in {slot[j], [slot[j] EXCEPT !.tries = @ + 1], [slot[j] EXCEPT !.wait = TRUE],
                      [Tried(j) EXCEPT !.wait = TRUE]} :
             StepCommitted(j) \/ StepRefused(j) \/ StepWaits(j, s) \/ Stored(j) \/ AfterFailure(j, s)
        BY <1>6 DEF RememberHold, RememberBusy, RememberUncertain, RememberRefused, SettleWaits,
                    Settle, SettleBusy, SettleUncertain, SettleRefused, Tried
    <2>3. Variant(s, j)
        BY <1>1, <2>2, SlotVariants
    <2> QED BY <1>5, <2>1, <2>2, <2>3
<1> QED BY <1>2, <1>3, <1>6 DEF Settlement

LEMMA StartingPlace == HoldInvariant /\ Starting => ThreadPlaced' /\ NothingInHand'
<1> SUFFICES ASSUME HoldInvariant, Starting PROVE ThreadPlaced' /\ NothingInHand'
    OBVIOUS
<1>1. /\ TypeOK /\ ThreadPlaced /\ NothingInHand /\ pc \in Threads /\ pc.todo \subseteq Jobs
      /\ slot \in [Jobs -> Slots] /\ worker \in Pools
    BY DEF HoldInvariant, TypeOK, Threads
<1>2. ASSUME NEW f \in Families, Recover(f) PROVE ThreadPlaced' /\ NothingInHand'
    <2>1. phase = "starting" /\ pc.via # "launch" /\ slot' = slot /\ worker' = worker
        BY <1>1, <1>2 DEF Recover, ThreadPlaced
    <2>2. \A k \in Jobs : ~Live(k)' /\ ~Parked(k)'
        BY <1>1, <2>1 DEF NothingInHand, Live, Parked
    <2>3. CASE f = "analysis"
        <3>1. /\ pc'.at = "recover translation" /\ pc'.via = pc.via /\ pc'.todo = pc.todo
              /\ pc'.job = pc.job /\ phase' = phase /\ pc.at # "restore"
            BY <1>1, <1>2, <2>3 DEF Recover, Threads
        <3> QED BY <1>1, <2>1, <2>2, <3>1 DEF ThreadPlaced, NothingInHand, Parked
    <2>4. CASE f # "analysis"
        <3>1. /\ pc'.at = "restore" /\ pc'.via = pc.via /\ pc'.todo \subseteq Jobs
              /\ phase' = "serving"
            BY <1>1, <1>2, <2>4, ZenonT(30) DEF Recover, Threads
        <3> QED BY <2>1, <2>2, <3>1 DEF ThreadPlaced, NothingInHand
    <2> QED BY <2>3, <2>4
<1>3. ASSUME RestoreError, slot' = slot PROVE ThreadPlaced' /\ NothingInHand'
    <2>1. pc' \in {Wait, Turn(slot'), SchedulePass("tick")}
        BY <1>3 DEF RestoreError
    <2>2. phase' = "stopped"
        BY <1>3 DEF RestoreError, Halt
    <2> QED BY <2>1, <2>2, TurnEnds DEF NothingInHand
<1>4. ASSUME NEW j \in Jobs, Restoring(j), NextHold(j),
             \A k \in Jobs \ {j} : slot'[k] = slot[k]
      PROVE  ThreadPlaced' /\ NothingInHand'
    <2>1. /\ pc'.at = "restore" /\ pc'.via = pc.via /\ pc'.todo = pc.todo \ {j}
          /\ phase' = phase /\ worker' = worker
        BY <1>1, <1>4 DEF Restoring, NextHold, Threads
    <2>2. phase = "serving" /\ (\A k \in Jobs : ~Live(k)) /\ \A k \in pc.todo : ~Parked(k)
        BY <1>1, <1>4 DEF Restoring, ThreadPlaced
    <2>3. pc.via # "launch"
        BY <1>1, <1>4 DEF Restoring, ThreadPlaced
    <2> QED BY <1>1, <1>4, <2>1, <2>2, <2>3 DEF ThreadPlaced, NothingInHand, Live, Parked
<1>5. ASSUME NEW j \in Jobs, RestoreSlot(j) PROVE ThreadPlaced' /\ NothingInHand'
    <2>1. Restoring(j) /\ \A k \in Jobs \ {j} : slot'[k] = slot[k]
        BY <1>1, <1>5 DEF RestoreSlot
    <2>2. NextHold(j) \/ (RestoreError /\ slot' = slot)
        BY <1>5 DEF RestoreSlot
    <2> QED BY <1>3, <1>4, <2>1, <2>2
<1>6. ASSUME NEW j \in Jobs, RestoreReleases(j) PROVE ThreadPlaced' /\ NothingInHand'
    <2>1. Restoring(j) /\ slot' = slot /\ (NextHold(j) \/ RestoreError)
        BY <1>6 DEF RestoreReleases
    <2> QED BY <1>3, <1>4, <2>1
<1>7. ASSUME RestoreFails PROVE ThreadPlaced' /\ NothingInHand'
    BY <1>3, <1>7 DEF RestoreFails
<1>8. ASSUME RestoreEnds PROVE ThreadPlaced' /\ NothingInHand'
    <2>1. pc' \in {Wait, Turn(slot'), SchedulePass("boot")}
        BY <1>8 DEF RestoreEnds
    <2>2. phase' = "serving"
        BY <1>1, <1>8 DEF RestoreEnds, ThreadPlaced
    <2> QED BY <2>1, <2>2, TurnEnds DEF NothingInHand
<1> QED BY <1>2, <1>5, <1>6, <1>7, <1>8 DEF Starting

LEMMA LifePlace ==
    /\ HoldInvariant
    /\ (\E j \in Jobs : SlotExpires(j)) \/ DriveTurn \/ Boot \/ Shutdown \/ Exit \/ Crash
    => ThreadPlaced' /\ NothingInHand'
<1> SUFFICES ASSUME HoldInvariant,
                    (\E j \in Jobs : SlotExpires(j)) \/ DriveTurn \/ Boot \/ Shutdown \/ Exit \/ Crash
             PROVE  ThreadPlaced' /\ NothingInHand'
    OBVIOUS
<1>1. TypeOK /\ ThreadPlaced /\ NothingInHand /\ slot \in [Jobs -> Slots]
    BY DEF HoldInvariant, TypeOK
<1>2. ASSUME NEW j \in Jobs, SlotExpires(j) PROVE ThreadPlaced' /\ NothingInHand'
    <2>1. slot[j] \in Slots
        BY <1>1
    <2>2. \A k \in Jobs : SameSlot(k)
        BY <1>1, <1>2, <2>1 DEF SlotExpires, SameSlot, Slots
    <2>3. worker' = worker /\ pc' = pc /\ phase' = phase
        BY <1>2 DEF SlotExpires
    <2> QED BY <1>1, <2>2, <2>3, PlaceKept, HandKept DEF SameSlot, Live, Parked
<1>3. CASE DriveTurn \/ Shutdown
    <2>1. pc' \in {Wait, Turn(slot'), SchedulePass("tick")} /\ phase' \notin {"down", "starting"}
        BY <1>3 DEF DriveTurn, Shutdown, Idle, Halt
    <2> QED BY <2>1, TurnEnds DEF NothingInHand
<1>4. CASE Boot
    <2>1. pc'.at = "recover analysis" /\ pc'.via = "none" /\ pc'.todo = {} /\ phase' = "starting"
        BY <1>4 DEF Boot, Wait
    <2>2. NothingInHand'
        BY <1>1, <1>4, HandKept DEF Boot, Live, Parked
    <2> QED BY <2>1, <2>2 DEF ThreadPlaced
<1>5. CASE Exit
    <2>1. pc' \in {Wait, Turn(slot'), SchedulePass("tick")}
        BY <1>5 DEF Exit
    <2> QED BY <1>5, <2>1, TurnEnds DEF Exit, NothingInHand, Live, Parked
<1>6. CASE Crash
    <2>1. pc' \in {Wait, Turn(slot'), SchedulePass("tick")}
        BY <1>6 DEF Crash
    <2> QED BY <1>6, <2>1, TurnEnds DEF Crash, NothingInHand, Live, Parked, NoWorker, NoSlot
<1> QED BY <1>2, <1>3, <1>4, <1>5, <1>6

-----------------------------------------------------------------------------
(***************************************************************************)
(* The invariant, and what follows from it.                                *)
(***************************************************************************)

LEMMA NextHolds == HoldInvariant /\ [Next]_vars => HoldInvariant'
<1> SUFFICES ASSUME HoldInvariant, [Next]_vars PROVE HoldInvariant'
    OBVIOUS
<1>1. TypeOK'
    BY NextTypes DEF HoldInvariant
<1>2. CASE UNCHANGED vars
    BY <1>1, <1>2 DEF HoldInvariant, JobKept, ThreadPlaced, NothingInHand, Live, Parked, Active,
                     vars, catalog
<1>3. CASE Next
    <2>1. \A j \in Jobs : JobKept(j)'
        BY <1>3, ClientJobs, SchedulingJobs, SettlementJobs, StartingJobs, WorkingJobs,
           ArrivingJobs, LifeJobs DEF Next
    <2>2. ThreadPlaced' /\ NothingInHand'
        BY <1>3, ClientPlace, SchedulingPlace, SettlementPlace, StartingPlace, WorkingPlace,
           ArrivingPlace, LifePlace DEF Next
    <2> QED BY <1>1, <2>1, <2>2 DEF HoldInvariant
<1> QED BY <1>2, <1>3

\* HoldInvariant holds in every reachable state.
THEOREM HoldsAlways == Spec => []HoldInvariant
BY InitHolds, NextHolds, PTL DEF Spec

\* A committed completion hold always belongs to the active row and the claim
\* that produced it, through every retry, refusal, crash and restore.
THEOREM HoldsMatchClaims == Spec => []HoldMatchesClaim
BY HoldsAlways, HoldInvariantImplies, PTL

\* Workers and settlement slots always carry the claim their row has, and no
\* outcome is both computed and settled at one time.
THEOREM LeasesInHand == Spec => []LeaseInHand
BY HoldsAlways, HoldInvariantImplies, PTL

\* What a step may do to the active row of a job whose outcome is stored.
Settled(j) ==
    Active(j) /\ Held(j) =>
        row'[j].claim = row[j].claim /\ row'[j].state \notin {"queued", "interrupted"}

LEMMA SameRowsSettled == row' = row => \A j \in Jobs : Settled(j)
BY DEF Settled, Active, ActiveStates

\* A step that changes the state of one row, not to queued or interrupted.
LEMMA OneRowSettled ==
    ASSUME TypeOK, NEW i \in Jobs, NEW s, s \notin {"queued", "interrupted"},
           row' = [row EXCEPT ![i].state = s]
    PROVE  \A j \in Jobs : Settled(j)
<1>1. \A j \in Jobs : row'[j] = row[j] \/ (row'[j].state = s /\ row'[j].claim = row[j].claim)
    BY RowChange
<1> QED BY <1>1 DEF Settled, Active, ActiveStates

\* A step of a row that was not active.
LEMMA InactiveSettled ==
    ASSUME NEW i \in Jobs, ~Active(i), \A j \in Jobs \ {i} : row'[j] = row[j]
    PROVE  \A j \in Jobs : Settled(j)
BY DEF Settled, Active, ActiveStates

LEMMA NextSettled == TypeOK /\ [Next]_vars => \A j \in Jobs : Settled(j)
<1> SUFFICES ASSUME TypeOK, [Next]_vars PROVE \A j \in Jobs : Settled(j)
    OBVIOUS
<1>1. row \in [Jobs -> Rows]
    BY DEF TypeOK
<1> USE DEF catalog, owners, unpublished
<1>2. CASE Client
    <2>1. ASSUME NEW i \in Jobs, row[i].state = "absent", row' = [row EXCEPT ![i] = Queued(i)]
          PROVE  \A j \in Jobs : Settled(j)
        <3>1. ~Active(i) /\ \A j \in Jobs \ {i} : row'[j] = row[j]
            BY <1>1, <2>1 DEF Active, ActiveStates
        <3> QED BY <3>1, InactiveSettled
    <2>2. ASSUME NEW i \in Jobs, Cancel(i) PROVE \A j \in Jobs : Settled(j)
        <3>1. PICK s \in {"cancelled", "cancelling"} : row' = [row EXCEPT ![i].state = s]
            BY <2>2 DEF Cancel
        <3> QED BY <3>1, OneRowSettled
    <2>3. ASSUME NEW t \in Tasks, Withdraw(t) PROVE \A j \in Jobs : Settled(j)
        <3>1. \A j \in Jobs :
                 \/ row'[j] = row[j]
                 \/ row'[j].state = "cancelling" /\ row'[j].claim = row[j].claim
                 \/ row[j].state = "queued"
            BY <1>1, <2>3 DEF Withdraw, Rows
        <3> QED BY <3>1 DEF Settled, Active, ActiveStates
    <2> QED BY <1>2, <2>1, <2>2, <2>3, SameRowsSettled
            DEF Client, Enqueue, Join, Repin, Correct, StopService, Admissible
<1>3. CASE Scheduling
    <2>1. ASSUME NEW i \in Jobs, Picks(i), \A j \in Jobs \ {i} : row'[j] = row[j]
          PROVE  \A j \in Jobs : Settled(j)
        <3>1. ~Active(i)
            BY <2>1 DEF Picks, Candidates, Active, ActiveStates
        <3> QED BY <2>1, <3>1, InactiveSettled
    <2>2. ASSUME NEW i \in Jobs, ClaimEnds(i) \/ Launch(i) \/ LaunchParks(i) \/ ClaimFails(i)
          PROVE  \A j \in Jobs : Settled(j)
        <3>1. /\ Picks(i)
              /\ row' \in {row, Claimed(i), [row EXCEPT ![i].state = "failed"],
                          [Claimed(i) EXCEPT ![i].state = "failed"]}
            BY <2>2 DEF ClaimEnds, Launch, LaunchParks, ClaimFails
        <3>2. \A j \in Jobs \ {i} : row'[j] = row[j]
            BY <1>1, <3>1, LeaseType DEF Claimed
        <3> QED BY <2>1, <3>1, <3>2
    <2> QED BY <1>3, <2>2, SameRowsSettled DEF Scheduling, SignalDurableStops, NextKind, DecoderMissing
<1>4. ASSUME NEW i \in Jobs, Arriving(i) PROVE \A j \in Jobs : Settled(j)
    <2>1. ASSUME Arrived(i), ~Native(i), row' = VerificationRow(i)
          PROVE  \A j \in Jobs : Settled(j)
        <3>1. VerificationOutcome(i) \notin {"queued", "interrupted"}
            BY <2>1 DEF TypeOK, VerificationOutcome, Arrived, Pools, Workers, Bodies
        <3> QED BY <2>1, <3>1, OneRowSettled, SameRowsSettled DEF VerificationRow
    <2> QED BY <1>4, <2>1, SameRowsSettled
            DEF Arriving, FinishVerification, FinishVerificationFails, ArriveNative
<1>5. CASE Settlement
    <2>1. ASSUME NEW i \in Jobs, Publish(i) PROVE \A j \in Jobs : Settled(j)
        <3>1. TerminalOutcome(i) \notin {"queued", "interrupted"}
            BY DEF TerminalOutcome
        <3> QED BY <2>1, <3>1, OneRowSettled DEF Publish
    <2> QED BY <1>5, <2>1, SameRowsSettled
            DEF Settlement, DriveEnds, DriveSlot, RememberHold, RememberBusy, RememberUncertain,
                RememberRefused, SettleWaits, Settle, SettleBusy, SettleUncertain, SettleRefused
<1>6. CASE Starting
    <2>1. ASSUME NEW f \in Families, Recover(f) PROVE \A j \in Jobs : Settled(j)
        <3>1. \A j \in Jobs : row'[j] = row[j] \/ ~Held(j)
            BY <2>1 DEF Recover, Ended, Lost
        <3> QED BY <3>1 DEF Settled, Active, ActiveStates
    <2>2. ASSUME NEW i \in Jobs, RestoreReleases(i) PROVE \A j \in Jobs : Settled(j)
        <3>1. row' = row \/ row' = [row EXCEPT ![i].state = "failed"]
            BY <2>2 DEF RestoreReleases
        <3> QED BY <3>1, OneRowSettled, SameRowsSettled
    <2> QED BY <1>6, <2>1, <2>2, SameRowsSettled DEF Starting, RestoreSlot, RestoreFails, RestoreEnds
<1>7. (\E j \in Jobs : Working(j) \/ SlotExpires(j)) \/ DriveTurn \/ Boot \/ Shutdown
        \/ Exit \/ Crash \/ UNCHANGED vars => row' = row
    BY DEF Working, WorkerEnds, WorkerUndrained, SlotExpires, DriveTurn, Boot, Shutdown, Exit,
           Crash, vars
<1> QED BY <1>2, <1>3, <1>4, <1>5, <1>6, <1>7, SameRowsSettled DEF Next

\* A stored outcome is never recomputed: no restart requeues or interrupts the
\* claim whose completion hold is committed (job_pool::recover).
THEOREM StoredOutcomesAreKept == Spec => HeldNeverRerun
<1> DEFINE Stays(j) == row'[j].claim = row[j].claim /\ row'[j].state \notin {"queued", "interrupted"}
           Step == \A j \in Jobs : Held(j) => Stays(j)
<1>1. HoldInvariant /\ [Next]_vars => [Step]_vars
    <2> SUFFICES ASSUME HoldInvariant, [Next]_vars, NEW j \in Jobs, Held(j) PROVE Stays(j)
        OBVIOUS
    <2>1. Active(j)
        BY DEF HoldInvariant, JobKept, Held
    <2> QED BY <2>1, NextSettled DEF HoldInvariant, Settled
<1> QED BY <1>1, HoldsAlways, PTL DEF Spec, HeldNeverRerun

------------------------------------------------------------------------------

(***************************************************************************)
(* The inductive invariant.  PublishedOnce counts; Written says which      *)
(* revisions there are, so that a step that adds one can be seen to add    *)
(* the first.                                                              *)
(***************************************************************************)
Published(j) == Native(j) /\ row[j].state = "succeeded"

Written == \A j \in Jobs : IF Published(j) THEN \E x : WrittenBy(j) = {x} ELSE WrittenBy(j) = {}

PublicationInvariant == TypeOK /\ Written /\ LinearHistory

LEMMA WrittenImplies == Written => PublishedOnce
<1> SUFFICES ASSUME Written, NEW j \in Jobs
             PROVE  Cardinality(WrittenBy(j)) = IF Published(j) THEN 1 ELSE 0
    BY DEF PublishedOnce, Published
<1>1. CASE Published(j)
    <2>1. PICK x : WrittenBy(j) = {x}
        BY <1>1 DEF Written
    <2> QED BY <1>1, <2>1, FS_Singleton
<1>2. CASE ~Published(j)
    <2>1. WrittenBy(j) = {}
        BY <1>2 DEF Written
    <2> QED BY <1>2, <2>1, FS_EmptySet
<1> QED BY <1>1, <1>2

\* Membership in WrittenIn.
LEMMA WrittenInMember ==
    ASSUME NEW r, NEW j, NEW x
    PROVE  x \in WrittenIn(r, j) <=>
             \E l \in Lineages : \E i \in DOMAIN r[l] : r[l][i].job = j /\ x = <<l, i>>
BY DEF WrittenIn

\* The positions of a history with one more revision.
LEMMA OneMore ==
    ASSUME NEW q \in Seq(Revisions), NEW e \in Revisions, NEW i \in DOMAIN Append(q, e)
    PROVE  \/ i \in DOMAIN q /\ Append(q, e)[i] = q[i]
           \/ i = Len(q) + 1 /\ Append(q, e)[i] = e
<1>1. Len(q) \in Nat /\ DOMAIN q = 1 .. Len(q) /\ DOMAIN Append(q, e) = 1 .. (Len(q) + 1)
    OBVIOUS
<1>2. i \in 1 .. Len(q) \/ i = Len(q) + 1
    BY <1>1
<1> QED BY <1>1, <1>2

\* One more revision at the end of one history.
LEMMA WrittenInAppend ==
    ASSUME NEW r \in [Lineages -> Seq(Revisions)], NEW l \in Lineages, NEW e \in Revisions,
           NEW s, s[l] = Append(r[l], e), \A k \in Lineages \ {l} : s[k] = r[k], NEW j
    PROVE  WrittenIn(s, j) =
             WrittenIn(r, j) \union (IF e.job = j THEN {<<l, Len(r[l]) + 1>>} ELSE {})
<1>1. r[l] \in Seq(Revisions)
    OBVIOUS
<1>2. /\ DOMAIN s[l] = 1 .. (Len(r[l]) + 1) /\ DOMAIN r[l] = 1 .. Len(r[l])
      /\ s[l][Len(r[l]) + 1] = e /\ \A i \in 1 .. Len(r[l]) : s[l][i] = r[l][i]
      /\ Len(r[l]) \in Nat
    BY <1>1
<1>3. DOMAIN s[l] = DOMAIN r[l] \union {Len(r[l]) + 1}
    BY <1>2
<1>4. ASSUME NEW x PROVE x \in WrittenIn(s, j) <=>
                           x \in WrittenIn(r, j) \/ (e.job = j /\ x = <<l, Len(r[l]) + 1>>)
    <2>1. ASSUME NEW k \in Lineages
          PROVE  (\E i \in DOMAIN s[k] : s[k][i].job = j /\ x = <<k, i>>) <=>
                   \/ \E i \in DOMAIN r[k] : r[k][i].job = j /\ x = <<k, i>>
                   \/ k = l /\ e.job = j /\ x = <<l, Len(r[l]) + 1>>
        <3>1. CASE k = l
            BY <1>2, <1>3, <3>1
        <3>2. CASE k # l
            BY <3>2
        <3> QED BY <3>1, <3>2
    <2>2. x \in WrittenIn(s, j) <=>
            \E k \in Lineages : \E i \in DOMAIN s[k] : s[k][i].job = j /\ x = <<k, i>>
        BY WrittenInMember
    <2>3. x \in WrittenIn(r, j) <=>
            \E k \in Lineages : \E i \in DOMAIN r[k] : r[k][i].job = j /\ x = <<k, i>>
        BY WrittenInMember
    <2> QED BY <2>1, <2>2, <2>3
<1> QED BY <1>4

\* What job j wrote stays when no history changes, or someone else writes.
LEMMA WrittenSame ==
    ASSUME PublicationInvariant, transcripts' = transcripts, translations' = translations,
           \A j \in Jobs : Published(j)' <=> Published(j)
    PROVE  Written'
BY DEF PublicationInvariant, Written, WrittenBy, WrittenIn

\* A revision's writer succeeded, so its row is final.
LEMMA WriterFinal ==
    ASSUME PublicationInvariant, RowStep, NEW l \in Lineages, NEW i \in DOMAIN transcripts[l],
           transcripts[l][i].job # NoJob
    PROVE  row'[transcripts[l][i].job] = row[transcripts[l][i].job]
<1> DEFINE j == transcripts[l][i].job
<1>1. transcripts[l][i] \in Revisions
    BY DEF PublicationInvariant, TypeOK
<1>2. j \in Jobs
    BY <1>1 DEF Revisions
<1>3. <<l, i>> \in WrittenBy(j)
    BY WrittenInMember DEF WrittenBy
<1>4. row[j].state = "succeeded"
    BY <1>2, <1>3 DEF PublicationInvariant, Written, Published
<1> QED BY <1>2, <1>4 DEF RowStep, Moves, Terminal

\* History stays linear when no transcript grows.
LEMMA HistorySame ==
    ASSUME PublicationInvariant, RowStep, transcripts' = transcripts
    PROVE  LinearHistory'
BY WriterFinal DEF PublicationInvariant, LinearHistory

LEMMA InitPublications == Init => PublicationInvariant
<1> SUFFICES ASSUME Init PROVE Written /\ LinearHistory
    BY InitTypes DEF PublicationInvariant
<1>1. ASSUME NEW l \in Lineages, NEW i \in DOMAIN transcripts[l]
      PROVE  transcripts[l][i].job = NoJob
    BY DEF Init
<1>2. \A l \in Lineages : DOMAIN translations[l] = {}
    BY DEF Init
<1>3. ASSUME NEW j \in Jobs PROVE WrittenBy(j) = {} /\ ~Published(j)
    <2>1. j # NoJob
        BY ConstantsAssumption DEF ConstantsAssumption
    <2>2. \A x : x \notin WrittenIn(transcripts, j) /\ x \notin WrittenIn(translations, j)
        BY <1>1, <1>2, <2>1, WrittenInMember
    <2>3. ~Published(j)
        BY DEF Init, Published, NoRow
    <2> QED BY <2>2, <2>3 DEF WrittenBy
<1> QED BY <1>1, <1>3 DEF Written, LinearHistory

-----------------------------------------------------------------------------
(***************************************************************************)
(* Steps that publish nothing.                                             *)
(***************************************************************************)

\* No history grows and no native row succeeds.
Quiet ==
    /\ transcripts' = transcripts /\ translations' = translations
    /\ \A j \in Jobs : Native(j) /\ row'[j].state = "succeeded" => row[j].state = "succeeded"

LEMMA QuietKeeps ==
    ASSUME PublicationInvariant, RowStep, Quiet
    PROVE  Written' /\ LinearHistory'
<1>1. \A j \in Jobs : Published(j)' <=> Published(j)
    BY DEF Quiet, Published, RowStep, Moves, Terminal, Native
<1> QED BY <1>1, WrittenSame, HistorySame DEF Quiet

\* A correction is written by nobody.
LEMMA CorrectKeeps ==
    ASSUME PublicationInvariant, RowStep, NEW l \in Lineages, Correct(l)
    PROVE  Written' /\ LinearHistory'
<1> DEFINE e == [job |-> NoJob, claim |-> NoClaim]
<1>1. /\ transcripts \in [Lineages -> Seq(Revisions)] /\ e \in Revisions
      /\ row' = row /\ translations' = translations
      /\ transcripts'[l] = Append(transcripts[l], e)
      /\ \A k \in Lineages \ {l} : transcripts'[k] = transcripts[k]
    BY InitialValues DEF Correct, PublicationInvariant, TypeOK, Revisions, catalog
<1>2. ASSUME NEW j \in Jobs PROVE WrittenBy(j)' = WrittenBy(j)
    <2>1. e.job # j
        BY ConstantsAssumption DEF ConstantsAssumption
    <2> HIDE DEF e
    <2>2. WrittenIn(transcripts', j) = WrittenIn(transcripts, j) \union
            (IF e.job = j THEN {<<l, Len(transcripts[l]) + 1>>} ELSE {})
        BY <1>1, WrittenInAppend
    <2>3. WrittenIn(transcripts', j) = WrittenIn(transcripts, j)
        BY <2>1, <2>2
    <2> QED BY <1>1, <2>3 DEF WrittenBy, WrittenIn
<1>3. Written'
    BY <1>1, <1>2 DEF PublicationInvariant, Written, Published
<1>4. ASSUME NEW k \in Lineages, NEW i \in DOMAIN transcripts'[k], transcripts'[k][i].job # NoJob
      PROVE  i \in DOMAIN transcripts[k] /\ transcripts'[k][i] = transcripts[k][i]
    <2>1. transcripts[k] \in Seq(Revisions) /\ e.job = NoJob
        BY <1>1
    <2> HIDE DEF e
    <2>2. CASE k = l
        BY <1>1, <1>4, <2>1, <2>2, OneMore, SMTT(30)
    <2>3. CASE k # l
        BY <1>1, <1>4, <2>3
    <2> QED BY <2>2, <2>3
<1>5. LinearHistory'
    BY <1>1, <1>4 DEF PublicationInvariant, LinearHistory
<1> QED BY <1>3, <1>5

LEMMA ClientPublishes == PublicationInvariant /\ Client => Quiet \/ \E l \in Lineages : Correct(l)
<1> SUFFICES ASSUME PublicationInvariant, Client, ~\E l \in Lineages : Correct(l) PROVE Quiet
    OBVIOUS
<1>1. row \in [Jobs -> Rows]
    BY DEF PublicationInvariant, TypeOK
<1> USE DEF catalog, owners
<1>2. transcripts' = transcripts /\ translations' = translations
    BY DEF Client, Enqueue, Join, Cancel, Withdraw, Repin, StopService
<1>3. ASSUME NEW j \in Jobs, row'[j].state = "succeeded" PROVE row[j].state = "succeeded"
    <2>1. ASSUME NEW i \in Jobs, row' = [row EXCEPT ![i] = Queued(i)] PROVE row[j].state = "succeeded"
        BY <1>1, <1>3, <2>1 DEF Queued
    <2>2. ASSUME NEW i \in Jobs, Cancel(i) PROVE row[j].state = "succeeded"
        <3>1. row' = [row EXCEPT ![i] = [row[i] EXCEPT !.state =
                                          IF row[i].state = "queued" THEN "cancelled" ELSE "cancelling"]]
            BY <2>2 DEF Cancel
        <3> QED BY <1>1, <1>3, <3>1 DEF Rows
    <2>3. ASSUME NEW t \in Tasks, Withdraw(t) PROVE row[j].state = "succeeded"
        BY <1>1, <1>3, <2>3 DEF Withdraw, Rows
    <2> QED BY <1>3, <2>1, <2>2, <2>3 DEF Client, Enqueue, Join, Repin, StopService
<1> QED BY <1>2, <1>3 DEF Quiet

LEMMA SchedulingPublishes == PublicationInvariant /\ Scheduling => Quiet
<1> SUFFICES ASSUME PublicationInvariant, Scheduling PROVE Quiet
    OBVIOUS
<1>1. TypeOK /\ row \in [Jobs -> Rows]
    BY DEF PublicationInvariant, TypeOK
<1> USE DEF catalog, owners
<1>2. transcripts' = transcripts /\ translations' = translations
    BY DEF Scheduling, SignalDurableStops, NextKind, DecoderMissing, ClaimEnds, Launch,
           LaunchParks, ClaimFails
<1>3. ASSUME NEW i \in Jobs, ClaimEnds(i) \/ Launch(i) \/ LaunchParks(i) \/ ClaimFails(i),
             NEW j \in Jobs, row'[j].state = "succeeded"
      PROVE  row[j].state = "succeeded"
    <2>1. row' \in {row, Claimed(i), [row EXCEPT ![i].state = "failed"],
                    [Claimed(i) EXCEPT ![i].state = "failed"]}
        BY <1>3 DEF ClaimEnds, Launch, LaunchParks, ClaimFails
    <2>2. Claimed(i) = [row EXCEPT ![i] = [row[i] EXCEPT !.state = "running", !.claim = Lease(i)]]
        BY DEF Claimed
    <2>3. Claimed(i)[i].state = "running" /\ Claimed(i) \in [Jobs -> Rows]
        BY <1>1, <2>2, LeaseType DEF Rows
    <2>4. i # j => row'[j] = row[j]
        BY <1>1, <2>1, <2>2, <2>3
    <2>5. i = j => row' = row \/ row'[j].state \in {"running", "failed"}
        BY <1>1, <2>1, <2>3 DEF Rows
    <2> QED BY <1>3, <2>4, <2>5
<1>4. SignalDurableStops \/ NextKind \/ DecoderMissing => row' = row
    BY DEF SignalDurableStops, NextKind, DecoderMissing
<1> QED BY <1>2, <1>3, <1>4 DEF Scheduling, Quiet

LEMMA ArrivingPublishes == PublicationInvariant /\ (\E j \in Jobs : Arriving(j)) => Quiet
<1> SUFFICES ASSUME PublicationInvariant, NEW i \in Jobs, Arriving(i) PROVE Quiet
    OBVIOUS
<1>1. row \in [Jobs -> Rows]
    BY DEF PublicationInvariant, TypeOK
<1> USE DEF catalog, owners
<1>2. transcripts' = transcripts /\ translations' = translations
    BY DEF Arriving, FinishVerification, FinishVerificationFails, ArriveNative
<1>3. row' = row \/ (~Native(i) /\ row' = [row EXCEPT ![i].state = VerificationOutcome(i)])
    BY DEF Arriving, FinishVerification, FinishVerificationFails, ArriveNative, VerificationRow
<1>4. ASSUME NEW j \in Jobs, Native(j) PROVE row'[j] = row[j]
    BY <1>1, <1>3, <1>4
<1> QED BY <1>2, <1>4 DEF Quiet

LEMMA StartingPublishes == PublicationInvariant /\ Starting => Quiet
<1> SUFFICES ASSUME PublicationInvariant, Starting PROVE Quiet
    OBVIOUS
<1>1. row \in [Jobs -> Rows]
    BY DEF PublicationInvariant, TypeOK
<1> USE DEF catalog, owners
<1>2. transcripts' = transcripts /\ translations' = translations
    BY DEF Starting, Recover, RestoreSlot, RestoreReleases, RestoreFails, RestoreEnds
<1>3. ASSUME NEW f \in Families, Recover(f), NEW j \in Jobs, row'[j].state = "succeeded"
      PROVE  row[j].state = "succeeded"
    <2>1. RecoveredRow(j).state = IF Requeues(j) THEN "queued" ELSE "interrupted"
        BY <1>1 DEF RecoveredRow, Rows
    <2> QED BY <1>3, <2>1 DEF Recover
<1>4. ASSUME NEW i \in Jobs, RestoreReleases(i), NEW j \in Jobs, row'[j].state = "succeeded"
      PROVE  row[j].state = "succeeded"
    <2>1. row' = row \/ row' = [row EXCEPT ![i] = [row[i] EXCEPT !.state = "failed"]]
        BY <1>4 DEF RestoreReleases
    <2> QED BY <1>1, <1>4, <2>1 DEF Rows
<1> QED BY <1>2, <1>3, <1>4 DEF Starting, RestoreSlot, RestoreFails, RestoreEnds, Quiet

-----------------------------------------------------------------------------
(***************************************************************************)
(* Publication.                                                            *)
(***************************************************************************)

\* A finish that does not succeed, or of a verification, publishes nothing.
LEMMA FinishQuiet ==
    ASSUME PublicationInvariant, NEW j \in Jobs, Publish(j),
           TerminalOutcome(j) # "succeeded" \/ ~Native(j)
    PROVE  Quiet
<1>1. row \in [Jobs -> Rows]
    BY DEF PublicationInvariant, TypeOK
<1>2. transcripts' = transcripts /\ translations' = translations
    BY DEF Publish, Native
<1>3. row' = [row EXCEPT ![j] = [row[j] EXCEPT !.state = TerminalOutcome(j)]]
    BY DEF Publish
<1> QED BY <1>1, <1>2, <1>3 DEF Quiet, Rows

\* A finish that succeeds writes the first revision of its job, and the job
\* becomes the one that published.
LEMMA FinishWrites ==
    ASSUME PublicationInvariant, NEW j \in Jobs, Publish(j), Active(j), Native(j),
           TerminalOutcome(j) = "succeeded"
    PROVE  Written'
<1>1. /\ TypeOK /\ row \in [Jobs -> Rows] /\ LineageOf[j] \in Lineages
      /\ transcripts \in [Lineages -> Seq(Revisions)]
      /\ translations \in [Lineages -> Seq(Revisions)]
    BY ConstantsAssumption DEF PublicationInvariant, TypeOK, ConstantsAssumption
<1>2. Result(j) \in Revisions /\ Result(j).job = j
    BY <1>1 DEF TypeOK, Result, Revisions, Slots
<1>3. row' = [row EXCEPT ![j].state = "succeeded"]
    BY DEF Publish
<1>4. \A k \in Jobs : Published(k)' <=> (Published(k) \/ k = j)
    BY <1>1, <1>3 DEF Published, Rows, Native
<1>5. WrittenBy(j) = {} /\ ~Published(j)
    BY DEF PublicationInvariant, Written, Published, Active, ActiveStates
<1>6. PICK x : \A k \in Jobs : WrittenBy(k)' = WrittenBy(k) \union (IF k = j THEN {x} ELSE {})
    <2>1. PICK l \in Lineages, e \in Revisions : l = LineageOf[j] /\ e = Result(j) /\ e.job = j
        BY <1>1, <1>2
    <2>2. CASE KindOf[j] = "recognition"
        <3>1. /\ transcripts'[l] = Append(transcripts[l], e) /\ translations' = translations
              /\ \A m \in Lineages \ {l} : transcripts'[m] = transcripts[m]
            BY <1>1, <2>1, <2>2 DEF Publish
        <3>2. ASSUME NEW k \in Jobs
              PROVE  WrittenBy(k)' = WrittenBy(k) \union
                       (IF k = j THEN {<<l, Len(transcripts[l]) + 1>>} ELSE {})
            <4>1. transcripts \in [Lineages -> Seq(Revisions)]
                BY <1>1
            <4>2. WrittenIn(transcripts', k) = WrittenIn(transcripts, k) \union
                    (IF e.job = k THEN {<<l, Len(transcripts[l]) + 1>>} ELSE {})
                BY <3>1, <4>1, WrittenInAppend, Z3
            <4>3. WrittenBy(k)' = WrittenIn(transcripts', k) \union WrittenIn(translations, k)
                BY <3>1 DEF WrittenBy, WrittenIn
            <4>4. CASE k = j
                BY <2>1, <4>2, <4>3, <4>4 DEF WrittenBy
            <4>5. CASE k # j
                BY <2>1, <4>2, <4>3, <4>5 DEF WrittenBy
            <4> QED BY <4>4, <4>5
        <3> WITNESS <<l, Len(transcripts[l]) + 1>>
        <3> QED BY <3>2
    <2>3. CASE KindOf[j] # "recognition"
        <3>1. KindOf[j] = "translation"
            BY <2>3, ConstantsAssumption DEF Native, ConstantsAssumption, Kinds
        <3>2. /\ translations'[l] = Append(translations[l], e) /\ transcripts' = transcripts
              /\ \A m \in Lineages \ {l} : translations'[m] = translations[m]
            BY <1>1, <2>1, <3>1 DEF Publish
        <3>3. ASSUME NEW k \in Jobs
              PROVE  WrittenBy(k)' = WrittenBy(k) \union
                       (IF k = j THEN {<<l, Len(translations[l]) + 1>>} ELSE {})
            <4>1. translations \in [Lineages -> Seq(Revisions)]
                BY <1>1
            <4>2. WrittenIn(translations', k) = WrittenIn(translations, k) \union
                    (IF e.job = k THEN {<<l, Len(translations[l]) + 1>>} ELSE {})
                BY <3>2, <4>1, WrittenInAppend, Z3
            <4>3. WrittenBy(k)' = WrittenIn(transcripts, k) \union WrittenIn(translations', k)
                BY <3>2 DEF WrittenBy, WrittenIn
            <4>4. CASE k = j
                BY <2>1, <4>2, <4>3, <4>4 DEF WrittenBy
            <4>5. CASE k # j
                BY <2>1, <4>2, <4>3, <4>5 DEF WrittenBy
            <4> QED BY <4>4, <4>5
        <3> WITNESS <<l, Len(translations[l]) + 1>>
        <3> QED BY <3>3
    <2> QED BY <2>2, <2>3
<1>7. ASSUME NEW k \in Jobs
      PROVE  IF Published(k)' THEN \E y : WrittenBy(k)' = {y} ELSE WrittenBy(k)' = {}
    <2>1. CASE k = j
        BY <1>4, <1>5, <1>6, <2>1
    <2>2. CASE k # j
        BY <1>4, <1>6, <2>2 DEF PublicationInvariant, Written
    <2> QED BY <2>1, <2>2
<1> QED BY <1>7 DEF Written

\* The revision a finish writes follows the parent its request named.
LEMMA FinishLinear ==
    ASSUME PublicationInvariant, RowStep, NEW j \in Jobs, Publish(j), Active(j),
           row[j].claim = slot[j].claim, TerminalOutcome(j) = "succeeded"
    PROVE  LinearHistory'
<1>1. CASE KindOf[j] # "recognition"
    BY <1>1, HistorySame DEF Publish
<1>2. CASE KindOf[j] = "recognition"
    <2> DEFINE l == LineageOf[j]
    <2>1. /\ TypeOK /\ row \in [Jobs -> Rows] /\ row[j] \in Rows /\ l \in Lineages
          /\ transcripts \in [Lineages -> Seq(Revisions)] /\ transcripts[l] \in Seq(Revisions)
        BY ConstantsAssumption DEF PublicationInvariant, TypeOK, ConstantsAssumption
    <2>2. Result(j) \in Revisions /\ Result(j).job = j /\ Result(j).claim = row[j].claim
        BY <2>1 DEF TypeOK, Result, Revisions, Slots
    <2>3. /\ transcripts'[l] = Append(transcripts[l], Result(j))
          /\ \A k \in Lineages \ {l} : transcripts'[k] = transcripts[k]
        BY <1>2, <2>1 DEF Publish
    <2>4. row[j].parent = Len(transcripts[l])
        BY <1>2 DEF TerminalOutcome, Eligible, LatestParent
    <2>5. row'[j].parent = row[j].parent /\ row'[j].claim = row[j].claim
        <3>1. row' = [row EXCEPT ![j] = [row[j] EXCEPT !.state = TerminalOutcome(j)]]
            BY DEF Publish
        <3> QED BY <2>1, <3>1 DEF Rows
    <2>6. ASSUME NEW k \in Lineages, NEW i \in DOMAIN transcripts[k], transcripts[k][i].job # NoJob
          PROVE  /\ row'[transcripts[k][i].job].parent = i - 1
                 /\ transcripts[k][i].claim = row'[transcripts[k][i].job].claim
        BY <2>6, WriterFinal DEF PublicationInvariant, LinearHistory
    <2>7. ASSUME NEW k \in Lineages, NEW i \in DOMAIN transcripts'[k]
          PROVE  \/ i \in DOMAIN transcripts[k] /\ transcripts'[k][i] = transcripts[k][i]
                 \/ k = l /\ i = Len(transcripts[l]) + 1 /\ transcripts'[k][i] = Result(j)
        <3>1. CASE k = l
            BY <2>1, <2>2, <2>3, <3>1, OneMore, ZenonT(30)
        <3>2. CASE k # l
            BY <2>3, <3>2
        <3> QED BY <3>1, <3>2
    <2>8. Len(transcripts[l]) = (Len(transcripts[l]) + 1) - 1
        BY <2>1
    <2>9. ASSUME NEW k \in Lineages, NEW i \in DOMAIN transcripts'[k], transcripts'[k][i].job # NoJob
          PROVE  /\ row'[transcripts'[k][i].job].parent = i - 1
                 /\ transcripts'[k][i].claim = row'[transcripts'[k][i].job].claim
        BY <2>2, <2>4, <2>5, <2>6, <2>7, <2>8, <2>9
    <2> QED BY <2>9 DEF LinearHistory
<1> QED BY <1>1, <1>2

LEMMA SettlementPublishes ==
    PublicationInvariant /\ RowStep /\ Settlement => Written' /\ LinearHistory'
<1> SUFFICES ASSUME PublicationInvariant, RowStep, Settlement PROVE Written' /\ LinearHistory'
    OBVIOUS
<1> USE DEF catalog, owners, unpublished
<1>1. \/ row' = row /\ transcripts' = transcripts /\ translations' = translations
      \/ \E j \in Jobs : Active(j) /\ ~FinishRefuses(j) /\ Publish(j)
    BY DEF Settlement, DriveEnds, DriveSlot, RememberHold, RememberBusy, RememberUncertain,
           RememberRefused, SettleWaits, Settle, SettleBusy, SettleUncertain, SettleRefused
<1>2. CASE row' = row /\ transcripts' = transcripts /\ translations' = translations
    BY <1>2, QuietKeeps DEF Quiet
<1>3. ASSUME NEW j \in Jobs, Active(j), ~FinishRefuses(j), Publish(j)
      PROVE  Written' /\ LinearHistory'
    <2>1. CASE TerminalOutcome(j) # "succeeded" \/ ~Native(j)
        BY <1>3, <2>1, FinishQuiet, QuietKeeps
    <2>2. CASE TerminalOutcome(j) = "succeeded" /\ Native(j)
        BY <1>3, <2>2, FinishWrites, FinishLinear DEF FinishRefuses
    <2> QED BY <2>1, <2>2
<1> QED BY <1>1, <1>2, <1>3

LEMMA NextPublications == PublicationInvariant /\ [Next]_vars => PublicationInvariant'
<1> SUFFICES ASSUME PublicationInvariant, [Next]_vars PROVE PublicationInvariant'
    OBVIOUS
<1>1. TypeOK' /\ RowStep
    BY NextTypes, NextRows DEF PublicationInvariant
<1>2. (\E j \in Jobs : Working(j) \/ SlotExpires(j)) \/ DriveTurn \/ Boot \/ Shutdown
        \/ Exit \/ Crash \/ UNCHANGED vars => Quiet
    BY DEF Working, WorkerEnds, WorkerUndrained, SlotExpires, DriveTurn, Boot, Shutdown, Exit,
           Crash, vars, catalog, Quiet
<1>3. Quiet \/ (\E l \in Lineages : Correct(l)) \/ Settlement
    BY <1>2, ClientPublishes, SchedulingPublishes, ArrivingPublishes, StartingPublishes DEF Next
<1>4. Written' /\ LinearHistory'
    BY <1>1, <1>3, QuietKeeps, CorrectKeeps, SettlementPublishes
<1> QED BY <1>1, <1>4 DEF PublicationInvariant

\* PublicationInvariant holds in every reachable state.
THEOREM PublicationsAlways == Spec => []PublicationInvariant
BY InitPublications, NextPublications, PTL DEF Spec

\* Whatever is retried, lost, restored or interrupted, a native job has one
\* revision if its row succeeded and none otherwise (terminal_outcome and the
\* finish transaction of publish.rs and translations.rs).
THEOREM RevisionsPublishedOnce == Spec => []PublishedOnce
BY PublicationsAlways, WrittenImplies, PTL DEF PublicationInvariant

\* Each recognition's revision follows the parent its request named, and
\* carries the claim its row has.
THEOREM HistoriesLinear == Spec => []LinearHistory
BY PublicationsAlways, PTL DEF PublicationInvariant

-----------------------------------------------------------------------------
(***************************************************************************)
(* The contract: the pool's rows implement JobContract, and attempts       *)
(* account for generations.                                                *)
(*                                                                         *)
(* Both rest on one description of a step, Change: what it writes to the   *)
(* rows and to the attempts, whichever action it is.                       *)
(***************************************************************************)

\* The five ways a step changes job rows.
AdmitsRow(j) ==
    /\ row[j].state = "absent"
    /\ row' = [row EXCEPT ![j] = Queued(j)]
    /\ attempts' = attempts

LeasesRow(j) ==
    /\ row[j].state = "queued" /\ LineageFree(j) /\ proc # 0
    /\ \E s \in {"running", "failed"} :
          /\ s = "failed" => ~Native(j)
          /\ row' = [row EXCEPT ![j] = [row[j] EXCEPT !.state = s, !.claim = Lease(j)]]
    /\ attempts' = attempts

EndsRow(j) ==
    /\ Active(j)
    /\ \E s \in Terminal : row' = [row EXCEPT ![j] = [row[j] EXCEPT !.state = s]]
    /\ attempts' = attempts

Dropped(j) ==
    \/ row'[j] = row[j]
    \/ /\ row[j].state = "queued"
       /\ \E s \in {"cancelled", "failed"} : row'[j] = [row[j] EXCEPT !.state = s]
    \/ Active(j) /\ row'[j] = [row[j] EXCEPT !.state = "cancelling"]

DropsRows == (\A j \in Jobs : Dropped(j)) /\ attempts' = attempts

RestartsRows(f) ==
    /\ row' = [j \in Jobs |-> IF j \in Ended(f) THEN RecoveredRow(j) ELSE row[j]]
    /\ attempts' = attempts \union {[job |-> j, claim |-> row[j].claim] : j \in Ended(f)}

Change == \/ \E j \in Jobs : AdmitsRow(j) \/ LeasesRow(j) \/ EndsRow(j)
          \/ DropsRows
          \/ \E f \in Families : RestartsRows(f)

\* A service process that does anything has a number.
ProcessNumbered == phase # "down" \/ pc.at # "wait" => proc # 0

LEMMA InitNumbered == Init => ProcessNumbered
BY DEF Init, ProcessNumbered, Wait

\* proc grows at a start and stays otherwise; nothing else leaves the state in
\* which no process was started.
LEMMA NextNumbered == TypeOK /\ ProcessNumbered /\ [Next]_vars => ProcessNumbered'
<1> SUFFICES ASSUME TypeOK, ProcessNumbered, [Next]_vars PROVE ProcessNumbered'
    OBVIOUS
<1> USE DEF catalog, owners, ProcessNumbered
<1>1. CASE Boot
    <2>1. proc \in Nat /\ proc' = proc + 1
        BY <1>1 DEF Boot, TypeOK
    <2> QED BY <2>1
<1>2. ASSUME ~Boot PROVE proc' = proc
    BY <1>2 DEF Next, vars, Client, Enqueue, Cancel, Withdraw, Join, Repin, Correct, StopService,
       Scheduling, SignalDurableStops, NextKind, DecoderMissing, ClaimEnds, Launch, LaunchParks,
       ClaimFails, Settlement, DriveEnds, DriveSlot, RememberHold, RememberBusy,
       RememberUncertain, RememberRefused, SettleWaits, Settle, SettleBusy, SettleUncertain,
       SettleRefused, Starting, Recover, RestoreSlot, RestoreReleases, RestoreFails, RestoreEnds,
       Working, WorkerUndrained, WorkerEnds, Arriving, FinishVerification,
       FinishVerificationFails, ArriveNative, SlotExpires, DriveTurn, Shutdown, Exit, Crash
<1>3. ASSUME proc = 0, ~Boot PROVE phase' = phase /\ pc' = pc
    BY <1>3 DEF Next, vars, Client, Enqueue, Cancel, Withdraw, Join, Repin, Correct, StopService,
       Idle, Scheduling, SignalDurableStops, NextKind, DecoderMissing, ClaimEnds, Launch,
       LaunchParks, ClaimFails, Picks, Settlement, DriveEnds, DriveSlot, RememberHold,
       RememberBusy, RememberUncertain, RememberRefused, Remembering, SettleWaits, Settle,
       SettleBusy, SettleUncertain, SettleRefused, Settling, Attempting, Starting, Recover,
       RestoreSlot, RestoreReleases, Restoring, RestoreFails, RestoreEnds,
       Working, WorkerUndrained, WorkerEnds, Arriving, FinishVerification,
       FinishVerificationFails, ArriveNative, SlotExpires, DriveTurn, Shutdown, Exit, Crash
<1> QED BY <1>1, <1>2, <1>3

-----------------------------------------------------------------------------
(***************************************************************************)
(* Every step is a Change.                                                 *)
(***************************************************************************)

LEMMA RowsStay == row' = row /\ attempts' = attempts => Change
BY DEF Change, DropsRows, Dropped

LEMMA ClientChanges == TypeOK /\ Client => Change
<1> SUFFICES ASSUME TypeOK, Client PROVE Change
    OBVIOUS
<1> USE DEF catalog, owners
<1>1. attempts' = attempts
    BY DEF Client, Enqueue, Join, Cancel, Withdraw, Repin, Correct, StopService
<1>2. ASSUME NEW j \in Jobs, Admissible(j), row' = [row EXCEPT ![j] = Queued(j)] PROVE Change
    BY <1>1, <1>2 DEF Admissible, Change, AdmitsRow
<1>3. ASSUME NEW j \in Jobs, Cancel(j) PROVE DropsRows
    <2>1. /\ row \in [Jobs -> Rows]
          /\ row' = [row EXCEPT ![j] = [row[j] EXCEPT !.state =
                       IF row[j].state = "queued" THEN "cancelled" ELSE "cancelling"]]
        BY <1>3 DEF Cancel, TypeOK
    <2>2. ~(row[j].state = "queued") => Active(j)
        BY <1>3 DEF Cancel, Open, Active, ActiveStates
    <2>3. \A k \in Jobs \ {j} : row'[k] = row[k]
        BY <2>1
    <2> QED BY <1>1, <2>1, <2>2, <2>3 DEF DropsRows, Dropped
<1>4. ASSUME NEW t \in Tasks, Withdraw(t) PROVE DropsRows
    BY <1>1, <1>4 DEF Withdraw, DropsRows, Dropped, Active, ActiveStates
<1>5. ASSUME row' = row PROVE Change
    BY <1>1, <1>5, RowsStay
<1> QED BY <1>2, <1>3, <1>4, <1>5
        DEF Client, Enqueue, Join, Repin, Correct, StopService, Change

LEMMA SchedulingChanges == TypeOK /\ ProcessNumbered /\ Scheduling => Change
<1> SUFFICES ASSUME TypeOK, ProcessNumbered, Scheduling PROVE Change
    OBVIOUS
<1> USE DEF catalog, owners
<1>1. attempts' = attempts
    BY DEF Scheduling, SignalDurableStops, NextKind, DecoderMissing, ClaimEnds, Launch,
           LaunchParks, ClaimFails
<1>2. ASSUME NEW j \in Jobs, Picks(j)
      PROVE  /\ row \in [Jobs -> Rows] /\ row[j].state = "queued" /\ LineageFree(j) /\ proc # 0
             /\ Claimed(j) = [row EXCEPT ![j] = [row[j] EXCEPT !.state = "running",
                                                               !.claim = Lease(j)]]
    BY <1>2 DEF Picks, Candidates, MayClaim, ProcessNumbered, TypeOK, Claimed
<1>3. ASSUME NEW j \in Jobs, ClaimEnds(j) PROVE DropsRows
    <2>1. Picks(j) /\ row' = [row EXCEPT ![j] = [row[j] EXCEPT !.state = "failed"]]
        BY <1>3 DEF ClaimEnds
    <2>2. \A k \in Jobs \ {j} : row'[k] = row[k]
        BY <1>2, <2>1
    <2> QED BY <1>1, <1>2, <2>1, <2>2 DEF DropsRows, Dropped
<1>4. ASSUME NEW j \in Jobs, Picks(j), row' = Claimed(j) PROVE LeasesRow(j)
    BY <1>1, <1>2, <1>4 DEF LeasesRow
<1>5. ASSUME NEW j \in Jobs, Picks(j), ~Native(j), row' = [Claimed(j) EXCEPT ![j].state = "failed"]
      PROVE  LeasesRow(j)
    <2>1. row' = [row EXCEPT ![j] = [row[j] EXCEPT !.state = "failed", !.claim = Lease(j)]]
        BY <1>5 DEF Claimed, TypeOK, Rows
    <2> QED BY <1>1, <1>2, <1>5, <2>1 DEF LeasesRow
<1>6. ASSUME row' = row PROVE Change
    BY <1>1, <1>6, RowsStay
<1> QED BY <1>3, <1>4, <1>5, <1>6
        DEF Scheduling, SignalDurableStops, NextKind, DecoderMissing, Launch, LaunchParks,
            ClaimFails, Change, Native

LEMMA ArrivingChanges == TypeOK /\ (\E j \in Jobs : Arriving(j)) => Change
<1> SUFFICES ASSUME TypeOK, NEW j \in Jobs, Arriving(j) PROVE Change
    OBVIOUS
<1> USE DEF catalog, owners
<1>1. attempts' = attempts
    BY DEF Arriving, FinishVerification, FinishVerificationFails, ArriveNative
<1>2. ASSUME Arrived(j), ~Native(j), row' = VerificationRow(j), row' # row PROVE Change
    <2>1. Active(j) /\ row' = [row EXCEPT ![j] = [row[j] EXCEPT !.state = VerificationOutcome(j)]]
        BY <1>2 DEF VerificationRow
    <2>2. VerificationOutcome(j) \in Terminal
        BY <1>2 DEF TypeOK, VerificationOutcome, Arrived, Pools, Workers, Bodies, Terminal
    <2> QED BY <1>1, <2>1, <2>2 DEF Change, EndsRow
<1>3. ASSUME row' = row PROVE Change
    BY <1>1, <1>3, RowsStay
<1> QED BY <1>2, <1>3 DEF Arriving, FinishVerification, FinishVerificationFails, ArriveNative

LEMMA SettlementChanges == TypeOK /\ Settlement => Change
<1> SUFFICES ASSUME TypeOK, Settlement PROVE Change
    OBVIOUS
<1> USE DEF catalog, owners, unpublished
<1>1. attempts' = attempts
    BY DEF Settlement, DriveEnds, DriveSlot, RememberHold, RememberBusy, RememberUncertain,
           RememberRefused, SettleWaits, Settle, SettleBusy, SettleUncertain, SettleRefused
<1>2. row' = row \/ \E j \in Jobs : Active(j) /\ Publish(j)
    BY DEF Settlement, DriveEnds, DriveSlot, RememberHold, RememberBusy, RememberUncertain,
           RememberRefused, SettleWaits, Settle, SettleBusy, SettleUncertain, SettleRefused
<1>3. ASSUME NEW j \in Jobs, Active(j), Publish(j) PROVE EndsRow(j)
    <2>1. row' = [row EXCEPT ![j] = [row[j] EXCEPT !.state = TerminalOutcome(j)]]
        BY <1>3 DEF Publish
    <2>2. TerminalOutcome(j) \in Terminal
        BY DEF TerminalOutcome, Terminal
    <2> QED BY <1>1, <1>3, <2>1, <2>2 DEF EndsRow
<1> QED BY <1>1, <1>2, <1>3, RowsStay DEF Change

LEMMA StartingChanges == TypeOK /\ Starting => Change
<1> SUFFICES ASSUME TypeOK, Starting PROVE Change
    OBVIOUS
<1> USE DEF catalog, owners
<1>1. ASSUME NEW f \in Families, Recover(f) PROVE RestartsRows(f)
    BY <1>1 DEF Recover, RestartsRows
<1>2. ASSUME NEW j \in Jobs, RestoreReleases(j) PROVE Change
    <2>1. attempts' = attempts
        BY <1>2 DEF RestoreReleases
    <2>2. \/ row' = row
          \/ Active(j) /\ row' = [row EXCEPT ![j] = [row[j] EXCEPT !.state = "failed"]]
        BY <1>2 DEF RestoreReleases
    <2> QED BY <2>1, <2>2, RowsStay DEF Change, EndsRow, Terminal
<1>3. RestoreFails \/ RestoreEnds \/ (\E j \in Jobs : RestoreSlot(j)) => Change
    BY RowsStay DEF RestoreFails, RestoreEnds, RestoreSlot
<1> QED BY <1>1, <1>2, <1>3 DEF Starting, Change

LEMMA NextChanges == TypeOK /\ ProcessNumbered /\ [Next]_vars => Change
<1>1. (\E j \in Jobs : Working(j) \/ SlotExpires(j)) \/ DriveTurn \/ Boot \/ Shutdown
        \/ Exit \/ Crash \/ UNCHANGED vars => row' = row /\ attempts' = attempts
    BY DEF Working, WorkerEnds, WorkerUndrained, SlotExpires, DriveTurn, Boot, Shutdown, Exit,
           Crash, vars, catalog
<1> QED BY <1>1, RowsStay, ClientChanges, SchedulingChanges, ArrivingChanges,
           SettlementChanges, StartingChanges DEF Next

-----------------------------------------------------------------------------
(***************************************************************************)
(* What a lease tells about its row.                                       *)
(***************************************************************************)

\* A queued row has no owner and an attempt to run, an active row has an owner,
\* and an attempt number stays within its bound.
LeaseShape(j) ==
    /\ row[j].state = "absent" => row[j].claim = NoClaim
    /\ row[j].state # "absent" => row[j].claim.gen # 0 /\ row[j].claim.attempt # 0
    /\ row[j].state = "queued" => row[j].claim.owner = 0
    /\ Active(j) => row[j].claim.owner # 0
    /\ row[j].claim.attempt <= MaxAttempts

LeaseShapes == \A j \in Jobs : LeaseShape(j)

LEMMA InitShapes == Init => LeaseShapes
BY ConstantsAssumption DEF ConstantsAssumption, Init, LeaseShapes, LeaseShape, NoRow, NoClaim,
   Active, ActiveStates

\* One job's rows around a Change: the fields the new row has.
LEMMA RowChanges ==
    ASSUME TypeOK, Change, NEW j \in Jobs
    PROVE  \/ row'[j] = row[j]
           \/ /\ row[j].state = "absent" /\ row'[j].state = "queued"
              /\ row'[j].claim = [gen |-> 1, attempt |-> 1, owner |-> 0]
           \/ /\ row[j].state = "queued" /\ row'[j].state \in {"running", "failed"}
              /\ proc # 0 /\ row'[j].claim = Lease(j)
           \/ /\ row[j].state = "queued" /\ row'[j].state \in {"cancelled", "failed"}
              /\ row'[j].claim = row[j].claim
           \/ /\ Active(j) /\ row'[j].state \in {"cancelling"} \union Terminal
              /\ row'[j].claim = row[j].claim
           \/ /\ Active(j) /\ Requeues(j) /\ row'[j].state = "queued"
              /\ row'[j].claim = [gen |-> row[j].claim.gen + 1,
                                  attempt |-> row[j].claim.attempt + 1, owner |-> 0]
           \/ /\ Active(j) /\ row'[j].state = "interrupted"
              /\ row'[j].claim = [row[j].claim EXCEPT !.gen = @ + 1]
<1>1. row \in [Jobs -> Rows] /\ row[j] \in Rows
    BY DEF TypeOK
<1>2. ASSUME NEW i \in Jobs, AdmitsRow(i)
      PROVE  \/ row'[j] = row[j]
             \/ /\ row[j].state = "absent" /\ row'[j].state = "queued"
                /\ row'[j].claim = [gen |-> 1, attempt |-> 1, owner |-> 0]
    BY <1>1, <1>2 DEF AdmitsRow, Queued
<1>3. ASSUME NEW i \in Jobs, LeasesRow(i)
      PROVE  \/ row'[j] = row[j]
             \/ /\ row[j].state = "queued" /\ row'[j].state \in {"running", "failed"}
                /\ proc # 0 /\ row'[j].claim = Lease(j)
    BY <1>1, <1>3 DEF LeasesRow, Rows
<1>4. ASSUME NEW i \in Jobs, EndsRow(i)
      PROVE  \/ row'[j] = row[j]
             \/ Active(j) /\ row'[j].state \in Terminal /\ row'[j].claim = row[j].claim
    BY <1>1, <1>4 DEF EndsRow, Rows
<1>5. ASSUME DropsRows
      PROVE  \/ row'[j] = row[j]
             \/ /\ row[j].state = "queued" /\ row'[j].state \in {"cancelled", "failed"}
                /\ row'[j].claim = row[j].claim
             \/ Active(j) /\ row'[j].state = "cancelling" /\ row'[j].claim = row[j].claim
    BY <1>1, <1>5 DEF DropsRows, Dropped, Rows
<1>6. ASSUME NEW f \in Families, RestartsRows(f)
      PROVE  \/ row'[j] = row[j]
             \/ /\ Active(j) /\ Requeues(j) /\ row'[j].state = "queued"
                /\ row'[j].claim = [gen |-> row[j].claim.gen + 1,
                                    attempt |-> row[j].claim.attempt + 1, owner |-> 0]
             \/ /\ Active(j) /\ row'[j].state = "interrupted"
                /\ row'[j].claim = [row[j].claim EXCEPT !.gen = @ + 1]
    <2>1. row'[j] = IF j \in Ended(f) THEN RecoveredRow(j) ELSE row[j]
        BY <1>6 DEF RestartsRows
    <2>2. j \in Ended(f) => Active(j)
        BY DEF Ended, Lost
    <2> QED BY <1>1, <2>1, <2>2 DEF RecoveredRow, Rows
<1> QED BY <1>2, <1>3, <1>4, <1>5, <1>6 DEF Change

LEMMA ChangeKeepsShapes == TypeOK /\ LeaseShapes /\ Change => LeaseShapes'
<1> SUFFICES ASSUME TypeOK, LeaseShapes, Change, NEW j \in Jobs PROVE LeaseShape(j)'
    BY DEF LeaseShapes
<1>1. /\ row[j].claim.gen \in Nat /\ row[j].claim.attempt \in Nat /\ row[j].claim \in Claims
      /\ proc \in Nat /\ MaxAttempts \in Nat \ {0} /\ LeaseShape(j)
    BY ConstantsAssumption DEF ConstantsAssumption, TypeOK, Rows, Claims, LeaseShapes
<1>2. /\ Lease(j).gen = row[j].claim.gen /\ Lease(j).attempt = row[j].claim.attempt
      /\ Lease(j).owner = proc
    BY <1>1 DEF Lease, Claims
<1>3. /\ [row[j].claim EXCEPT !.gen = @ + 1].gen = row[j].claim.gen + 1
      /\ [row[j].claim EXCEPT !.gen = @ + 1].attempt = row[j].claim.attempt
    BY <1>1 DEF Claims
<1>4. Requeues(j) => row[j].claim.attempt < MaxAttempts
    BY DEF Requeues
<1>5. CASE row'[j] = row[j]
    BY <1>1, <1>5 DEF LeaseShape, Active
<1>6. CASE /\ row[j].state = "absent" /\ row'[j].state = "queued"
           /\ row'[j].claim = [gen |-> 1, attempt |-> 1, owner |-> 0]
    BY <1>1, <1>6 DEF LeaseShape, Active, ActiveStates
<1>7. CASE /\ row[j].state = "queued" /\ row'[j].state \in {"running", "failed"}
           /\ proc # 0 /\ row'[j].claim = Lease(j)
    BY <1>1, <1>2, <1>7 DEF LeaseShape, Active, ActiveStates
<1>8. CASE /\ row[j].state = "queued" /\ row'[j].state \in {"cancelled", "failed"}
           /\ row'[j].claim = row[j].claim
    BY <1>1, <1>8 DEF LeaseShape, Active, ActiveStates
<1>9. CASE /\ Active(j) /\ row'[j].state \in {"cancelling"} \union Terminal
           /\ row'[j].claim = row[j].claim
    BY <1>1, <1>9 DEF LeaseShape, Active, ActiveStates, Terminal
<1>10. CASE /\ Active(j) /\ Requeues(j) /\ row'[j].state = "queued"
            /\ row'[j].claim = [gen |-> row[j].claim.gen + 1,
                                attempt |-> row[j].claim.attempt + 1, owner |-> 0]
    BY <1>1, <1>4, <1>10 DEF LeaseShape, Active, ActiveStates
<1>11. CASE /\ Active(j) /\ row'[j].state = "interrupted"
            /\ row'[j].claim = [row[j].claim EXCEPT !.gen = @ + 1]
    BY <1>1, <1>3, <1>11 DEF LeaseShape, Active, ActiveStates
<1> QED BY <1>5, <1>6, <1>7, <1>8, <1>9, <1>10, <1>11, RowChanges

-----------------------------------------------------------------------------
(***************************************************************************)
(* Attempts.                                                               *)
(***************************************************************************)

EndedOf(j) == {a \in attempts : a.job = j}
NumbersOf(j) == {a.claim.attempt : a \in EndedOf(j)}

\* The ended attempts of a job are finitely many, one for each generation past
\* the first, under distinct numbers none of which an open row has again.
Accounted(j) ==
    /\ row[j].state = "absent" => EndedOf(j) = {}
    /\ IsFiniteSet(EndedOf(j)) /\ IsFiniteSet(NumbersOf(j))
    /\ row[j].state # "absent" => Cardinality(EndedOf(j)) = row[j].claim.gen - 1
    /\ Cardinality(NumbersOf(j)) = Cardinality(EndedOf(j))
    /\ \A n \in NumbersOf(j) : row[j].state \in Open => n < row[j].claim.attempt

AttemptInvariant == TypeOK /\ ProcessNumbered /\ LeaseShapes /\ \A j \in Jobs : Accounted(j)

LEMMA AccountedImplies == AttemptInvariant => AttemptsAccountForGenerations
BY DEF AttemptInvariant, AttemptsAccountForGenerations, Accounted, EndedOf, NumbersOf,
   LeaseShapes, LeaseShape

LEMMA InitAttempts == Init => AttemptInvariant
<1> SUFFICES ASSUME Init, NEW j \in Jobs PROVE Accounted(j)
    BY InitTypes, InitNumbered, InitShapes DEF AttemptInvariant
<1>1. EndedOf(j) = {} /\ NumbersOf(j) = {} /\ row[j].state = "absent"
    BY DEF Init, EndedOf, NumbersOf, NoRow
<1> QED BY <1>1, FS_EmptySet DEF Accounted, Open

\* The attempt numbers of one more attempt.
LEMMA OneMoreNumber ==
    ASSUME NEW S, NEW x
    PROVE  {a.claim.attempt : a \in S \union {x}} =
             {a.claim.attempt : a \in S} \union {x.claim.attempt}
OBVIOUS

\* A restart that ends the claim of job j adds one attempt, with a new number.
LEMMA RestartAccounts ==
    ASSUME AttemptInvariant, NEW f \in Families, RestartsRows(f), NEW j \in Ended(f)
    PROVE  Accounted(j)'
<1> DEFINE new == [job |-> j, claim |-> row[j].claim]
           number == row[j].claim.attempt
<1>1. j \in Jobs /\ Active(j) /\ row[j].state \in Open /\ row[j].state # "absent"
    BY DEF Ended, Lost, Active, ActiveStates, Open
<1>2. /\ row[j].claim.gen \in Nat /\ number \in Nat /\ row[j] \in Rows /\ row[j].claim \in Claims
      /\ Accounted(j)
    BY <1>1 DEF AttemptInvariant, TypeOK, Rows, Claims
<1>3. EndedOf(j)' = EndedOf(j) \union {new}
    BY DEF RestartsRows, EndedOf
<1>4. NumbersOf(j)' = NumbersOf(j) \union {number}
    <2>1. new.claim.attempt = number
        OBVIOUS
    <2>2. NumbersOf(j)' = {a.claim.attempt : a \in EndedOf(j)'}
        BY DEF NumbersOf
    <2> HIDE DEF new, number
    <2>3. {a.claim.attempt : a \in EndedOf(j) \union {new}} =
            {a.claim.attempt : a \in EndedOf(j)} \union {new.claim.attempt}
        BY OneMoreNumber
    <2> QED BY <1>3, <2>1, <2>2, <2>3 DEF NumbersOf
<1>5. number \notin NumbersOf(j)
    BY <1>1, <1>2 DEF Accounted
<1>6. new \notin EndedOf(j)
    BY <1>5 DEF NumbersOf
<1>7. /\ IsFiniteSet(EndedOf(j)') /\ IsFiniteSet(NumbersOf(j)')
      /\ Cardinality(EndedOf(j)') = Cardinality(EndedOf(j)) + 1
      /\ Cardinality(NumbersOf(j)') = Cardinality(NumbersOf(j)) + 1
    <2> HIDE DEF new, number
    <2>1. IsFiniteSet(EndedOf(j)) /\ IsFiniteSet(NumbersOf(j))
        BY <1>2 DEF Accounted
    <2>2. /\ IsFiniteSet(EndedOf(j) \union {new})
          /\ Cardinality(EndedOf(j) \union {new}) = Cardinality(EndedOf(j)) + 1
        BY <2>1, <1>6, FS_AddElement
    <2>3. /\ IsFiniteSet(NumbersOf(j) \union {number})
          /\ Cardinality(NumbersOf(j) \union {number}) = Cardinality(NumbersOf(j)) + 1
        BY <2>1, <1>5, FS_AddElement
    <2> QED BY <1>3, <1>4, <2>2, <2>3
<1>8. row'[j] = RecoveredRow(j)
    BY <1>1 DEF RestartsRows
<1>9. /\ row'[j].claim.gen = row[j].claim.gen + 1
      /\ \/ row'[j].state = "queued" /\ row'[j].claim.attempt = number + 1
         \/ row'[j].state = "interrupted"
    BY <1>2, <1>8 DEF RecoveredRow, Rows, Claims
<1>10. Cardinality(EndedOf(j)') = row'[j].claim.gen - 1
    BY <1>1, <1>2, <1>7, <1>9 DEF Accounted
<1>11. \A n \in NumbersOf(j)' : row'[j].state \in Open => n < row'[j].claim.attempt
    <2>1. CASE row'[j].state = "queued" /\ row'[j].claim.attempt = number + 1
        <3>1. \A n \in NumbersOf(j) : n < number
            BY <1>1, <1>2 DEF Accounted
        <3>2. \A n \in NumbersOf(j) : n \in Nat
            BY DEF AttemptInvariant, TypeOK, NumbersOf, EndedOf, JobClaims, Claims
        <3> QED BY <1>2, <1>4, <2>1, <3>1, <3>2
    <2>2. CASE row'[j].state = "interrupted"
        BY <2>2 DEF Open
    <2> QED BY <1>9, <2>1, <2>2
<1> QED BY <1>2, <1>7, <1>9, <1>10, <1>11 DEF Accounted

LEMMA NextAttempts == AttemptInvariant /\ [Next]_vars => AttemptInvariant'
<1> SUFFICES ASSUME AttemptInvariant, [Next]_vars PROVE AttemptInvariant'
    OBVIOUS
<1>1. TypeOK' /\ ProcessNumbered' /\ Change /\ LeaseShapes'
    BY NextTypes, NextNumbered, NextChanges, ChangeKeepsShapes DEF AttemptInvariant
<1>2. ASSUME NEW j \in Jobs, EndedOf(j)' = EndedOf(j), row'[j] = row[j] PROVE Accounted(j)'
    <2>1. NumbersOf(j)' = NumbersOf(j)
        BY <1>2 DEF NumbersOf
    <2> QED BY <1>2, <2>1 DEF AttemptInvariant, Accounted
<1>3. ASSUME attempts' = attempts, row' \in [Jobs -> Rows],
             NEW j \in Jobs,
             \/ row[j].state = "absent" /\ row'[j].state = "queued" /\ row'[j].claim.gen = 1
             \/ /\ row[j].state \in Open /\ row'[j].state # "absent"
                /\ row'[j].claim.gen = row[j].claim.gen
                /\ row'[j].claim.attempt = row[j].claim.attempt
      PROVE  Accounted(j)'
    <2>1. EndedOf(j)' = EndedOf(j) /\ NumbersOf(j)' = NumbersOf(j) /\ Accounted(j)
        BY <1>3 DEF EndedOf, NumbersOf, AttemptInvariant
    <2>2. CASE row[j].state = "absent" /\ row'[j].state = "queued" /\ row'[j].claim.gen = 1
        <3>1. EndedOf(j) = {} /\ NumbersOf(j) = {} /\ Cardinality(EndedOf(j)) = 0
            BY <2>1, <2>2, FS_EmptySet DEF Accounted, NumbersOf
        <3> QED BY <2>1, <2>2, <3>1 DEF Accounted
    <2>3. CASE /\ row[j].state \in Open /\ row'[j].state # "absent"
               /\ row'[j].claim.gen = row[j].claim.gen
               /\ row'[j].claim.attempt = row[j].claim.attempt
        BY <2>1, <2>3 DEF Accounted, Open
    <2> QED BY <1>3, <2>2, <2>3
<1>4. ASSUME NEW f \in Families, RestartsRows(f), NEW j \in Jobs PROVE Accounted(j)'
    <2>1. CASE j \in Ended(f)
        BY <1>4, <2>1, RestartAccounts
    <2>2. CASE j \notin Ended(f)
        <3>1. row'[j] = row[j] /\ EndedOf(j)' = EndedOf(j)
            BY <1>4, <2>2 DEF RestartsRows, EndedOf
        <3> QED BY <1>2, <3>1
    <2> QED BY <2>1, <2>2
<1>5. ASSUME ~\E f \in Families : RestartsRows(f), NEW j \in Jobs PROVE Accounted(j)'
    <2>1. attempts' = attempts /\ EndedOf(j)' = EndedOf(j)
        BY <1>1, <1>5 DEF Change, AdmitsRow, LeasesRow, EndsRow, DropsRows, EndedOf
    <2>2. row \in [Jobs -> Rows] /\ row' \in [Jobs -> Rows] /\ row[j] \in Rows
        BY <1>1 DEF AttemptInvariant, TypeOK
    <2>3. Lease(j).gen = row[j].claim.gen /\ Lease(j).attempt = row[j].claim.attempt
        BY <2>2 DEF Lease, Rows, Claims
    <2>4. \/ row'[j] = row[j]
          \/ row[j].state = "absent" /\ row'[j].state = "queued" /\ row'[j].claim.gen = 1
          \/ /\ row[j].state \in Open /\ row'[j].state # "absent"
             /\ row'[j].claim.gen = row[j].claim.gen
             /\ row'[j].claim.attempt = row[j].claim.attempt
        <3>1. ASSUME NEW i \in Jobs, AdmitsRow(i)
              PROVE  row'[j] = row[j] \/ (row[j].state = "absent" /\ row'[j] = Queued(j))
            BY <2>2, <3>1 DEF AdmitsRow
        <3>2. ASSUME NEW i \in Jobs, LeasesRow(i)
              PROVE  \/ row'[j] = row[j]
                     \/ /\ row[j].state = "queued" /\ row'[j].state # "absent"
                        /\ row'[j].claim = Lease(j)
            BY <2>2, <3>2 DEF LeasesRow, Rows
        <3>3. ASSUME NEW i \in Jobs, EndsRow(i)
              PROVE  \/ row'[j] = row[j]
                     \/ Active(j) /\ row'[j].state \in Terminal /\ row'[j].claim = row[j].claim
            BY <2>2, <3>3 DEF EndsRow, Rows
        <3>4. ASSUME DropsRows
              PROVE  \/ row'[j] = row[j]
                     \/ /\ row[j].state \in Open /\ row'[j].state # "absent"
                        /\ row'[j].claim = row[j].claim
            BY <2>2, <3>4 DEF DropsRows, Dropped, Rows, Active, ActiveStates, Open
        <3> QED BY <1>1, <1>5, <2>3, <3>1, <3>2, <3>3, <3>4
                DEF Change, Queued, Active, ActiveStates, Open, Terminal
    <2> QED BY <1>2, <1>3, <2>1, <2>2, <2>4
<1> QED BY <1>1, <1>4, <1>5 DEF AttemptInvariant

\* AttemptInvariant holds in every reachable state.
THEOREM AttemptsAlways == Spec => []AttemptInvariant
BY InitAttempts, NextAttempts, PTL DEF Spec

\* Each generation a restart ended has one attempt row under a number of its
\* own, and no job is given more than MAX_ATTEMPTS attempts (recover and
\* record_attempt of the job pool).
THEOREM GenerationsAccounted == Spec => []AttemptsAccountForGenerations
BY AttemptsAlways, AccountedImplies, PTL

-----------------------------------------------------------------------------
(***************************************************************************)
(* The rows implement JobContract.                                         *)
(***************************************************************************)

ContractInvariant == AttemptInvariant /\ PublicationInvariant

StageMap == [j \in Jobs |-> Stage(j)]
RunMap == [j \in Jobs |-> Runs(j)]
Publishers == {j \in Jobs : WrittenBy(j) # {}}

StageOf(state) == IF state = "absent" THEN "new"
                  ELSE IF state = "queued" THEN "waiting"
                  ELSE IF state \in ActiveStates THEN "working" ELSE "done"

\* The jobs that published are the native ones that succeeded.
LEMMA PublishersSucceeded ==
    /\ Written => Publishers = {j \in Jobs : Published(j)}
    /\ Written' => Publishers' = {j \in Jobs : Published(j)'}
BY DEF Written, Publishers

\* A stage is a function of the state of its row.
LEMMA StageOfRow ==
    ASSUME NEW j \in Jobs
    PROVE  Stage(j) = StageOf(row[j].state) /\ Stage(j)' = StageOf(row'[j].state)
BY DEF Stage, StageOf, ActiveStates

\* A row that stays keeps its place in the contract.
LEMMA RowKeepsPlace ==
    ASSUME NEW j \in Jobs, row'[j] = row[j]
    PROVE  Stage(j)' = Stage(j) /\ Runs(j)' = Runs(j) /\ Published(j)' = Published(j)
BY StageOfRow DEF Runs, Published, Native

\* A row that keeps its claim keeps its runs.
LEMMA ClaimKeepsRuns ==
    ASSUME NEW j \in Jobs, row'[j].claim = row[j].claim
    PROVE  Runs(j)' = Runs(j)
BY DEF Runs

\* The initial rows are the contract's initial state.
LEMMA InitContract == Init => Contract!Init
<1> SUFFICES ASSUME Init PROVE Contract!Init
    OBVIOUS
<1>1. Written
    BY InitPublications DEF PublicationInvariant
<1>2. \A j \in Jobs : Stage(j) = "new" /\ Runs(j) = 0
    BY StageOfRow DEF Init, NoRow, NoClaim, Runs, StageOf
<1>3. Publishers = {}
    BY <1>1, PublishersSucceeded DEF Published, Init, NoRow
<1> QED BY <1>2, <1>3 DEF Contract!Init, Publishers

\* An admission.
LEMMA AdmitContract ==
    ASSUME ContractInvariant, ContractInvariant', NEW j \in Jobs, AdmitsRow(j)
    PROVE  Contract!Admit(j)
<1>1. /\ row \in [Jobs -> Rows] /\ Written /\ Written' /\ row[j].claim = NoClaim
      /\ row[j].state = "absent"
    BY DEF ContractInvariant, AttemptInvariant, PublicationInvariant, TypeOK, LeaseShapes,
           LeaseShape, AdmitsRow
<1>2. row'[j] = Queued(j) /\ \A k \in Jobs \ {j} : row'[k] = row[k]
    BY <1>1 DEF AdmitsRow
<1>3. Stage(j) = "new" /\ Stage(j)' = "waiting" /\ Runs(j)' = Runs(j) /\ Published(j)' = Published(j)
    BY <1>1, <1>2, StageOfRow DEF StageOf, Runs, Published, Queued, NoClaim
<1>4. StageMap' = [StageMap EXCEPT ![j] = "waiting"] /\ RunMap' = RunMap
    BY <1>2, <1>3, RowKeepsPlace DEF StageMap, RunMap
<1>5. Publishers' = Publishers
    BY <1>1, <1>2, <1>3, RowKeepsPlace, PublishersSucceeded
<1> QED BY <1>3, <1>4, <1>5 DEF Contract!Admit, StageMap, RunMap, Publishers

\* A lease: the run is spent, also when the verification worker did not start.
LEMMA LeaseContract ==
    ASSUME ContractInvariant, ContractInvariant', NEW j \in Jobs, LeasesRow(j)
    PROVE  Contract!Start(j)
<1>1. PICK s \in {"running", "failed"} :
        /\ s = "failed" => ~Native(j)
        /\ row' = [row EXCEPT ![j] = [row[j] EXCEPT !.state = s, !.claim = Lease(j)]]
    BY DEF LeasesRow
<1>2. /\ row \in [Jobs -> Rows] /\ row[j] \in Rows /\ row[j].claim \in Claims
      /\ Written /\ Written' /\ row[j].state = "queued" /\ proc # 0 /\ LineageFree(j)
      /\ LeaseShape(j)
    BY DEF ContractInvariant, AttemptInvariant, PublicationInvariant, TypeOK, LeaseShapes,
           LeasesRow, Rows
<1>3. /\ row'[j].state = s /\ row'[j].claim = Lease(j)
      /\ \A k \in Jobs \ {j} : row'[k] = row[k]
    BY <1>1, <1>2 DEF Rows
<1>4. /\ row[j].claim.owner = 0 /\ row[j].claim.attempt # 0 /\ row[j].claim.attempt \in Nat
      /\ row[j].claim.attempt <= MaxAttempts /\ MaxAttempts \in Nat
      /\ Lease(j).owner # 0 /\ Lease(j).attempt = row[j].claim.attempt
    BY <1>2, ConstantsAssumption DEF ConstantsAssumption, LeaseShape, Lease, Claims
<1>5. Runs(j) < MaxAttempts /\ Runs(j)' = Runs(j) + 1
    BY <1>3, <1>4 DEF Runs
<1>6. /\ Stage(j) = "waiting"
      /\ Stage(j)' = IF s = "running" THEN "working" ELSE "done"
      /\ Published(j)' = Published(j)
    BY <1>1, <1>2, <1>3, StageOfRow DEF StageOf, ActiveStates, Published
<1>7. \A k \in Rivals(j) : k \in Jobs /\ StageMap[k] # "working"
    BY <1>2, StageOfRow DEF LineageFree, Rivals, Active, ActiveStates, StageOf, StageMap
<1>8. /\ StageMap' = [StageMap EXCEPT ![j] = Stage(j)'] /\ Stage(j)' \in {"working", "done"}
      /\ RunMap' = [RunMap EXCEPT ![j] = @ + 1]
    BY <1>3, <1>5, <1>6, RowKeepsPlace DEF StageMap, RunMap
<1>9. Publishers' = Publishers
    BY <1>2, <1>3, <1>6, RowKeepsPlace, PublishersSucceeded
<1>10. StageMap[j] = "waiting" /\ RunMap[j] < MaxAttempts
    BY <1>5, <1>6 DEF StageMap, RunMap
<1> QED BY <1>7, <1>8, <1>9, <1>10 DEF Contract!Start, StageMap, RunMap, Publishers

\* The end of active work, with or without a publication.
LEMMA FinishContract ==
    ASSUME ContractInvariant, ContractInvariant', NEW j \in Jobs, EndsRow(j)
    PROVE  Contract!Finish(j)
<1>1. PICK s \in Terminal : row' = [row EXCEPT ![j] = [row[j] EXCEPT !.state = s]]
    BY DEF EndsRow
<1>2. row \in [Jobs -> Rows] /\ row[j] \in Rows /\ Written /\ Written' /\ Active(j)
    BY DEF ContractInvariant, AttemptInvariant, PublicationInvariant, TypeOK, EndsRow
<1>3. /\ row'[j].state = s /\ row'[j].claim = row[j].claim
      /\ \A k \in Jobs \ {j} : row'[k] = row[k]
    BY <1>1, <1>2 DEF Rows
<1>4. Stage(j) = "working" /\ Stage(j)' = "done" /\ ~Published(j)
    BY <1>2, <1>3, StageOfRow DEF StageOf, Active, ActiveStates, Terminal, Published
<1>5. StageMap' = [StageMap EXCEPT ![j] = "done"] /\ RunMap' = RunMap /\ StageMap[j] = "working"
    BY <1>3, <1>4, RowKeepsPlace, ClaimKeepsRuns DEF StageMap, RunMap
<1>6. Publishers' \in {Publishers, Publishers \union {j}}
    <2>1. /\ Publishers = {k \in Jobs : Published(k)}
          /\ Publishers' = {k \in Jobs : Published(k)'}
          /\ \A k \in Jobs \ {j} : Published(k)' = Published(k)
        BY <1>2, <1>3, RowKeepsPlace, PublishersSucceeded
    <2>2. CASE Published(j)'
        BY <1>4, <2>1, <2>2
    <2>3. CASE ~Published(j)'
        BY <1>4, <2>1, <2>3
    <2> QED BY <2>2, <2>3
<1> QED BY <1>5, <1>6 DEF Contract!Finish, StageMap, RunMap, Publishers

\* Waiting work that is dropped, and active work that is told to stop.
LEMMA DropContract ==
    ASSUME ContractInvariant, ContractInvariant', DropsRows
    PROVE  \E again, ended \in SUBSET Jobs : Contract!Reset(again, ended)
<1> DEFINE ended == {j \in Jobs : row[j].state = "queued" /\ row'[j].state # "queued"}
<1>1. /\ Written /\ Written' /\ \A j \in Jobs : row[j] \in Rows /\ Dropped(j)
    BY DEF ContractInvariant, AttemptInvariant, PublicationInvariant, TypeOK, DropsRows
<1>2. ASSUME NEW j \in Jobs
      PROVE  /\ Runs(j)' = Runs(j) /\ Published(j)' = Published(j)
             /\ Stage(j)' = IF j \in ended THEN "done" ELSE Stage(j)
             /\ j \in ended => Stage(j) = "waiting"
    <2>1. CASE row'[j] = row[j]
        BY <2>1, RowKeepsPlace
    <2>2. ASSUME row[j].state = "queued", NEW s \in {"cancelled", "failed"},
                 row'[j] = [row[j] EXCEPT !.state = s]
          PROVE  <1>2!2
        <3>1. row'[j].state = s /\ row'[j].claim = row[j].claim
            BY <1>1, <2>2 DEF Rows
        <3> QED BY <2>2, <3>1, StageOfRow, ClaimKeepsRuns DEF StageOf, ActiveStates, Published
    <2>3. CASE Active(j) /\ row'[j] = [row[j] EXCEPT !.state = "cancelling"]
        <3>1. row'[j].state = "cancelling" /\ row'[j].claim = row[j].claim
            BY <1>1, <2>3 DEF Rows
        <3> QED BY <2>3, <3>1, StageOfRow, ClaimKeepsRuns
                DEF StageOf, Active, ActiveStates, Published
    <2> QED BY <1>1, <2>1, <2>2, <2>3 DEF Dropped
<1>3. /\ StageMap' = [j \in Jobs |-> IF j \in {} THEN "waiting"
                                     ELSE IF j \in ended THEN "done" ELSE StageMap[j]]
      /\ RunMap' = RunMap
    BY <1>2 DEF StageMap, RunMap
<1>4. Publishers' = Publishers
    BY <1>1, <1>2, PublishersSucceeded
<1>5. \A j \in ended : StageMap[j] \in {"waiting", "working"}
    BY <1>2 DEF StageMap
<1>6. ended \in SUBSET Jobs /\ {} \in SUBSET Jobs /\ {} \intersect ended = {}
    OBVIOUS
<1> HIDE DEF ended
<1>7. Contract!Reset({}, ended)
    BY <1>3, <1>4, <1>5, <1>6 DEF Contract!Reset, StageMap, RunMap, Publishers
<1> QED BY <1>6, <1>7

\* What a restart finds active waits again or is done.
LEMMA RestartContract ==
    ASSUME ContractInvariant, ContractInvariant', NEW f \in Families, RestartsRows(f)
    PROVE  \E again, ended \in SUBSET Jobs : Contract!Reset(again, ended)
<1> DEFINE again == {j \in Ended(f) : Requeues(j)}
           ended == {j \in Ended(f) : ~Requeues(j)}
<1>1. Written /\ Written' /\ \A j \in Jobs : row[j] \in Rows /\ row[j].claim \in Claims /\ LeaseShape(j)
    BY DEF ContractInvariant, AttemptInvariant, PublicationInvariant, TypeOK, LeaseShapes, Rows
<1>2. ASSUME NEW j \in Ended(f)
      PROVE  /\ j \in Jobs /\ Stage(j) = "working" /\ ~Published(j)
             /\ Runs(j) = row[j].claim.attempt
    <2>1. j \in Jobs /\ Active(j)
        BY DEF Ended, Lost
    <2> QED BY <1>1, <2>1, StageOfRow
            DEF LeaseShape, StageOf, Active, ActiveStates, Published, Runs
<1>3. ASSUME NEW j \in again
      PROVE  /\ j \in Jobs /\ Runs(j) < MaxAttempts /\ Stage(j)' = "waiting"
             /\ Runs(j)' = Runs(j) /\ ~Published(j)'
    <2>1. j \in Jobs /\ j \in Ended(f) /\ row'[j] = RecoveredRow(j)
        BY <1>2 DEF RestartsRows
    <2>2. /\ row'[j].state = "queued" /\ row'[j].claim.owner = 0
          /\ row'[j].claim.attempt = row[j].claim.attempt + 1
        BY <1>1, <2>1 DEF RecoveredRow, Rows
    <2>3. row[j].claim.attempt \in Nat /\ row[j].claim.attempt < MaxAttempts
        BY <1>1, <2>1 DEF Requeues, Claims
    <2> QED BY <1>2, <2>1, <2>2, <2>3, StageOfRow DEF StageOf, Runs, Published
<1>4. ASSUME NEW j \in ended
      PROVE  /\ j \in Jobs /\ Stage(j)' = "done" /\ Runs(j)' = Runs(j) /\ ~Published(j)'
    <2>1. j \in Jobs /\ j \in Ended(f) /\ row'[j] = RecoveredRow(j)
        BY <1>2 DEF RestartsRows
    <2>2. /\ row'[j].state = "interrupted" /\ row'[j].claim.owner = row[j].claim.owner
          /\ row'[j].claim.attempt = row[j].claim.attempt
        BY <1>1, <2>1 DEF RecoveredRow, Rows, Claims
    <2> QED BY <2>1, <2>2, StageOfRow DEF StageOf, ActiveStates, Runs, Published
<1>5. ASSUME NEW j \in Jobs, j \notin Ended(f)
      PROVE  Stage(j)' = Stage(j) /\ Runs(j)' = Runs(j) /\ Published(j)' = Published(j)
    BY <1>5, RowKeepsPlace DEF RestartsRows
<1>6. again \in SUBSET Jobs /\ ended \in SUBSET Jobs /\ again \intersect ended = {}
      /\ Ended(f) = again \union ended
    BY <1>2
<1>7. \A j \in again : StageMap[j] = "working" /\ RunMap[j] < MaxAttempts
    BY <1>2, <1>3 DEF StageMap, RunMap
<1>8. \A j \in ended : StageMap[j] \in {"waiting", "working"}
    BY <1>2 DEF StageMap
<1> HIDE DEF again, ended
<1>9. /\ StageMap' = [j \in Jobs |-> IF j \in again THEN "waiting"
                                     ELSE IF j \in ended THEN "done" ELSE StageMap[j]]
      /\ RunMap' = RunMap
    BY <1>3, <1>4, <1>5, <1>6 DEF StageMap, RunMap
<1>10. Publishers' = Publishers
    <2>1. \A j \in Jobs : Published(j)' = Published(j)
        BY <1>2, <1>3, <1>4, <1>5, <1>6, Zenon DEF Published
    <2> QED BY <1>1, <2>1, PublishersSucceeded
<1>11. Contract!Reset(again, ended)
    BY <1>6, <1>7, <1>8, <1>9, <1>10 DEF Contract!Reset, StageMap, RunMap, Publishers
<1> QED BY <1>6, <1>11

LEMMA NextContract ==
    ContractInvariant /\ [Next]_vars => ContractInvariant' /\ [Contract!Next]_(Contract!vars)
<1> SUFFICES ASSUME ContractInvariant, [Next]_vars
             PROVE  ContractInvariant' /\ [Contract!Next]_(Contract!vars)
    OBVIOUS
<1>1. ContractInvariant' /\ Change
    BY NextAttempts, NextPublications, NextChanges DEF ContractInvariant, AttemptInvariant
<1>2. Contract!Next
    BY <1>1, AdmitContract, LeaseContract, FinishContract, DropContract, RestartContract
       DEF Change, Contract!Next
<1> QED BY <1>1, <1>2

\* The pool implements its contract: whatever is admitted, cancelled, claimed,
\* settled, lost or recovered, a job waits, works and is done, is started at
\* most MAX_ATTEMPTS times, never together with a rival, and publishes at most
\* once and only out of work (the row triggers of 031-job-pool.sql).
THEOREM PoolImplementsContract == Spec => ImplementsContract
<1>1. Init => ContractInvariant /\ Contract!Init
    BY InitAttempts, InitPublications, InitContract DEF ContractInvariant
<1> QED BY <1>1, NextContract, PTL DEF Spec, ImplementsContract, Contract!Spec
=============================================================================
