# sigy: a TLA+ model of the service

sigy records radio and podcasts, keeps them in a local library, recognises and translates speech, and answers from the stored
evidence. One process, the service, owns a library: a directory of media files and one SQLite catalog. Everything durable is a row of
the catalog. This directory holds TLA+ modules of the parts of that service whose correctness depends on the order in which things
happen, the TLC runs that check them on small instances, and theorems about them that TLAPS checks for every instance.

All paths are relative to `src/`. `S` stands for `src/crates/sigy-service/src`.

## 1. Inventory

### How the parts work together

* `control/server.rs` opens the library, runs every `recover_*` of the store, and starts the **catalog actor**. It accepts clients on a
  local socket and forwards each request as a message.
* `control/actor.rs` is one thread with one queue. `poll_catalog` takes one message, dispatches it (each operation is one or a few
  immediate SQLite transactions), and after every message drives the settlement slots. A one-second tick takes the next monitor and
  task steps.
* **Workers** run beside it: tokio tasks that verify media, native process trees that recognise and translate, captures that write
  segment files. A worker never touches the catalog. It sends one result message. What it may still do is fenced by the claim
  (generation, attempt, lease owner) that its row carried when it started.
* The process may die between any two transactions. The catalog survives, the actor's memory and the workers do not. The next start
  has a new lease owner and recovers.

### Components, their state and what makes them correct

| component | state | operations | what must hold | hard because of |
|---|---|---|---|---|
| job pool (`S/storage/job_pool.rs`, `analysis_jobs.rs`, `recognition/jobs.rs`, `translations.rs`) | rows of `analysis_jobs` and `translation_jobs`, `job_attempts` | enqueue, claim, cancel, finish, recover | one active row per lineage; attempts bounded; terminal rows final | cancel, finish and recovery in any order |
| completion holds (`S/storage/completion_hold.rs`) | `completion_holds` | put, delete, list, release | the hold is the outcome of the row's own claim; it is finished and never computed again | crashes, uncertain commits |
| publication (`S/storage/recognition/publish.rs`, `translations.rs`) | transcript and translation revisions | finish, replay | one revision for a succeeded job, on the parent it was asked for | late results, corrections, lost commits |
| withdrawal (`S/storage/withdrawals.rs`) | `job_interests`, stop targets and completions | withdraw, complete, remaining owners | unshared work stops, shared work does not; an unproven native stop blocks native work | owners that join and leave |
| scheduling (`S/control/actor/analysis.rs`) | `Pool`: workers and slots | schedule, launch, signal, stop, finish | caps with parked outcomes counted; one outcome per claim | callbacks and turns |
| settlement (`S/control/actor/analysis/settlement.rs`) | slots with tries, deadline, stored flag | park, remember, finish, pace, restore | a slot ends, and shutdown with it | busy and lost commits, time |
| fair claims (`S/fairness.rs`, `S/storage/deadline.rs`) | cursor per kind | choose, advance | batch share, rotation | classes that change with time |
| ledger and paid dispatch (`S/storage/ledger.rs`, `S/providers/dispatch.rs`) | budgets, requests, attempts | reserve, submit, settle, release, recover | settled + reserved <= limit unless frozen; sent at most once | crash between submit and answer |
| captures (`sigy-core/src/capture.rs`, `S/storage/captures.rs`) | `capture_jobs` with generation and revision | admit, events of the journal, recover | a late worker is fenced off; a live capture has its worker | pause and restart against a running worker |
| DVR (`S/storage/dvr.rs`, `S/recordings.rs`, `S/recordings/segment.rs`, `S/control/dvr.rs`) | recordings, segments, escrow, gaps, holds, releases, files | open, seal, renew, publish, pause, retain, hold, release, prune, delete, recover | charges are what is reserved or kept; files are never more than charges; a row's file exists | file system and catalog are not atomic together |
| retained readers (`S/storage/retained_readers*`, `S/control/actor/retained.rs`) | reader rows | admit, cancel, finish, hold | what is read is not released or deleted | restart with an unknown reader |
| schedules (`S/storage/schedules.rs`, `S/schedule.rs`) | rules and occurrences | create, revise, the pass | one capture per occurrence, no backfill, a pass that never fails for good | clock jumps, skipped hours |
| monitors (`S/storage/monitors.rs`, `S/storage/monitors/capture.rs`) | versions, actions, reservations, refusals | revise, propose, check, reserve | every reservation inside the caps of its version | caps that change, windows across midnight |
| tasks (`S/storage/tasks.rs`, `S/storage/tasks/collection*`) | scope, grant, admissions, cancellation; runs and snapshots | create, start and cancel a collection | nothing admitted outside grant, scope and cancellation | the tick against clients, clock set back |
| listens, playlists, podcasts, directory, clicks, findings, claims, briefings, archive | one row per request, append-only evidence | begin, finish, recover | one answer per request | little interleaving of their own |
| parsers, HTTP, decoder, native execution, layout, backup, terminal client | none that the catalog shares | | | data, I/O |

`PROJECT.json` lists each with its sources and its status, and the hazards with the properties that cover them.

## 2. Modules

| module | what it is |
|---|---|
| `JobPool` | the job pool, holds, publication, withdrawal, scheduling, settlement, recovery and the life of the process, in one state machine |
| `JobContract` | the abstract specification: what the row triggers of `031-job-pool.sql` promise, without an actor |
| `FairClaims` | the choice of the next claim of one kind |
| `Totals` | sums over finite sets: the books of the paid ledger, the bytes of segments, the monitor's reservations |
| `Ledger` | budgets and the requests accounted against them: the transactions of the paid request ledger |
| `PaidDispatch` | extends `Ledger` with attempts, the transport, retries, lookups, crashes and recovery |
| `CaptureJournal` | the states of a capture and its journal: which event leads where and which version it leaves |
| `Recordings` | the row of one recording and every transaction on it, as a guard and the row it leaves |
| `Dvr` | extends `Recordings` with capture workers, files, readers, the actor's reclamation turns, the service's life |
| `Schedules` | rules, occurrences, the monitor's reservations, the tasks' collections, the schedule pass |
| `TotalProofs` | lemmas about totals: order, parts, growth; the least element of a set of numbers |
| `JobPoolProofs` | theorems about `JobPool`: types, the edges of a row, one active row per lineage, withdrawn work and native stop targets, launches |
| `OutcomeProofs` | theorems about leases, slots, completion holds, the revisions jobs publish, attempts and generations, and that `JobPool` implements `JobContract` |
| `FairProofs` | theorems about the fair claims: types, the batch share, the live rotation |
| `DispatchProofs` | theorems about the ledger under paid dispatch |
| `DvrProofs` | theorems about the DVR: its books, its deletions, its live captures |
| `DvrFileProofs` | theorems about the DVR's files: the quota, torn files, what a deletion leaves |
| `ScheduleProofs` | theorems about schedules: types, the ledger's and the collections' audits, refusals, passes that succeed, decisions that stand |
| `MCJobPool`, `MCFairClaims`, `MCPaidDispatch`, `MCDvr`, `MCSchedules` | instances for TLC |

### JobPool

The durable state is `catalog`: `row` (state, claim, parent revision), `attempts`, `hold`, `stops`, `completions`, `transcripts`,
`translations`, `moved` (a pin whose revision is no longer current), `interest`, `withdrawn`. The volatile state is `phase`,
`shutdown`, `worker`, `slot` and `pc`. `Crash` forgets exactly the volatile part.

`pc` is the catalog thread's place in one turn: `wait` for a message; `signal` and `schedule` inside a scheduling pass; `remember` and
`settle` inside the advance of one slot; `drive` between slots; `recover ...` and `restore` at the start. Each action of the thread is
one catalog transaction together with what the code does in memory before the next one, so every point at which the process can die
between two transactions is a state. What follows a handler (a scheduling pass, the drive of the slots, the stop of the service) is not
left to chance: each action sets `pc` to what the code does next, and `via` and `back` say who called, because an error inside a pass is
answered to a client, and stops the service for everybody else (`PassError`, `StepRefused`).

Actions and code:

| actions | code |
|---|---|
| `Enqueue`, `Cancel`, `Withdraw`, `Join` | client requests, and the monitor's and the task's processing step |
| `Repin`, `Correct` | a new pin revision, a correction: the environment of a recognition |
| `SignalDurableStops`, `Launch`, `ClaimEnds`, `ClaimFails`, `LaunchParks`, `NextKind`, `DecoderMissing` | `schedule` and `claim_*` |
| `WorkerEnds`, `WorkerUndrained`, `FinishVerification`, `FinishVerificationFails`, `ArriveNative` | a result and its message |
| `RememberHold`, `RememberBusy`, `RememberUncertain`, `RememberRefused` | the hold write of a slot: done, busy, lost, refused |
| `Settle`, `SettleBusy`, `SettleUncertain`, `SettleRefused`, `SettleWaits` | the finish of a slot: done, busy, lost, refused, paced |
| `SlotExpires`, `DriveTurn`, `DriveSlot`, `DriveEnds` | time and the drive |
| `Boot`, `Recover`, `RestoreSlot`, `RestoreReleases`, `RestoreFails`, `RestoreEnds` | `serve`, `recover`, `restore_completion_holds` |
| `StopService`, `Shutdown`, `Exit`, `Crash` | the end of a process |

A SQLite transaction is atomic. Its answer may be *busy* (nothing happened), *refused* (nothing happened, no retry) or *uncertain* (it
happened or not); the code tells these apart, and so do the actions. `faults` bounds how many occur in a behaviour.

Abstractions: a publication body is its outcome; the `verified` state of a verification is shown as `succeeded`; clocks are the
event `SlotExpires`; the 64-owner limit of a job and the receipt pages of a withdrawal are left out. Task collection gives a recording
one task, so two tasks never share a job (`Join`). Which of several candidates is claimed is left open: that is `FairClaims`' subject.

### JobContract and the refinement

A job is new, waits, works, is done; a run is spent when a lease commits; it publishes at most once and only out of work; rivals (jobs
of one table and lineage) never work together; it starts at most `MAX_ATTEMPTS` times. `JobPool` maps to it with
`Contract == INSTANCE JobContract WITH stage, runs, published <- ...`, and `ImplementsContract == Contract!Spec` is a property of a run: every
crash, recovery, lost commit and restored hold is a step of the contract or a stutter. `OutcomeProofs` proves it for all constants.

### FairClaims

State: the clock, arrival times, the waiting jobs, the sources a monitor follows, the cursor, and two history variables that count how
often the oldest batch job and each source were passed over. The class of a job is computed when the claim is made.

### Ledger and PaidDispatch

`Ledger` holds the rows of `budgets` (`known`, `limit`, `settled`, `reserved`, `frozen`) and of `requests` (`state`, `actual`). Each of its
operations is one transaction, a predicate on those variables alone; `PaidDispatch` makes actions of them.

`PaidDispatch` adds the recorded outcome of each attempt, the `Admitted` values of the process and `call`, the place inside the one call
in progress: `send`, `record`, `uncertain`, `lookup`, `settle`. The store is borrowed exclusively for a whole call, so between two
transactions of a call only a crash (`Crash`) or an error of the catalog (`CatalogFails`) can happen; between calls, anything.
`sent` and `charged` are history: what the transport was asked and what the provider took. The provider is external. It may charge with
any answer, or with none that arrives; what it reports, with its answer or to a lookup, is what it charged.

| actions | code |
|---|---|
| `Admit`, `Submit`, `Send`, `RecordOutcome`, `KeepLiability`, `SettleReported`, `Reconcile`, `Lookup` | `admit`, `submit`, `record`, `settle`, `reconcile` of `S/providers/dispatch.rs` |
| `ReleaseUnsubmitted`, `SetBudget` | `release_unsubmitted`, `set_budget_limit` |
| `Boot`, `Recover`, `Serve` | `serve`: `recover_submitted` in batches until none is left |
| `Crash`, `CatalogFails`, `SetClock` | the end of a process, a failed transaction, the caller's clock, which may be set back |

Which attempt a request repeats (`RetryOf`), its maximum and its budgets are constants: they are part of the request and never change.
Routes, languages and price snapshots are validated before anything is reserved; a refusal there is no step. At this commit the
dispatcher is compiled only for tests (`docs/decisions/0040-provider-configuration-and-billing-faults.md:21`): the model is of that core
as a caller would drive it, with the ledger's own client operation `SetBudget` and the service's start.

### CaptureJournal, Recordings and Dvr

A recording is one row: its capture (state, generation, revision), its storage (`none`, `reserved`, `retained`, `deleting`, `deleted`), and
its books. Admission charges the whole `maximum` and puts it in `escrow`. Opening a segment moves `Ceiling` bytes from escrow to `open`; sealing
moves what was not written back. `ends` are the sealed segments, `released` those whose files were removed early and `freed` their bytes, `held`
the ones a user holds. Publication makes the charge what is still kept. `Recordings` says this of one row; `Dvr` has

* `rec`, the rows, and `disk`, the bytes of each file; a removal and its row are never one step;
* `worker`, the capture worker of a recording, with the version (`token`) and generation it was given: a call under another version is stale;
* `reader` (rows) and `reading` (workers that hold a file open), `jobs` (recordings that analysis reads);
* `turn`, the place of the actor inside one reclamation: release the next segment, list candidates, delete one by one, admit what waited for
  room. Between two steps of a turn workers write files and the process may die; other catalog steps cannot happen.

| actions | code |
|---|---|
| `Start`, `AdmitReclaimed`, `Pause` | `record start` with and without reclamation first, `record pause` |
| `Connect`, `OpenSegment`, `ReleaseOpen`, `SealSegment`, `Renew`, `EndedInCall`, `StaleCall` | the calls of a segmenting worker |
| `ReadSegment`, `EndOfBody`, `ReceiveFile`, `VerifyFile`, `WorkerFails` | what a worker does with its body and its files |
| `Finish` | the actor takes a worker's result: publish, complete, fail, or its own error |
| `Retain`, `HoldRange`, `Acknowledge`, `Age`, `Analyse` | requests about kept audio, the retention clock, an analysis job |
| `StartReader`, `StopReader`, `FinishReader` | retained readers |
| `Delete`, `BeginPrune`, `ReleaseNext`, `Candidates`, `PruneNext`, `Unlink`, `UnlinkFails`, `Commit` | deletion, release and pruning, file by file |
| `Stop`, `Exit`, `Crash`, `RecoverCaptures`, `RecoverReaders`, `RecoverDeletions` | the service's life and its recovery before it serves |

Every start is temporary; a request to retain is the `Retain` that may follow at once. Only the cause of a gap is kept. Codec changes, the limits
of 1024 segments and 256 pending captures, and a reconfigured quota are left out.

### Schedules

State: `rule`, `occurrence[rule][date]`, `recorded` (the ids of occurrences that a client's recording has), `admission` (the monitor's ledger in the order of its ordinals), `refusal`, `policy` (the versions),
`actions`, `followed`, `task` (scope, grant, cancellation with its mask) and `service`. An occurrence's id is its rule and its civil date, as in
the code, where a client may choose the same text as the id of a recording of its own; the row of such a recording outlives its media. There is no time in the state: the wall clock may be set back between any two operations, so each action picks `now`; a request and
the pass behind it read one instant. What a pass finds in other components' tables is one of `Conditions`: whether a decoder is configured, free
slots and bytes, the stations listened to, what reclamation would free, and the receipts of a task's other operations.

`Pass` is the code's batch. Rules are reconciled in the order of their ids, each in its savepoint: a rule without room is undone and ends the batch,
space is reclaimed and the batch runs again; any other error, a station that is listened to or an id
that another recording has (`Conflicts`), undoes all of it. In the tick an error stops the service, after a request it is
the answer, at a start it keeps the service from serving.

| actions | code |
|---|---|
| `Create`, `Revise` | `create_schedule_in`, `revise_schedule_at`, each followed by the pass of `apply_schedule` |
| `ReviseMonitor`, `Propose` | `revise_monitor`, `propose_monitor_action` with `decide` |
| `RecordStart` | `admit_recording_in`: a recording or an episode download under the id of an occurrence that is not admitted; no pass follows |
| `CreateTask`, `StartCollection`, `CancelCollection` | the task's scope, its grant of all its rules at once, its cancellation |
| `Serve`, `Boot` | a pass of the tick or of a replayed create or revise (show and list run none), and the one before the service serves |

Everything is in the catalog, so a start after a crash is a pass over the same state, which `Serve` covers. Civil time is a date of `DayLength` hours; `Springs`
are the hours a zone skips. Offsets, repeated hours, changes of a rule's zone, the 16-source limit, the creation times of versions, and the limits of
256 rules, 1024 occurrences and 400 scanned days are left out.

## 3. Runs

| run | instance | what it shows |
|---|---|---|
| `job_recovery` | two recognitions of one lineage, cap 2, three processes, two faults, foreign hold bodies | `TypeOK`, `OneActivePerLineage`, `HoldMatchesClaim`, `LeaseInHand`, `PublishedOnce`, `AttemptsAccountForGenerations`, `HeldNeverRerun`, `ImplementsContract` |
| `job_withdrawal` | two recognitions of two lineages, two tasks and a standing owner, cap 1, two processes, no faults | `StopLiability`, `StoppedWorkIsUnwanted`, `WithdrawalSparesShared`, `LaunchAdmitted` |
| `job_mixed` | a verification, a recognition and a translation of one lineage with a revision, two processes, no native requeue | `LinearHistory`, `CancellationWins` |
| `job_liveness` | a verification and a recognition, one process, two faults, fair | `ShutdownEnds`, `QueuedIsClaimed`, `CancelSettles` |
| `fair_claims` | six jobs of two sources, three of them with deadlines, two times | `TypeOK`, `OldestBatchShare`, `LiveSourcesRotate` |
| `paid_requests` | three requests, one the retry of another and one in a budget of its own too; limits 2 and 3, charges 1 and 3 | `TypeOK`, `SentOnce`, `BooksBalance`, `FrozenByBreach`, `SpendingCovered`, `ChargesProven`, `RetriedNeverSettles` |
| `recordings` | a segmented and a single-file recording with more bytes than the quota, one capture and one reader at a time, a mishap | `TypeOK`, `BytesBalance`, `QuotaCoversDisk`, `DeletionsCanFinish`, `TornOnlyByInterruption`, `DeletionLeavesNothing`, `LiveCapturesWorked`, `UnlinkSparesProtected` |
| `schedules` | a monitor's daily rule and a task's once rule, two days of two instants, a skipped hour, two versions, one action, one id of an occurrence that a client may record under | `TypeOK`, `LedgerAudits`, `CollectionsAudit`, `CapRefusalsFinal`, `UnrevisedRulesPass` |
| `unreadable`, `withdraw_again`, `held_range`, `revised_rule` | the smallest instance of each, `held_range` that of `recordings` | a disagreement of the code with what its documents say (section 5) |

Bounds. `MaxProcs` 3 gives a job two recoveries with `MaxAttempts` 2: one that requeues and one that interrupts, and a hold restored
twice. `MaxFaults` 2 is a fault and a fault in its repair (a lost finish after a lost hold write). Two jobs of one lineage are enough for
a rival; two lineages for a shared capacity; two tasks and a standing owner for shared and unshared interest.
`SettlementAttempts` 2 leaves room for a retry before the last try. `MaxRevisions` 2 lets one correction fall on either side of a
publication. `JobSymmetry` and `TaskSymmetry` permute jobs and tasks that no definition tells apart, in runs without liveness.
In `FairClaims`, four claims make a round of the reserved share and six jobs more than one.
In `PaidDispatch` two unit reservations and one of two fill a limit of 3 and overrun one of 2, a charge of 3 is above every maximum, a
recovery batch of 1 needs several transactions, and `MaxTime` 1 lets the clock pass a retry time and return.
In `Dvr` the ceiling of a segment is 2 bytes: the segmented recording (3) seals two segments and renews once, the other (2) has one file,
and a quota of 3 makes each wait for the other's space. One capture at a time is the limit that matters: it parts the deletion of one
recording from the capture of the next. Two requests (`MaxAsks`) are a hold and its release by age, or a retain and a pause; one mishap is a crash, a removal that fails, or
a reader whose completion is lost, at any place.
In `Schedules` a day has two instants, so a window of two crosses midnight; the monitor's caps admit its own rule and refuse the task's
until the second version raises them, and the daily cap is met on both days of a window; four conditions are a service with everything, one without a decoder, one
with a full disk that reclamation empties, and one that cannot reclaim while the station is listened to; `ClientIds` is the id of the first date of the monitor's rule, which may then
have no row, wait or be missed. Its state is small (218,844
states): a pass is a function, and the run's work is in `UnrevisedRulesPass`, which tries every pass in every state.

Deadlock is checked in `recordings`, where a crashed service starts again and recovers, and in `schedules`, where a pass can always be made. In the others a
service that went down after its last process may stop.

Fairness of `job_liveness`. Weak: the passes and the settlement of the catalog thread (it is a loop that never waits inside a turn), the start,
the exit, the turn that drives a slot, the shutdown a server sends once its service stopped, every worker's end (each
native run has a wall-clock limit, `S/recognizer.rs`, and a verification one too) and the arrival of its message. Strong: the
15-second deadline of a slot, because time passes also while the slot is being advanced. No fairness for clients, faults, crashes or `Boot`.
`QueuedIsClaimed` and `CancelSettles` speak of behaviours without a fault so far: after a
fault a pass may fail, an exhausted slot does not schedule, and its row stays as it is until the next start, by design
(`docs/decisions/0098-completed-settlement-slots.md`).

## 4. Theorems

All are of `Spec == Init /\ [][Next]_vars` of their module, for any constants that satisfy the module's named assumption. Those about `JobPool` hold for any `Jobs`,
`Lineages`, `Tasks`, caps and bounds that satisfy `ConstantsAssumption`; `LaunchesAdmitted` also needs `JobsFinite`, because it counts workers against a cap.
Every invariant that a passing run checks is a theorem, and so is every action property and the refinement.

* `TypesAlways`: `Spec => []TypeOK`. One step per action.
* `CancellationIsFinal`: `Spec => CancellationWins`. Every action changes a row only along the edges the row triggers
  allow (`RowStep`, lemma `NextRows`), so a cancelling row ends cancelled or interrupted and a terminal row does not change. `TypeOK` is the
  invariant that carries it.
* `LineagesExclusive`: `Spec => []OneActivePerLineage`. `OneActivePerLineage` is inductive relative to `TypeOK` and `NextRows`: a row becomes active only in a
  claim, at most one row does in one step, and the claim saw no active rival.

* `HoldsMatchClaims`, `LeasesInHand`: `Spec => []HoldMatchesClaim` and `Spec => []LeaseInHand`, from `HoldInvariant`. The two
  properties are not inductive: a settlement step finishes the row of the slot the thread is at, so the invariant says where the
  thread is (`ThreadPlaced`: what it drives is parked, what it remembers is not stored yet, a start restores before anything runs), that an
  outcome without a committed hold still has its active row (`JobKept`), and that a process that is down holds nothing (`NothingInHand`).
* `StoredOutcomesAreKept`: `Spec => HeldNeverRerun`, from the same invariant: recovery skips held rows, and a finish writes a terminal
  state over the claim it has.
* `StopTargetsAnswered`, `StoppedWorkUnwanted`: `Spec => []StopLiability` and `Spec => []StoppedWorkIsUnwanted`, from `StopInvariant`. An
  answered target's row must be known to be cancelled or interrupted: a succeeded row may be joined again, which would give stopped work an
  owner.
* `RevisionsPublishedOnce`, `HistoriesLinear`: `Spec => []PublishedOnce` and `Spec => []LinearHistory`, from `PublicationInvariant`, which says
  *which* revisions a job wrote (one position, or none) where the property counts them: a finish is then seen to add the first.
* `SharedWorkSpared`, `LaunchesAdmitted`: `Spec => WithdrawalSparesShared` and `Spec => LaunchAdmitted`. Only one action changes `withdrawn`
  and only one starts a worker; after a launch, what is live or parked of the kind is what was, with the launched job, so the guard's count
  plus one bounds it (`LaunchWithinCap`).
* `GenerationsAccounted`: `Spec => []AttemptsAccountForGenerations`. All that the rows and attempts undergo in a step is one of five changes
  (`Change`: a row is admitted, leased, ended, dropped, or a recovery restarts some), which `NextChanges` shows of each action. The invariant adds the
  shape of a row's lease (`LeaseShapes`: owner, generation and attempt in each state) and, per job, that its ended attempts are finitely many
  under distinct numbers, all below the one an open row has (`Accounted`), so the next restart adds a new one.
* `PoolImplementsContract`: `Spec => ImplementsContract`, the refinement. Each of the five changes is a step of `JobContract` or a stutter;
  that a job publishes only as it succeeds comes from `PublicationInvariant`, that a spent run is counted from `LeaseShapes`.

* `FairTypes`, `OldestBatchServed`, `LiveSourcesServed`: `Spec => []` of `TypeOK`, `OldestBatchShare` and `LiveSourcesRotate` of `FairClaims`, for any finite
  jobs and sources, deadlines and share period. The oldest batch job was passed over at most as often as claims were made since the last
  reserved one (`PassedSinceReserved`). For the rotation, what passed a source over and the sources still ahead of it in the ring make up
  less than all sources (`TurnsAhead`): a live claim moves the cursor past at least one of those ahead (`TurnComesCloser`).

* `DispatchTypes`, `RequestsSentOnce`, `LimitsHold`, `ChargesAreProven`, `RetriesExclusive`: `Spec => []` of `TypeOK`, `SentOnce`, `FrozenByBreach`, `ChargesProven` and
  `RetriedNeverSettles`, for any ledger that satisfies `LedgerAssumption` and `DispatchAssumption`, from `DispatchInvariant`. It says, per request
  (`RequestKept`), what each place of a call implies (at `send` the request is submitted and unsent, at `settle` it was sent and has its
  generation ID) and which outcomes have a generation ID; that there is a call only while the process serves (`CallPlaced`), so recovery never
  meets one; that a retried attempt ended in `retry_after`, which has no generation ID and so cannot settle (`RetryKept`); and that a budget
  without a row has committed nothing, so its first limit covers it (`UnknownEmpty`).
* `LedgerBalances`, `SpendingIsCovered`: `Spec => []BooksBalance` and `Spec => []SpendingCovered`, for finitely many requests (`RequestsFinite`). Each
  transaction takes one request into or out of the sets a scope's books add up (`ReserveBalances`, `ReleaseBalances`, `SettleBalances`). What
  the provider took is the settled charges and part of the open maxima, so it is within what is committed, and without a breach that is within the
  limit. The sums are the recursive functions of the community modules: `TotalProofs` shows that they exist, and do not depend on the order, by a
  smallest counterexample, since the induction theorems of the library cannot be used.

* `RowsTyped`, `BooksBalance`, `DeletionsUnobstructed`, `CapturesWorked`: `Spec => []` of `TypeOK`, `BytesBalance`, `DeletionsCanFinish` and
  `LiveCapturesWorked`, and `RemovalsSpare`: `Spec => UnlinkSparesProtected`, for any recordings, ceilings, quota and bounds that satisfy
  `DvrAssumption`, from `IInv` of `DvrProofs`. The audit of the books is per row (`RowsOK`): in each state of a row, charge, escrow, open bytes, sealed ends
  and released bytes stand in one equation. That a call of a worker keeps it needs to know that the file a worker brings is within the open
  ceiling and that a worker with a current token belongs to a running capture (`WorkersOK`); that a removal may be committed needs what the turn at
  hand has already established (`TurnOK`: which recording is being deleted, which segment is free of readers, holds and writers); that no reader
  works on a released segment needs its row (`ReadersOK`); and a recovery needs to know that no worker, turn or reader's worker outlives its process (`ServiceOK`). Each
  action has one lemma, each transaction of a row one of its own.
* `QuotaCovers`, `TornByInterruption`, `DeletionsComplete`: `Spec => []` of `QuotaCoversDisk`, `TornOnlyByInterruption` and `DeletionLeavesNothing`, from `FInv` of
  `DvrFileProofs`, which adds to that of `DvrProofs` what ties files to rows. A row's charge covers its segments that are not released and the staging file
  behind them, and a worker that may still write has room left in the charge, whatever its row has become meanwhile: that is what makes the files of a recording fit
  its charge, and the charges fit the quota (`BytesBalance`). Each torn file outside the hands of the turn or worker that writes it has a mishap of its own, so their
  number is bounded by the mishaps. A deletion that commits has unlinked every key its turn listed, and the turn lists every key a file may be under. The sums need
  finitely many recordings (`DvrAssumption`), of which a catalog has no more.
* `ScheduleTypes`, `LedgerPassesAudit`, `CollectionsRead`, `RefusalsStand`, `UnrevisedPasses`: `Spec => []` of `TypeOK`, `LedgerAudits`, `CollectionsAudit`,
  `CapRefusalsFinal` and `UnrevisedRulesPass` of `Schedules`, for any rules, dates, clocks, policies and conditions that satisfy `SchedulesAssumption`, from `IInv` of
  `ScheduleProofs`. A pass carries what it has written so far, so the invariant is a predicate `Kept` of tables (rules, rows, ledger, refusals), and `Sound` is the set of
  passes whose tables are kept and which have not failed while no rule was revised, no station listened to, and every occurrence that a client's recording has the id
  of is missed (`Gone`; a missed row stays so through a pass, `GoneStays`). Each thing a turn does stays in the set (`MissKeeps`, `StoreKeeps`,
  `DeniedSound`, `AdmittedSound`), so a turn does (`TurnSound`), and a batch does what every turn does, by a smallest set of rules for which it would not (`BatchKeeps`).
  What makes `Kept` inductive: a row of its rule's present revision has the present clock, so a date that is free for an unrevised rule has no row (`UnrevisedInserts`); sums of
  the ledger only grow, so what a cap of the latest version refused it still refuses as long as the row is of the revision that was refused (`RefusesMore`), and a later version
  finds the refusal already out of its reach; an entry of the ledger is the plan of its admitted row, is inside the caps of its own version together with all entries
  before it (`ReservationInCaps`), and, of a task, was made under its scope between its grant and its cancellation. Nothing is assumed of the clock: `now` is any instant in every lemma.
* `DecisionsStand`: `Spec => DecisionsFinal`, an action property stated in `ScheduleProofs`: no step of a client, the monitor, a task or a pass changes an occurrence that
  was admitted or missed, takes back a reservation, a refusal or a version, or forgets a rule. What a turn does only adds to what the pass carries (`Onward`), a batch is a
  chain of turns (`ReconciledOnward`), the savepoint and the undone batch go back to what was carried before and never further, and a revision drops only what waits.

The whole inductive invariants are the statements of `DispatchAlways`, `TypesAlways`, `StopsAlways`, `HoldsAlways`, `PublicationsAlways`, `AttemptsAlways`, and
`IInv` of `DvrProofs` and of `ScheduleProofs`, and `FInv` of `DvrFileProofs`.

Only model-checked: liveness (`ShutdownEnds`, `QueuedIsClaimed`, `CancelSettles`), because the prover does not handle fairness and `ENABLED`. The four disagreements of
section 5 are counterexamples of TLC.

TLC checked the largest inductive invariants before they were proved, on the instances of the runs: that of `DvrFileProofs` on 1,488,750 states, that of
`ScheduleProofs`, and `DecisionsFinal`, on 218,844.

## 5. Where code and documents disagree

* A hold that cannot be read fails its job (0108), but not when the job is `cancelling`: the row trigger refuses that edge, and every
  start of the service stops there (`unreadable`).
* A task whose running job was already cancelled directly cannot withdraw before the worker ends: writing `cancelling` again is refused by the
  same trigger (`withdraw_again`).
* `record hold` "protects every published segment that range intersects" (`docs/usage.md:273`), but pruning whole recordings never looks at holds: the next
  admission that needs space, the sweep or `dvr prune` deletes the recording with them (`held_range`).
* "The service checks about once a second and admits that occurrence when the window is open" (0029), but a rule revised after one of its dates was
  admitted makes every pass after that window fail: the date is free for the new clock, its row's id is taken. The tick stops the service, and so does every start; a `once`
  rule never gets past it. The test `revising_a_rule_does_not_rewrite_an_admitted_plan` sets up exactly this state (`revised_rule`).

Met while modelling, without a run of their own:

* "The unique running index still admits only one `running` or `cancelling` row of that family" (`0098-completed-settlement-slots.md:24`) is one of
  a lineage: after an exhausted slot a second job of the kind runs.
* "Waiting jobs rotate across sources" (`docs/usage.md:310`): the reserved claim moves the rotation too, so with many batch sources one is passed over
  for more than two rounds.
* A scheduled window that opens while its station is listened to is an error of the pass (`S/storage/dvr.rs:1756`), which stops the service. So does reclamation that
  cannot free 256 MiB (`S/control/actor.rs:572`), always when the quota is smaller, although 0065 and 0069 call a full disk a deferral.
* A client may start a recording, or download an episode, under any key of `[A-Za-z0-9-_:.]` (`S/storage/mod.rs:356`, `S/storage/dvr.rs:1620`), also under `<rule>:<date>`, the id
  of an occurrence (`S/storage/schedules.rs:617`). While that occurrence's window is open its admission is an `IdempotencyConflict` (`S/storage/dvr.rs:1740`), which is
  the answer of the whole batch (`S/storage/schedules.rs:266`): the tick stops the service and every start stops too, until the window has ended and the occurrence is
  missed, although 0029 "admits that occurrence when the window is open". `UnrevisedRulesPass` therefore has the premise `Undisturbed`; without it TLC finds such a pass
  after a create and a record start.
* `record pause` moves the capture to a new generation; its worker's late result is then an error of the actor (`S/control/actor.rs:817`), which stops the
  service. A backward clock or a refused renewal do the same.
* A capture that ends inside a call forgets the key of its open segment while the staged file exists (`S/storage/dvr.rs:324`): a deletion frees the quota and
  leaves that file. A worker alive over pause and delete may even create its file after the deletion.
* A deletion that met an I/O error stays `deleting` until the next start or the user's next `record delete`.
* A clock that jumps far ahead may release every segment of a running capture: its completion then has no bytes, is refused, and stops the service.

## 6. Not modelled, and the plan

Data and I/O stay out: parsers, audio cutting, decoding, HTTP, text search, geometry, the terminal client, migrations, vendored code.

Of the modelled parts, each section above names what is left out. Not modelled at all are components whose operations are one
transaction each around one running row (listens, podcasts, directory, playlists, clicks), append-only evidence (findings, claims, briefings, archive), and
the task runs, whose steps each leave a receipt.

What remains worth doing, in order: a module of the task runs and the monitor's processing steps on top of `JobPool`'s admission; the composition of `JobPool` with `FairClaims`.
