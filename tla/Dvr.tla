---------------------------------- MODULE Dvr ----------------------------------
(***************************************************************************)
(* The DVR of one library: capture workers that write files, the catalog   *)
(* actor that owns the rows and reclaims space, and the readers of what    *)
(* was kept (recordings.rs, recordings/segment.rs, control/actor.rs,       *)
(* control/actor/retained.rs, storage/retained_readers/write.rs).          *)
(*                                                                         *)
(* A worker and the actor meet only in messages: a segment call is one     *)
(* step, since its worker waits for the reply.  The actor is one thread,   *)
(* so a reclamation (its turn) shuts other catalog steps out, but not the  *)
(* workers' files and not a crash, which may part any two of its steps.    *)
(***************************************************************************)
EXTENDS Recordings, Totals, Integers

CONSTANTS
    Recs,         \* recording identifiers
    NoRec,
    Readers,      \* request identifiers of retained readers
    Segmented,    \* recordings sealed segment by segment (segment::enabled)
    Analysed,     \* recordings that analysis jobs read
    Maximum,      \* Recs -> byte ceiling of the request
    Quota,        \* dvr_policy.quota_bytes
    MaxActive,    \* MAX_ACTIVE_CAPTURES
    MaxReaders,   \* unresolved readers per library
    MaxAsks,      \* bound of the model: requests about kept audio, and ageing
    MaxMishaps    \* bound of the model: crashes, failed removals, lost completions

ASSUME DvrAssumption ==
    /\ IsFiniteSet(Recs) /\ NoRec \notin Recs
    /\ Segmented \subseteq Recs
    /\ Maximum \in [Recs -> 1 .. Ceiling + MaxSegments - 1]
    /\ \A r \in Segmented : Maximum[r] >= Ceiling
    /\ {Quota, MaxActive, MaxReaders, MaxAsks, MaxMishaps} \subseteq Nat

VARIABLES
    rec,      \* recordings and capture_jobs: one row per recording
    disk,     \* bytes of each object file, staged or published; 0: no file
    worker,   \* the capture worker of each recording
    reader,   \* retained_readers: one row per request
    reading,  \* readers whose worker holds its file open
    jobs,     \* recordings with a running or cancelling analysis job
    service,  \* life of the process
    turn,     \* the reclamation the actor is in
    asks, mishaps

vars == <<rec, disk, worker, reader, reading, jobs, service, turn, asks, mishaps>>

\* ---------------------------------------------------------------- state --

NoWorker == [at |-> "none", token |-> NoRow.version, generation |-> 0, key |-> 0, bytes |-> 0]
Workers == [at : {"none", "connecting", "asking", "reading", "staged", "cut",
                  "receiving", "received", "done", "failed"},
            token : Versions, generation : Nat, key : Nat, bytes : Nat]

NoReader == [state |-> "none", rec |-> NoRec, segment |-> 0]
ReaderRows == [state : {"none", "running", "cancelling", "recovery_held", "completed", "failed"},
               rec : Recs \union {NoRec}, segment : Ordinals \union {0}]

\* A turn removes the files of one object at a time: segment 0 is a whole
\* deletion.  next is where the turn goes after it.
NoTurn == [by |-> "none", step |-> "idle", rec |-> NoRec, segment |-> 0, keys |-> {},
           next |-> "idle", todo |-> {}, want |-> NoRec]
Turns == [by : {"none", "user", "boot", "sweep", "prune", "reclaim"},
          step : {"idle", "release", "candidates", "prune", "unlink", "admit"},
          rec : Recs \union {NoRec}, segment : Ordinals \union {0}, keys : SUBSET Ordinals,
          next : {"idle", "candidates", "prune"}, todo : SUBSET Recs,
          want : Recs \union {NoRec}]

TypeOK ==
    /\ rec \in [Recs -> Rows]
    /\ disk \in [Recs -> [Ordinals -> Nat]]
    /\ worker \in [Recs -> Workers]
    /\ reader \in [Readers -> ReaderRows]
    /\ reading \subseteq Readers
    /\ jobs \subseteq Recs
    /\ service \in {"down", "readers", "deletions", "up", "stopping"}
    /\ turn \in Turns
    /\ asks \in 0 .. MaxAsks /\ mishaps \in 0 .. MaxMishaps

Init ==
    /\ rec = [r \in Recs |-> NoRow]
    /\ disk = [r \in Recs |-> [n \in Ordinals |-> 0]]
    /\ worker = [r \in Recs |-> NoWorker]
    /\ reader = [q \in Readers |-> NoReader]
    /\ reading = {} /\ jobs = {}
    /\ service = "up"
    /\ turn = NoTurn
    /\ asks = 0 /\ mishaps = 0

Charged == Total([r \in Recs |-> rec[r].charged], Recs)
Protecting == {"running", "cancelling", "recovery_held"}
Readings(r) == {q \in Readers : reader[q].rec = r /\ reader[q].state \in Protecting}
ActiveCaptures == {r \in Recs : rec[r].capture \in Active}

Serving == service = "up" /\ turn = NoTurn                  \* a request is handled
Catalog == service \in {"up", "stopping"} /\ turn = NoTurn  \* a message is handled
Files == service \in {"up", "stopping"}                     \* worker tasks run

Asked == asks < MaxAsks /\ asks' = asks + 1
Mishap == mishaps < MaxMishaps /\ mishaps' = mishaps + 1
Row(r, w) == rec' = [rec EXCEPT ![r] = w]
Broken(r) == worker' = [worker EXCEPT ![r] = [NoWorker EXCEPT !.at = "failed",
                                               !.generation = worker[r].generation]]
Step(r, place) == worker' = [worker EXCEPT ![r].at = place]

\* ---------------------------------------------------- admission, capture --

Fits(r) == Maximum[r] <= Quota - Charged
SlotFree == Cardinality(ActiveCaptures) < MaxActive

\* admit_recording, then spawn_recording: without free space the capture
\* fails before a worker exists.
Admit(r, space) ==
    LET w == Admitted(Maximum[r])
    IN  /\ Row(r, IF space THEN w ELSE Failed(w))
        /\ worker' = IF space
                     THEN [worker EXCEPT ![r] =
                             [NoWorker EXCEPT !.at = IF r \in Segmented THEN "connecting"
                                                                        ELSE "receiving",
                                              !.token = w.version,
                                              !.generation = w.version.generation]]
                     ELSE worker

Start(r) ==
    /\ Serving /\ rec[r].storage = "none" /\ SlotFree
    /\ \/ /\ Fits(r)
          /\ \E space \in BOOLEAN : Admit(r, space)
          /\ UNCHANGED turn
       \/ /\ ~Fits(r) /\ Maximum[r] <= Quota
          /\ turn' = [NoTurn EXCEPT !.by = "reclaim", !.step = "release", !.want = r]
          /\ UNCHANGED <<rec, worker>>
    /\ UNCHANGED <<disk, reader, reading, jobs, service, asks, mishaps>>

\* record pause: the row is interrupted at once; the worker learns of it at
\* its next call.
Pause(r) ==
    /\ Asked /\ Serving /\ rec[r].capture = "running"
    /\ Row(r, EndedWithGap(rec[r], "capture_pause", "lost"))
    /\ UNCHANGED <<disk, worker, reader, reading, jobs, service, turn, mishaps>>

Call(r, place) == Catalog /\ worker[r].at = place
Current(r) == worker[r].token = rec[r].version
CallOnly == UNCHANGED <<disk, reader, reading, jobs, service, turn, asks, mishaps>>

\* A call that presents another version is refused.
StaleCall(r) ==
    /\ Catalog /\ worker[r].at \in {"connecting", "asking", "staged", "cut"} /\ ~Current(r)
    /\ Broken(r)
    /\ UNCHANGED rec /\ CallOnly

Connect(r) ==
    /\ Call(r, "connecting") /\ Current(r) /\ rec[r].capture = "starting"
    /\ LET w == Journal(rec[r], "connected")
       IN  /\ Row(r, w)
           /\ worker' = [worker EXCEPT ![r].at = "asking", ![r].token = w.version]
    /\ CallOnly

OpenSegment(r) ==
    /\ Call(r, "asking") /\ Current(r) /\ CanOpen(rec[r])
    /\ IF rec[r].escrow < Ceiling
       THEN Step(r, "done") /\ UNCHANGED rec
       ELSE /\ Row(r, Opened(rec[r]))
            /\ worker' = [worker EXCEPT ![r].at = "reading", ![r].key = Len(rec[r].ends) + 1]
    /\ CallOnly

\* read_segment: the staging file appears with the first bytes.
ReadSegment(r) ==
    /\ Files /\ worker[r].at = "reading"
    /\ \E bytes \in 1 .. Ceiling :
          /\ disk' = [disk EXCEPT ![r][worker[r].key] = bytes]
          /\ worker' = [worker EXCEPT ![r].at = "staged", ![r].bytes = bytes]
    /\ UNCHANGED <<rec, reader, reading, jobs, service, turn, asks, mishaps>>

\* The body ended before a byte: the open segment is returned.
ReleaseOpen(r) ==
    /\ Call(r, "reading")
    /\ IF Current(r) /\ rec[r].capture = "running" /\ rec[r].open > 0
       THEN /\ Row(r, Withdrawn(rec[r]))
            /\ IF rec[r].ends = <<>> THEN Broken(r) ELSE Step(r, "done")
       ELSE UNCHANGED rec /\ Broken(r)
    /\ CallOnly

SealSegment(r) ==
    /\ Call(r, "staged") /\ Current(r) /\ CanSeal(rec[r], worker[r].bytes)
    /\ Row(r, SealedWith(rec[r], worker[r].bytes))
    /\ worker' = [worker EXCEPT ![r].at = "cut", ![r].key = 0, ![r].bytes = 0]
    /\ CallOnly

\* The window or the ceiling cut the segment: renew, or stop at the plan's end.
Renew(r) ==
    /\ Call(r, "cut") /\ Current(r)
    /\ \E place \in {"asking", "done"} : Step(r, place)
    /\ UNCHANGED rec /\ CallOnly

EndOfBody(r) ==
    /\ Files /\ worker[r].at = "cut"
    /\ Step(r, "done")
    /\ UNCHANGED <<rec, disk, reader, reading, jobs, service, turn, asks, mishaps>>

\* note_clock and renew_segment_lease: a clock that ran backward, or a lease
\* that ran out, ends the capture inside the call.
EndedInCall(r) ==
    /\ Catalog /\ Current(r) /\ rec[r].capture = "running"
    /\ \E cause \in {"backward_clock", "refused_renewal"} :
          /\ worker[r].at \in (IF cause = "backward_clock" THEN {"staged", "cut"} ELSE {"cut"})
          /\ Row(r, EndedWithGap(rec[r], cause, "fail"))
    /\ Broken(r)
    /\ CallOnly

\* single_file: one staging file, published by its result alone.
ReceiveFile(r) ==
    /\ Files /\ worker[r].at = "receiving"
    /\ \E bytes \in 1 .. Maximum[r] :
          /\ disk' = [disk EXCEPT ![r][1] = bytes]
          /\ worker' = [worker EXCEPT ![r].at = "received", ![r].bytes = bytes]
    /\ UNCHANGED <<rec, reader, reading, jobs, service, turn, asks, mishaps>>

VerifyFile(r) ==
    /\ Files /\ worker[r].at = "received"
    /\ Step(r, "done")
    /\ UNCHANGED <<rec, disk, reader, reading, jobs, service, turn, asks, mishaps>>

\* The network, the decoder or the file system fails; what was staged stays.
WorkerFails(r) ==
    /\ Files /\ worker[r].at \notin {"none", "done", "failed"}
    /\ Broken(r)
    /\ UNCHANGED <<rec, disk, reader, reading, jobs, service, turn, asks, mishaps>>

\* Actor::finish.  A result the row no longer admits is an error of the
\* actor, which stops the service.
Finished(r, w) == Row(r, w) /\ UNCHANGED service
ServiceFails == service' = "stopping" /\ UNCHANGED rec
Finish(r) ==
    /\ Catalog /\ worker[r].at \in {"done", "failed"}
    /\ worker' = [worker EXCEPT ![r] = NoWorker]
    /\ LET w == rec[r]  bytes == worker[r].bytes
           published == worker[r].at = "done"
           own == w.version.generation = worker[r].generation
       IN  \/ /\ own /\ published /\ r \in Segmented /\ CanComplete(w)
              /\ Finished(r, Completed(w))
           \/ /\ own /\ published /\ r \notin Segmented /\ CanPublish(w, bytes)
              /\ Finished(r, PublishedWhole(w, bytes))
           \/ /\ own /\ ~published /\ Allowed(w.capture, "fail")
              /\ Finished(r, Failed(w))
           \/ /\ \/ ~own
                 \/ published /\ ~(IF r \in Segmented THEN CanComplete(w) ELSE CanPublish(w, bytes))
                 \/ ~published /\ ~Allowed(w.capture, "fail")
              /\ ServiceFails
    /\ UNCHANGED <<disk, reader, reading, jobs, turn, asks, mishaps>>

\* -------------------------------------------------- retention by request --

RowOnly == UNCHANGED <<disk, worker, reader, reading, jobs, service, turn, mishaps>>

Retain(r) ==
    /\ Asked /\ Serving /\ OnShelf(rec[r])
    /\ Row(r, [rec[r] EXCEPT !.temporary = ~@])
    /\ RowOnly

\* Any half-open range; the guard and the holds see only whole segments.
HoldRange(r) ==
    /\ Asked /\ Serving
    /\ \E lo, hi \in Segments(rec[r]) :
          /\ CanHold(rec[r], lo .. hi) /\ Row(r, HeldBy(rec[r], lo .. hi))
    /\ RowOnly

Acknowledge(r) ==
    /\ Asked /\ Serving /\ rec[r].storage = "retained"
    /\ Row(r, [rec[r] EXCEPT !.receipt = TRUE])
    /\ RowOnly

\* Time passes: a recording, then its segments in order, pass the retention
\* age.
Age(r) ==
    /\ Asked /\ OnShelf(rec[r])
    /\ \E n \in rec[r].agedTo .. Len(rec[r].ends) :
          /\ ~rec[r].aged \/ n > rec[r].agedTo
          /\ Row(r, [rec[r] EXCEPT !.aged = TRUE, !.agedTo = n])
    /\ RowOnly

\* An analysis job on this recording is claimed, or ends (see JobPool).
Analyse(r) ==
    /\ Asked /\ Serving /\ r \in Analysed
    /\ \/ rec[r].storage = "retained" /\ r \notin jobs /\ jobs' = jobs \union {r}
       \/ r \in jobs /\ jobs' = jobs \ {r}
    /\ UNCHANGED <<rec, disk, worker, reader, reading, service, turn, mishaps>>

\* --------------------------------------------------------------- readers --

Readable(r, n) ==
    /\ OnShelf(rec[r]) /\ n \in Segments(rec[r])
    /\ n \notin rec[r].released /\ n # rec[r].key

\* start_retained: the row commits before the worker exists; a worker that
\* cannot start leaves the row held.
StartReader(q) ==
    /\ Asked /\ Serving /\ reader[q].state = "none"
    /\ Cardinality({p \in Readers : reader[p].state \in Protecting}) < MaxReaders
    /\ \E r \in Recs, n \in Ordinals, started \in BOOLEAN :
          /\ Readable(r, n)
          /\ reader' = [reader EXCEPT ![q] =
                          [state |-> IF started THEN "running" ELSE "recovery_held",
                           rec |-> r, segment |-> n]]
          /\ reading' = IF started THEN reading \union {q} ELSE reading
    /\ UNCHANGED <<rec, disk, worker, jobs, service, turn, mishaps>>

StopReader(q) ==
    /\ Asked /\ Serving /\ reader[q].state = "running"
    /\ reader' = [reader EXCEPT ![q].state = "cancelling"]
    /\ UNCHANGED <<rec, disk, worker, reading, jobs, service, turn, mishaps>>

\* finish_retained: only a close receipt ends the protection; anything else
\* holds it.  A completion that cannot be stored stops the service.
FinishReader(q) ==
    /\ Catalog /\ q \in reading
    /\ reading' = reading \ {q}
    /\ \/ /\ \E state \in {"completed", "failed", "recovery_held"} :
                reader' = [reader EXCEPT ![q].state = state]
          /\ UNCHANGED <<service, mishaps>>
       \/ /\ Mishap
          /\ reader' \in {reader, [reader EXCEPT ![q].state = "recovery_held"]}
          /\ service' = "stopping"
    /\ UNCHANGED <<rec, disk, worker, jobs, turn, asks>>

\* --------------------------------------------------- deletion, retention --

Oldest(ns) == {n \in ns : \A m \in ns : n <= m}

\* Mutant: a segment somebody reads may be chosen.
ReleasableRead(r, pressure) ==
    {n \in Segments(rec[r]) \ (rec[r].released \union rec[r].held) :
        /\ n # rec[r].key
        /\ IF pressure THEN rec[r].storage = "retained" ELSE n <= rec[r].agedTo}

\* next_segment_release: the segments it may choose, by the age they were
\* sealed at; within a recording that is their order.
Releasable(r, pressure) ==
    {n \in Segments(rec[r]) \ (rec[r].released \union rec[r].held) :
        /\ n # rec[r].key
        /\ \A q \in Readings(r) : reader[q].segment # n
        /\ IF pressure THEN rec[r].storage = "retained" ELSE n <= rec[r].agedTo}
ReleaseChoices(pressure) ==
    {choice \in Recs \X Ordinals :
        LET r == choice[1] IN
        /\ rec[r].temporary /\ OnShelf(rec[r]) /\ r \notin jobs
        /\ choice[2] \in Oldest(Releasable(r, pressure))}

Ended == {"completed", "failed", "interrupted", "cancelled"}
PruneCandidates(pressure) ==
    {r \in Recs : /\ rec[r].temporary /\ OnShelf(rec[r])
                  /\ r \notin jobs /\ Readings(r) = {}
                  /\ rec[r].capture \in Ended
                  /\ pressure \/ rec[r].aged \/ rec[r].receipt}

\* Mutant: readers do not stop a deletion.
MayDeleteRead(r, pruning) ==
    /\ rec[r].storage \notin {"none", "deleted"} /\ rec[r].capture \notin Active
    /\ r \notin jobs
    /\ pruning => rec[r].temporary /\ OnShelf(rec[r])

\* begin_delete
MayDelete(r, pruning) ==
    /\ rec[r].storage \notin {"none", "deleted"} /\ rec[r].capture \notin Active
    /\ r \notin jobs /\ Readings(r) = {}
    /\ pruning => rec[r].temporary /\ OnShelf(rec[r])
BeginDelete(t, r, next) ==
    /\ Row(r, Deleting(rec[r]))
    /\ turn' = [t EXCEPT !.step = "unlink", !.rec = r, !.keys = ObjectKeys(rec[r]),
                         !.next = next]

TurnOnly == UNCHANGED <<worker, reader, reading, jobs, asks>>

Delete(r) ==
    /\ Asked /\ Serving /\ MayDelete(r, FALSE)
    /\ BeginDelete([NoTurn EXCEPT !.by = "user"], r, "idle")
    /\ UNCHANGED <<disk, worker, reader, reading, jobs, service, mishaps>>

\* Message::Sweep and dvr prune.
BeginPrune(by) ==
    /\ Serving
    /\ turn' = [NoTurn EXCEPT !.by = by, !.step = "release"]
    /\ UNCHANGED <<rec, disk, service, mishaps>> /\ TurnOnly

\* release_segments: at most one segment.  The last one of a retained
\* recording is a deletion of the recording.
ReleaseNext ==
    /\ turn.step = "release"
    /\ LET choices == ReleaseChoices(turn.by = "reclaim")
       IN  \/ /\ choices = {}
              /\ turn' = [turn EXCEPT !.step = "candidates"] /\ UNCHANGED rec
           \/ \E choice \in choices :
                 LET r == choice[1]  n == choice[2]
                     last == rec[r].storage = "retained" /\ rec[r].media = Length(rec[r], n)
                 IN  \/ last /\ MayDelete(r, TRUE) /\ BeginDelete(turn, r, "candidates")
                     \/ /\ ~last /\ UNCHANGED rec
                        /\ turn' = [turn EXCEPT !.step = "unlink", !.rec = r, !.segment = n,
                                                !.keys = {n}, !.next = "candidates"]
    /\ UNCHANGED <<disk, service, mishaps>> /\ TurnOnly

Candidates ==
    /\ turn.step = "candidates"
    /\ LET todo == PruneCandidates(turn.by = "reclaim")
       IN  turn' = IF todo = {} THEN NoTurn ELSE [turn EXCEPT !.step = "prune", !.todo = todo]
    /\ UNCHANGED <<rec, disk, service, mishaps>> /\ TurnOnly

\* prune takes its candidates once; reclaim starts again from the segments.
PruneNext ==
    /\ turn.step = "prune"
    /\ \/ /\ turn.todo = {} /\ UNCHANGED rec
          /\ turn' = IF turn.by = "reclaim" THEN [turn EXCEPT !.step = "release"] ELSE NoTurn
       \/ \E r \in turn.todo :
             /\ MayDelete(r, TRUE)
             /\ BeginDelete([turn EXCEPT !.todo = @ \ {r}], r, "prune")
    /\ UNCHANGED <<disk, service, mishaps>> /\ TurnOnly

Unlink ==
    /\ turn.step = "unlink"
    /\ \E n \in turn.keys :
          /\ disk' = [disk EXCEPT ![turn.rec][n] = 0]
          /\ turn' = [turn EXCEPT !.keys = @ \ {n}]
    /\ UNCHANGED <<rec, service, mishaps>> /\ TurnOnly

\* A removal, the directory's sync or the row's write fails.  Only a request
\* survives it: a sweep stops the service, a start-up ends.
UnlinkFails ==
    /\ turn.step = "unlink" /\ Mishap
    /\ turn' = NoTurn
    /\ service' = CASE turn.by = "sweep" -> "stopping" [] turn.by = "boot" -> "down"
                    [] OTHER -> service
    /\ UNCHANGED <<rec, disk>> /\ TurnOnly

\* Where a turn goes once rows changed: reclaim ends as soon as it fits.
Continued ==
    LET t == [turn EXCEPT !.rec = NoRec, !.segment = 0, !.next = "idle"]
    IN  IF turn.by \in {"user", "boot"} THEN NoTurn
        ELSE IF turn.by = "reclaim" /\ Maximum[turn.want] <= Quota - Charged' THEN [t EXCEPT !.step = "admit", !.todo = {}]
        ELSE [t EXCEPT !.step = turn.next]

\* finish_delete and mark_segment_released
Commit ==
    /\ turn.step = "unlink" /\ turn.keys = {}
    /\ LET r == turn.rec  n == turn.segment
       IN  \/ n = 0 /\ rec[r].capture \notin Active /\ Row(r, Deleted(rec[r]))
           \/ /\ n # 0
              /\ rec[r].storage = "retained" => Length(rec[r], n) < rec[r].media
              /\ Row(r, Released(rec[r], n))
    /\ turn' = Continued
    /\ UNCHANGED <<disk, service, mishaps>> /\ TurnOnly

AdmitReclaimed ==
    /\ turn.step = "admit" /\ Fits(turn.want)
    /\ \E space \in BOOLEAN : Admit(turn.want, space)
    /\ turn' = NoTurn
    /\ UNCHANGED <<disk, reader, reading, jobs, service, asks, mishaps>>

\* --------------------------------------------- stop, crash and recovery --

Stop ==
    /\ service = "up" /\ service' = "stopping"
    /\ UNCHANGED <<rec, disk, worker, reader, reading, jobs, turn, asks, mishaps>>

Exit ==
    /\ service = "stopping" /\ turn = NoTurn /\ reading = {}
    /\ \A r \in Recs : worker[r].at = "none"
    /\ service' = "down"
    /\ UNCHANGED <<rec, disk, worker, reader, reading, jobs, turn, asks, mishaps>>

Crash ==
    /\ service # "down" /\ Mishap
    /\ service' = "down" /\ turn' = NoTurn
    /\ worker' = [r \in Recs |-> NoWorker] /\ reading' = {}
    /\ UNCHANGED <<rec, disk, reader, jobs, asks>>

\* Mutant: only captures that were running are recovered.
RecoverRunning ==
    /\ service = "down" /\ service' = "readers"
    /\ rec' = [r \in Recs |-> IF rec[r].capture = "running" THEN Recovered(rec[r]) ELSE rec[r]]
    /\ UNCHANGED <<disk, worker, reader, reading, jobs, turn, asks, mishaps>>

\* serve: captures, readers, analysis jobs (see JobPool), then deletions.
RecoverCaptures ==
    /\ service = "down" /\ service' = "readers"
    /\ rec' = [r \in Recs |-> IF rec[r].capture \in Active THEN Recovered(rec[r]) ELSE rec[r]]
    /\ UNCHANGED <<disk, worker, reader, reading, jobs, turn, asks, mishaps>>

RecoverReaders ==
    /\ service = "readers" /\ service' = "deletions"
    /\ reader' = [q \in Readers |->
                     IF reader[q].state \in {"running", "cancelling"}
                     THEN [reader[q] EXCEPT !.state = "recovery_held"] ELSE reader[q]]
    /\ jobs' \in SUBSET jobs
    /\ UNCHANGED <<rec, disk, worker, reading, turn, asks, mishaps>>

PendingDeletions == {r \in Recs : rec[r].storage = "deleting"}
RecoverDeletions ==
    /\ service = "deletions" /\ turn = NoTurn
    /\ \/ \E r \in PendingDeletions :
             /\ MayDelete(r, FALSE)
             /\ BeginDelete([NoTurn EXCEPT !.by = "boot"], r, "idle")
             /\ UNCHANGED service
       \/ PendingDeletions = {} /\ service' = "up" /\ UNCHANGED <<rec, turn>>
    /\ UNCHANGED <<disk, mishaps>> /\ TurnOnly

\* ---------------------------------------------------------- specification --

WorkerStep(r) == ReadSegment(r) \/ EndOfBody(r) \/ ReceiveFile(r) \/ VerifyFile(r) \/ WorkerFails(r)
WorkerCall(r) ==
    StaleCall(r) \/ Connect(r) \/ OpenSegment(r) \/ ReleaseOpen(r) \/ SealSegment(r)
    \/ Renew(r) \/ EndedInCall(r) \/ Finish(r)
Request(r) ==
    \/ Start(r) \/ Pause(r) \/ Retain(r) \/ HoldRange(r) \/ Acknowledge(r) \/ Analyse(r)
    \/ Delete(r)
TurnStep ==
    ReleaseNext \/ Candidates \/ PruneNext \/ Unlink \/ UnlinkFails \/ Commit \/ AdmitReclaimed
Recovery == RecoverCaptures \/ RecoverReaders \/ RecoverDeletions

Next ==
    \/ \E r \in Recs : Request(r) \/ WorkerStep(r) \/ WorkerCall(r) \/ Age(r)
    \/ \E q \in Readers : StartReader(q) \/ StopReader(q) \/ FinishReader(q)
    \/ \E by \in {"sweep", "prune"} : BeginPrune(by)
    \/ TurnStep \/ Stop \/ Exit \/ Crash \/ Recovery

Spec == Init /\ [][Next]_vars

\* ------------------------------------------------------------ properties --

\* The audit a library must pass to open (audit_dvr): a reserved recording's
\* ceiling is its escrow, its open segment and what it sealed; a kept one is
\* charged for exactly the segments still there; a deleted one for nothing;
\* and only a running capture has bytes in an open segment.
BytesBalance ==
    \A r \in Recs : LET w == rec[r] IN
        /\ w.storage = "reserved" =>
              w.charged = w.maximum /\ w.escrow + w.open + Sealed(w) = w.maximum
        /\ w.storage = "retained" =>
              /\ w.charged = w.media /\ w.media = Unreleased(w) /\ w.media > 0
              /\ w.escrow = 0 /\ w.open = 0 /\ w.key = 0
        /\ w.storage = "deleted" => w.charged = 0 /\ w.escrow = 0 /\ w.open = 0
        /\ w.open > 0 => w.capture = "running" /\ w.key # 0

Stored(r) == Total(disk[r], Ordinals)

\* The quota bounds the bytes on disk: the charges never exceed it, and
\* until a recording is deleted its files, staged and abandoned ones too, fit
\* in its charge, also between a removal and the write that records it.
QuotaCoversDisk ==
    /\ Charged <= Quota
    /\ \A r \in Recs : rec[r].storage # "deleted" => Stored(r) <= rec[r].charged

\* Start-up deletes every pending deletion or fails (recover_deletions), so
\* nothing that refuses a deletion may come over one: a recording being
\* deleted has no live capture, protecting reader or job.  And a reader's
\* worker never runs against a segment that was released or deleted.
DeletionsCanFinish ==
    /\ \A r \in PendingDeletions :
          rec[r].capture \notin Active /\ r \notin jobs /\ Readings(r) = {}
    /\ \A q \in reading :
          LET r == reader[q].rec IN
          /\ reader[q].state \in Protecting /\ OnShelf(rec[r])
          /\ reader[q].segment \in Segments(rec[r]) \ rec[r].released

Torn(r) == {n \in Segments(rec[r]) \ rec[r].released : disk[r][n] = 0}
TornFiles == {p \in Recs \X Ordinals : OnShelf(rec[p[1]]) /\ p[2] \in Torn(p[1])}

\* A row promises a file that is not there only when a crash or a failed
\* write parted a removal from its record: at most one segment for each, and
\* the one the turn has in hand.
TornOnlyByInterruption ==
    Cardinality(TornFiles) <= mishaps + (IF turn.segment # 0 THEN 1 ELSE 0)

\* A recording is deleted with every file it ever had, the staged file of an
\* interrupted capture included.  The captures that ended inside a call are
\* left out: their row forgets the key of the open segment.
DeletionLeavesNothing ==
    \A r \in Recs :
        rec[r].storage = "deleted" /\ rec[r].cause = "none"
            => \A n \in Ordinals : disk[r][n] = 0

\* What a removal may never touch, whoever asked for it: a segment somebody
\* reads, a recording a job reads, the file a live capture writes; and
\* retention never takes a held segment alone.
UnlinkSparesProtected ==
    [][\A r \in Recs, n \in Ordinals : disk[r][n] # 0 /\ disk'[r][n] = 0 =>
          /\ \A q \in Readings(r) : reader[q].segment # n
          /\ r \notin jobs
          /\ rec[r].capture \in Active => n # rec[r].key
          /\ turn.segment = n => n \notin rec[r].held]_vars

\* While requests are served, a live capture has a worker of its own
\* generation: one without would keep its capture slot and its whole ceiling
\* until a restart, and one of an older generation could publish into it.
LiveCapturesWorked ==
    service = "up" => \A r \in ActiveCaptures :
        worker[r].at # "none" /\ worker[r].generation = rec[r].version.generation

\* "record hold protects every published segment that range intersects"
\* (docs/usage.md): until the user asks for a deletion, the file of a held
\* segment is never removed.
HeldSegmentsKept ==
    [][\A r \in Recs, n \in Ordinals :
          n \in rec[r].held /\ turn.by \in {"sweep", "prune", "reclaim"} /\ disk[r][n] # 0
             => disk'[r][n] # 0]_vars
===============================================================================
