----------------------------- MODULE Schedules -----------------------------
(***************************************************************************)
(* Capture schedules of one library: the rules a user, a monitor or a task *)
(* owns, their occurrences, the monitor's reservations, the finite         *)
(* collection grants of tasks, and the schedule pass of the catalog thread *)
(* (storage/schedules.rs, schedule.rs, storage/monitors/capture.rs,        *)
(* storage/tasks/collection.rs, control/actor.rs).                         *)
(*                                                                         *)
(* Every operation reads the wall clock anew and the clock may have been   *)
(* set back, so there is no time in the state: an action picks its time.   *)
(* What a pass finds in the tables of other components (a decoder, free    *)
(* capture slots, free bytes, running listens, the receipts of a task's    *)
(* other operations) is one of Conditions.                                 *)
(***************************************************************************)
EXTENDS Integers, Sequences, FiniteSets, Totals

CONSTANTS
  Rules,          \* rule identities, in the order of their text
  Source,         \* the source revision of each rule
  Owner,          \* "user", "monitor", or the task of each rule
  Drafts,         \* the civil clocks a client may give each rule
  Tasks,          \* tasks over the monitor
  FirstPolicy,    \* the first version of the monitor
  Policies,       \* the versions a user may give the monitor later
  Conditions,     \* what a schedule pass may find
  DayLength,      \* instants in a civil day
  Dates,          \* civil dates a rule plans
  Times,          \* instants
  Springs,        \* pairs of a date and an hour that the zone skips
  ClientIds,      \* bound on the occurrence ids a client records under
  MaxRevisions,   \* bound on the revisions of a rule
  MaxVersions,    \* bound on the monitor's versions
  MaxActions      \* bound on the monitor's actions

\* A civil clock; a once rule names the one date it is for.
Clocks ==
  {d \in [once : BOOLEAN, dates : SUBSET Dates, hour : Nat, length : Nat \ {0}, bytes : Nat] :
     d.once => \E date \in Dates : d.dates = {date}}

\* What the assumption says of a version, and of what a pass finds.
Bounded(p) == p.capture \in BOOLEAN /\ {p.daily, p.total, p.bytes} \subseteq Nat
Found(c) == c.admit \in BOOLEAN /\ {c.slots, c.room, c.reclaimed, c.receipt} \subseteq Nat

ASSUME SchedulesAssumption ==
  /\ Rules \subseteq Nat /\ IsFiniteSet(Rules)
  /\ Dates \subseteq Nat /\ IsFiniteSet(Dates) /\ Times \subseteq Nat
  /\ DayLength \in Nat \ {0}
  /\ ClientIds \subseteq Rules \X Dates
  /\ MaxVersions \in Nat \ {0} /\ MaxRevisions \in Nat /\ MaxActions \in Nat
  /\ "user" \notin Tasks /\ "monitor" \notin Tasks
  /\ \A r \in Rules : /\ Owner[r] \in Tasks \union {"user", "monitor"}
                      /\ Drafts[r] \subseteq Clocks
  /\ \A p \in Policies \union {FirstPolicy} : Bounded(p)
  /\ \A c \in Conditions : Found(c)
  \* A collection is made of once rules in UTC, which skips nothing.
  /\ \A r \in Rules : Owner[r] \in Tasks =>
       \A d \in Drafts[r] : d.once /\ \A date \in d.dates : <<date, d.hour>> \notin Springs

VARIABLES
  rule,         \* schedule_rules
  occurrence,   \* schedule_occurrences by rule and date, which make their id
  recorded,     \* the ids of occurrences that a client's recording has
  admission,    \* monitor_capture_admissions, in the order of ordinal
  refusal,      \* monitor_capture_refusals
  policy,       \* monitor_versions, in order
  actions,      \* how many rows monitor_actions has
  followed,     \* the sources followed under the latest version
  task,         \* tasks, task_collections and their cancellations
  service       \* "up" or "stopped"

monitor == <<policy, actions, followed>>
vars == <<rule, occurrence, recorded, admission, refusal, policy, actions, followed, task, service>>

NoRow == [state |-> "none"]
----------------------------------------------------------------------------
(* Civil time. *)

Start(date, clock) == date * DayLength + clock.hour

\* Mutant: a skipped hour is taken for an hour.
EndUnskipped(date, clock) == Start(date, clock) + clock.length

\* A clock the zone skips has no window: it only ends, when the zone jumps.
End(date, clock) ==
  Start(date, clock) + IF <<date, clock.hour>> \in Springs THEN 0 ELSE clock.length

Timing(date, clock, now) ==
  CASE now < Start(date, clock) -> "future"
    [] now >= End(date, clock) -> "ended"
    [] OTHER -> "open"

Today(now) == now \div DayLength

Days(date, clock) == Today(Start(date, clock)) .. Today(End(date, clock) - 1)

\* How much of a window falls on a day.
SecondsOn(day, date, clock) ==
  Cardinality({t \in Start(date, clock) .. End(date, clock) - 1 : Today(t) = day})
----------------------------------------------------------------------------
(* Occurrences. *)

Rows(rows, r, state) == {date \in Dates : rows[r][date].state = state}

\* An admitted window that has not ended yet.
OpenAdmission(rows, r, now) ==
  \E date \in Rows(rows, r, "admitted") : End(date, rows[r][date]) > now

\* Mutant: a missed date may be planned again.
TakenAdmitted(rows, r, clock, date) ==
  rows[r][date].state = "admitted" /\ rows[r][date].hour = clock.hour

Taken(rows, r, clock, date) ==
  rows[r][date].state # "none" /\ rows[r][date].hour = clock.hour

\* The dates whose slot may be the next one: a once rule keeps its date.
NextDates(rows, r, clock, now) ==
  LET free == {date \in clock.dates : ~Taken(rows, r, clock, date)}
  IN IF clock.once THEN free
     ELSE {date \in free : date >= Today(now) /\ Timing(date, clock, now) # "ended"}

Slot(plan, date, now) ==
  [state |-> IF Timing(date, plan.clock, now) = "ended" THEN "missed" ELSE "waiting",
   hour |-> plan.clock.hour, length |-> plan.clock.length, bytes |-> plan.clock.bytes,
   revision |-> plan.revision]

\* The one date to store, if nothing waits and no admitted window is open.
Materializes(rows, r, plan, now) ==
  IF Rows(rows, r, "waiting") # {} \/ OpenAdmission(rows, r, now) THEN {}
  ELSE LET dates == NextDates(rows, r, plan.clock, now)
       IN {date \in dates : \A other \in dates : date <= other}

\* The id of an occurrence is its rule and its date: a second row for a date
\* is refused, whatever its clock.
Inserts(rows, r, dates) == \A date \in dates : rows[r][date] = NoRow

Inserted(rows, r, plan, dates, now) ==
  IF dates = {} THEN rows ELSE [rows EXCEPT ![r][Min(dates)] = Slot(plan, Min(dates), now)]

Materialized(rows, r, plan, now) ==
  Inserted(rows, r, plan, Materializes(rows, r, plan, now), now)
----------------------------------------------------------------------------
(* The monitor's reservations. *)

Version == Len(policy)

Latest == policy[Version]

TotalSeconds(ledger) == Total([i \in DOMAIN ledger |-> ledger[i].length], DOMAIN ledger)
TotalBytes(ledger) == Total([i \in DOMAIN ledger |-> ledger[i].bytes], DOMAIN ledger)
DaySeconds(ledger, day) ==
  Total([i \in DOMAIN ledger |-> SecondsOn(day, ledger[i].date, ledger[i])], DOMAIN ledger)

Followed(source) == source \in Latest.sources \union Latest.candidates /\ source \in followed

\* Mutant: only the day of the start is held against the daily cap.
RefusesByStartDay(why, ledger, r, date, row) ==
  \/ why = "capture-disabled" /\ ~Latest.capture
  \/ why = "source-not-followed" /\ ~Followed(Source[r])
  \/ why = "total-cap" /\ row.length > Latest.total - TotalSeconds(ledger)
  \/ why = "byte-cap" /\ row.bytes > Latest.bytes - TotalBytes(ledger)
  \/ why = "daily-cap" /\ LET day == Today(Start(date, row)) IN
       SecondsOn(day, date, row) > Latest.daily - DaySeconds(ledger, day)

\* What stands against a window under the latest version.
Refuses(why, ledger, r, date, row) ==
  \/ why = "capture-disabled" /\ ~Latest.capture
  \/ why = "source-not-followed" /\ ~Followed(Source[r])
  \/ why = "total-cap" /\ row.length > Latest.total - TotalSeconds(ledger)
  \/ why = "byte-cap" /\ row.bytes > Latest.bytes - TotalBytes(ledger)
  \/ why = "daily-cap" /\ \E day \in Days(date, row) :
       SecondsOn(day, date, row) > Latest.daily - DaySeconds(ledger, day)

\* In the order they are tried: the first one is written down.
Reasons == <<"capture-disabled", "source-not-followed", "total-cap", "byte-cap", "daily-cap">>

Refusals(ledger, r, date, row) ==
  {i \in DOMAIN Reasons : Refuses(Reasons[i], ledger, r, date, row)}

\* A new rule must fit the version it is made for.
Attaches(r, clock) ==
  /\ Latest.capture /\ Followed(Source[r])
  /\ clock.length <= Latest.total /\ clock.bytes <= Latest.bytes
----------------------------------------------------------------------------
(* The collections of tasks. *)

RulesOf(t) == {r \in Rules : Owner[r] = t}

Admissions(ledger, t) == {i \in DOMAIN ledger : Owner[ledger[i].rule] = t}

AdmittedRules(ledger, t) == {ledger[i].rule : i \in Admissions(ledger, t)}

ScopeCurrent(t) == task[t].version = Version /\ task[t].actions = actions

\* Mutant: the grant's own time is not compared.
InOrderOfAdmissions(ledger, t, now) ==
  \A i \in Admissions(ledger, t) : now >= ledger[i].at

\* A receipt of the collection must not precede its grant and admissions.
InOrder(ledger, t, now) ==
  now >= task[t].granted /\ \A i \in Admissions(ledger, t) : now >= ledger[i].at

\* Nor may an admission precede the task's other receipts.
CollectionAdmits(ledger, t, now, c) ==
  /\ task[t].state = "granted"
  /\ ScopeCurrent(t)
  /\ InOrder(ledger, t, now) /\ now >= c.receipt
----------------------------------------------------------------------------
(* A schedule pass: one transaction over all rules, in the order of their  *)
(* text, with a savepoint for each rule. It carries what it has written.   *)

Beginning(c) ==
  [rules |-> rule, rows |-> occurrence, ledger |-> admission, refused |-> refusal,
   outcome |-> "done", slots |-> c.slots, room |-> c.room]

\* What admission writes: the occurrence, the capture's slot and bytes, and
\* the reservation of an owned rule.
Admitted(pass, r, date, now) ==
  LET row == pass.rows[r][date]
      entry == [rule |-> r, date |-> date, at |-> now, hour |-> row.hour, length |-> row.length,
                bytes |-> row.bytes, revision |-> row.revision, version |-> Version, action |-> actions]
  IN [pass EXCEPT !.rows[r][date].state = "admitted", !.slots = @ - 1, !.room = @ - row.bytes,
                  !.ledger = IF Owner[r] = "user" THEN @ ELSE Append(@, entry)]

Denied(pass, r, date, why) ==
  [pass EXCEPT !.refused = @ \union {[rule |-> r, date |-> date, revision |-> pass.rows[r][date].revision,
                                      version |-> Version, why |-> why]}]

\* What the recordings refuse as an error: another recording has the id of the
\* occurrence, or somebody listens to its source.
Conflicts(r, date, c) == <<r, date>> \in recorded \/ Source[r] \in c.listening

\* An open occurrence is held by its task, refused by its monitor, refused by
\* the recordings, left for a later pass, or admitted.
Admit(pass, r, date, now, c) ==
  LET reasons == IF Owner[r] = "user" THEN {} ELSE Refusals(pass.ledger, r, date, pass.rows[r][date])
  IN IF Owner[r] \in Tasks /\ ~CollectionAdmits(pass.ledger, Owner[r], now, c) THEN pass
     ELSE IF reasons # {} THEN Denied(pass, r, date, Reasons[Min(reasons)])
     ELSE IF Conflicts(r, date, c) THEN [pass EXCEPT !.outcome = "failed"]
     ELSE IF pass.slots = 0 THEN pass
     ELSE IF pass.rows[r][date].bytes > pass.room THEN [pass EXCEPT !.outcome = "quota"]
     ELSE Admitted(pass, r, date, now)

\* The waiting occurrences of a rule, at most one, with this timing.
Waiting(rows, r, now, timing) ==
  {date \in Rows(rows, r, "waiting") : Timing(date, rows[r][date], now) = timing}

MarkedMissed(rows, r, ended) ==
  IF ended = {} THEN rows ELSE [rows EXCEPT ![r][Min(ended)].state = "missed"]

StoreNext(pass, r, dates, now) ==
  IF Inserts(pass.rows, r, dates)
  THEN [pass EXCEPT !.rows = Inserted(@, r, pass.rules[r], dates, now)]
  ELSE [pass EXCEPT !.outcome = "failed"]

StoreAfter(pass, r, rows, now) ==
  StoreNext([pass EXCEPT !.rows = rows], r, Materializes(rows, r, pass.rules[r], now), now)

AdmitOpen(pass, r, open, now, c) ==
  IF pass.outcome # "done" \/ open = {} THEN pass ELSE Admit(pass, r, Min(open), now, c)

\* One rule: an ended occurrence is missed and the next slot stored. Otherwise
\* the next slot is stored unless one waits, and what waits and is open is
\* admitted.
ReconcileRule(pass, r, now, c, admit) ==
  LET ended == Waiting(pass.rows, r, now, "ended")
      stored == StoreAfter(pass, r, MarkedMissed(pass.rows, r, ended), now)
  IN IF admit /\ ended = {} THEN AdmitOpen(stored, r, Waiting(stored.rows, r, now, "open"), now, c)
     ELSE stored

\* A rule that finds no room is undone and ends the batch; any other error
\* undoes the batch.
Savepoint(before, after) ==
  IF after.outcome = "done" THEN after ELSE [before EXCEPT !.outcome = after.outcome]

Closed(from, last) ==
  IF last.outcome = "failed" THEN [from EXCEPT !.outcome = "failed"] ELSE last

\* The turn of one rule in a batch.
RuleTurn(pass, r, now, c, admit) ==
  IF pass.outcome # "done" \/ pass.rules[r] = NoRow THEN pass
  ELSE Savepoint(pass, ReconcileRule(pass, r, now, c, admit))

\* The rule with the greatest id is the last one.
Reconciled(from, now, c, admit) ==
  Closed(from, MapThenFoldSet(LAMBDA r, pass : RuleTurn(pass, r, now, c, admit), from,
                              LAMBDA r : r, LAMBDA S : Max(S), Rules))

\* A batch that ran out of room stays, space is reclaimed, and the rest is
\* tried once more. Space that cannot be reclaimed is an error of the pass.
Retried(first, now, c) ==
  CASE first.outcome # "quota" -> first
    [] first.outcome = "quota" /\ c.reclaimed = 0 -> [first EXCEPT !.outcome = "failed"]
    [] first.outcome = "quota" /\ c.reclaimed > 0 ->
         Reconciled([first EXCEPT !.outcome = "done", !.room = c.reclaimed], now, c, TRUE)

Pass(from, now, c) == Retried(Reconciled(from, now, c, c.admit), now, c)

Commit(pass) ==
  /\ rule' = pass.rules
  /\ occurrence' = pass.rows
  /\ admission' = pass.ledger
  /\ refusal' = pass.refused
----------------------------------------------------------------------------
(* Clients. A schedule request is followed by a pass whose error is its    *)
(* answer; both read the clock within one handler, as one instant here.    *)

\* Only an owned rule has a version in the code; a user's carries it idly.
NewRule(clock) == [state |-> "rule", clock |-> clock, revision |-> 0, version |-> Version]

Create(r, clock, now, c) ==
  /\ service = "up" /\ rule[r] = NoRow /\ Owner[r] \notin Tasks
  /\ Owner[r] = "monitor" => Attaches(r, clock)
  /\ Commit(Pass([Beginning(c) EXCEPT !.rules[r] = NewRule(clock),
                                      !.rows = Materialized(@, r, NewRule(clock), now)], now, c))
  /\ UNCHANGED <<recorded, monitor, task, service>>

WithoutWaiting(rows, r) ==
  [rows EXCEPT ![r] = [date \in Dates |-> IF rows[r][date].state = "waiting" THEN NoRow ELSE rows[r][date]]]

\* A changed rule drops its waiting occurrence and stores the next slot of its
\* new clock. An admitted occurrence keeps its plan.
Revise(r, clock, now, c) ==
  /\ service = "up" /\ rule[r] # NoRow /\ Owner[r] \notin Tasks
  /\ clock # rule[r].clock /\ rule[r].revision < MaxRevisions
  /\ LET plan == [rule[r] EXCEPT !.clock = clock, !.revision = @ + 1]
         rows == WithoutWaiting(occurrence, r)
     IN /\ Inserts(rows, r, Materializes(rows, r, plan, now))
        /\ Commit(Pass([Beginning(c) EXCEPT !.rules[r] = plan,
                                            !.rows = Materialized(rows, r, plan, now)], now, c))
  /\ UNCHANGED <<recorded, monitor, task, service>>

\* Mutant: a revision of the monitor overwrites its latest version.
ReviseMonitorInPlace(p) ==
  /\ service = "up" /\ p # Latest
  /\ policy' = [policy EXCEPT ![Version] = p] /\ followed' = p.sources
  /\ UNCHANGED <<rule, occurrence, recorded, admission, refusal, actions, task, service>>

ReviseMonitor(p) ==
  /\ service = "up" /\ Version < MaxVersions /\ p # Latest
  /\ policy' = Append(policy, p) /\ followed' = p.sources
  /\ UNCHANGED <<rule, occurrence, recorded, admission, refusal, actions, task, service>>

\* What the policy may make of a proposal: an approved source is added, one
\* that is not the last is removed, or nothing followed changes.
Decided ==
  {followed}
    \union {followed \union {s} : s \in Latest.sources \union Latest.candidates}
    \union {followed \ {s} : s \in {source \in followed : followed # {source}}}

\* An action is a row whatever the policy decides.
Propose ==
  /\ service = "up" /\ actions < MaxActions
  /\ actions' = actions + 1
  /\ followed' \in Decided
  /\ UNCHANGED <<rule, occurrence, recorded, admission, refusal, policy, task, service>>

\* A client starts a recording, or downloads an episode, under a key of its
\* choice, which may be the id of an occurrence: another recording has it only
\* once the occurrence is admitted. The row stays when its media is deleted.
\* The request runs no schedule pass.
RecordStart(id) ==
  /\ service = "up" /\ id \notin recorded /\ occurrence[id[1]][id[2]].state # "admitted"
  /\ recorded' = recorded \union {id}
  /\ UNCHANGED <<rule, occurrence, admission, refusal, monitor, task, service>>
----------------------------------------------------------------------------
(* Tasks. Their requests run no schedule pass. *)

CreateTask(t) ==
  /\ service = "up" /\ task[t].state = "none"
  /\ task' = [task EXCEPT ![t] = [state |-> "created", version |-> Version, actions |-> actions]]
  /\ UNCHANGED <<rule, occurrence, recorded, admission, refusal, monitor, service>>

\* One grant makes all rules of the task with their occurrences, or none.
StartCollection(t, plan, now) ==
  LET only(r) == CHOOSE date \in plan[r].dates : TRUE
  IN /\ service = "up" /\ task[t].state = "created"
     /\ ScopeCurrent(t)
     /\ \A r \in RulesOf(t) : Attaches(r, plan[r]) /\ End(only(r), plan[r]) > now
     /\ MapThenSumSet(LAMBDA r : plan[r].length, RulesOf(t)) <= Latest.total
     /\ MapThenSumSet(LAMBDA r : plan[r].bytes, RulesOf(t)) <= Latest.bytes
     /\ rule' = [r \in Rules |-> IF r \in RulesOf(t) THEN NewRule(plan[r]) ELSE rule[r]]
     /\ occurrence' = [r \in Rules |->
          IF r \in RulesOf(t) THEN Materialized(occurrence, r, NewRule(plan[r]), now)[r] ELSE occurrence[r]]
     /\ task' = [task EXCEPT ![t] = [state |-> "granted", version |-> Version, actions |-> actions,
                                     granted |-> now, ended |-> now, mask |-> {}]]
     /\ UNCHANGED <<recorded, admission, refusal, monitor, service>>

\* The mask is the receipt of what was admitted before.
CancelCollection(t, now) ==
  /\ service = "up" /\ task[t].state = "granted"
  /\ InOrder(admission, t, now)
  /\ task' = [task EXCEPT ![t].state = "cancelled", ![t].ended = now,
                          ![t].mask = AdmittedRules(admission, t)]
  /\ UNCHANGED <<rule, occurrence, recorded, admission, refusal, monitor, service>>
----------------------------------------------------------------------------
(* The service. *)

\* A pass of the tick, or of a create or revise that is replayed: the same
\* request again changes nothing but is followed by a pass. An error is that
\* request's answer; in the tick it stops the service.
Serve(now, c) ==
  /\ service = "up"
  /\ \E pass \in {Pass(Beginning(c), now, c)} :
       /\ Commit(pass)
       /\ \/ service' = "up"
          \/ pass.outcome = "failed" /\ service' = "stopped"
  /\ UNCHANGED <<recorded, monitor, task>>

\* A start runs a pass before it serves; recovery has ended every listen. With
\* all state in the catalog a start after a crash is a step of Serve as well.
Boot(now, c) ==
  /\ service = "stopped" /\ c.listening = {}
  /\ \E pass \in {Pass(Beginning(c), now, c)} :
       /\ Commit(pass)
       /\ service' = IF pass.outcome = "failed" THEN "stopped" ELSE "up"
  /\ UNCHANGED <<recorded, monitor, task>>
----------------------------------------------------------------------------
Init ==
  /\ rule = [r \in Rules |-> NoRow]
  /\ occurrence = [r \in Rules |-> [date \in Dates |-> NoRow]]
  /\ recorded = {} /\ admission = <<>> /\ refusal = {}
  /\ policy = <<FirstPolicy>> /\ followed = FirstPolicy.sources
  /\ actions = 0
  /\ task = [t \in Tasks |-> [state |-> "none"]]
  /\ service = "stopped"

Next ==
  \/ \E now \in Times, c \in Conditions : Serve(now, c) \/ Boot(now, c)
  \/ \E r \in Rules, now \in Times, c \in Conditions : \E clock \in Drafts[r] :
       Create(r, clock, now, c) \/ Revise(r, clock, now, c)
  \/ \E p \in Policies : ReviseMonitor(p)
  \/ Propose
  \/ \E id \in ClientIds : RecordStart(id)
  \/ \E t \in Tasks : CreateTask(t)
  \/ \E t \in Tasks, now \in Times :
       \/ CancelCollection(t, now)
       \/ \E plan \in {p \in [RulesOf(t) -> UNION {Drafts[r] : r \in RulesOf(t)}] :
                           \A r \in RulesOf(t) : p[r] \in Drafts[r]} : StartCollection(t, plan, now)

Spec == Init /\ [][Next]_vars
----------------------------------------------------------------------------
(* Properties. *)

RowTyped(r, row) ==
  /\ row.state \in {"waiting", "missed", "admitted"}
  /\ \E clock \in Drafts[r] :
       <<row.hour, row.length, row.bytes>> = <<clock.hour, clock.length, clock.bytes>>
  /\ rule[r] # NoRow /\ row.revision \in 0 .. rule[r].revision

\* Types. A rule has at most one waiting occurrence, of its present revision.
\* No hour the zone skips is admitted, and no occurrence whose id a client's
\* recording has: the recording of an admitted occurrence is its own.
TypeOK ==
  /\ \A r \in Rules :
       /\ rule[r] = NoRow \/ rule[r] \in [state : {"rule"}, clock : Drafts[r],
                                         revision : 0 .. MaxRevisions, version : 1 .. Version]
       /\ \A date \in Dates : occurrence[r][date] # NoRow => RowTyped(r, occurrence[r][date])
       /\ Cardinality(Rows(occurrence, r, "waiting")) <= 1
       /\ \A date \in Rows(occurrence, r, "waiting") :
            occurrence[r][date].revision = rule[r].revision
       /\ \A date \in Rows(occurrence, r, "admitted") :
            <<date, occurrence[r][date].hour>> \notin Springs /\ <<r, date>> \notin recorded
  /\ recorded \subseteq ClientIds
  /\ \A t \in Tasks : task[t].state \in {"none", "created", "granted", "cancelled"}
  /\ policy \in Seq(Policies \union {FirstPolicy}) /\ Version \in 1 .. MaxVersions
  /\ actions \in 0 .. MaxActions /\ followed \subseteq UNION {p.sources \union p.candidates : p \in Policies \union {FirstPolicy}}
  /\ service \in {"up", "stopped"}

\* The ledger of the monitor's reservations passes its audit (audit.sql):
\* after each of its rows the sums of seconds, of bytes and of the seconds of
\* each day keep the caps of the version that admitted the row, although
\* later versions may lower them; versions and actions never go back; and the
\* rows are exactly the admitted occurrences of owned rules.
LedgerAudits ==
  /\ \A i \in DOMAIN admission :
       LET a == admission[i]
           upTo == SubSeq(admission, 1, i)
       IN /\ TotalSeconds(upTo) <= policy[a.version].total
          /\ TotalBytes(upTo) <= policy[a.version].bytes
          /\ \A day \in Days(a.date, a) : DaySeconds(upTo, day) <= policy[a.version].daily
          /\ a.version >= rule[a.rule].version /\ policy[a.version].capture
          /\ i > 1 => a.version >= admission[i - 1].version /\ a.action >= admission[i - 1].action
  /\ \A r \in Rules, date \in Dates :
       Cardinality({i \in DOMAIN admission : admission[i].rule = r /\ admission[i].date = date})
         = IF Owner[r] # "user" /\ occurrence[r][date].state = "admitted" THEN 1 ELSE 0

\* A granted collection can be read again (read.rs, audit.rs): each of its
\* rules has exactly one occurrence, what was admitted was admitted inside its
\* window, not before the grant and not after the cancellation, under the
\* task's own scope, and the cancellation's receipt names exactly that.
CollectionsAudit ==
  \A t \in Tasks : task[t].state \in {"granted", "cancelled"} =>
    /\ \A r \in RulesOf(t) :
         /\ rule[r] # NoRow /\ rule[r].version = task[t].version
         /\ Cardinality({date \in Dates : occurrence[r][date] # NoRow}) = 1
    /\ \A i \in Admissions(admission, t) :
         LET a == admission[i]
         IN /\ a.at >= Start(a.date, a) /\ a.at < End(a.date, a)
            /\ a.at >= task[t].granted
            /\ a.version = task[t].version /\ a.action = task[t].actions
            /\ task[t].state = "cancelled" => a.at <= task[t].ended
    /\ task[t].state = "cancelled" => task[t].mask = AdmittedRules(admission, t)

\* What a cap of a version has refused is not admitted under that version:
\* reservations are never refunded.
CapRefusalsFinal ==
  \A f \in refusal : f.why \in {"total-cap", "byte-cap", "daily-cap"} =>
    ~\E i \in DOMAIN admission :
       <<admission[i].rule, admission[i].date, admission[i].revision, admission[i].version>>
         = <<f.rule, f.date, f.revision, f.version>>

\* A client's recording does no harm if no rule has its occurrence, or the
\* occurrence is missed already.
Undisturbed ==
  \A id \in recorded : rule[id[1]] = NoRow \/ occurrence[id[1]][id[2]].state = "missed"

\* While no rule has been revised and no client's recording has the id of an
\* occurrence that may still be admitted, every pass that finds the stations
\* free and space to reclaim succeeds, whatever the clock has done.
UnrevisedRulesPass ==
  (\A r \in Rules : rule[r] # NoRow => rule[r].revision = 0) /\ Undisturbed =>
    \A now \in Times, c \in Conditions :
      c.listening = {} /\ c.reclaimed > 0 => Pass(Beginning(c), now, c).outcome # "failed"

\* The tick admits an occurrence of a user's rule when its window is open and
\* a decoder is configured, given slots and room for it.
OpenOccurrencesAdmitted ==
  \A r \in Rules, date \in Dates, now \in Times, c \in Conditions :
    /\ Owner[r] = "user" /\ occurrence[r][date].state = "waiting"
    /\ Timing(date, occurrence[r][date], now) = "open"
    => Pass(Beginning(c), now, c).rows[r][date].state = "admitted"
=============================================================================
