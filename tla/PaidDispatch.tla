----------------------------- MODULE PaidDispatch -----------------------------
(***************************************************************************)
(* Paid requests to a provider (providers/dispatch.rs, attempts.rs) over   *)
(* the ledger.  An attempt is admitted, marked submitted, handed to the    *)
(* transport once, and its answer is recorded and settled; any other       *)
(* result keeps the whole reservation until a lookup finds the charge.     *)
(*                                                                         *)
(* The store is borrowed exclusively for a whole call, so inside one call  *)
(* only a crash or a catalog error can come between two transactions.      *)
(* Between calls anything may happen.  The provider is external: what it   *)
(* charges is its own choice, and what it reports is what it charges.      *)
(***************************************************************************)
EXTENDS Ledger

CONSTANTS
    NoRequest,
    RetryOf,  \* Requests -> the attempt it repeats, or NoRequest
    Charges,  \* what a provider may charge
    Wait,     \* the Retry-After of a payment refusal
    MaxTime   \* bound of the model: clock

ASSUME DispatchAssumption ==
    /\ NoRequest \notin Requests
    /\ RetryOf \in [Requests -> Requests \union {NoRequest}]
    /\ Charges \subseteq Nat
    /\ {Wait, MaxTime} \subseteq Nat

VARIABLES
    attempt,  \* provider_attempts: the recorded outcome of each request
    admitted, \* Admitted values the process holds
    call,     \* where the call in progress is
    phase,    \* life of the process
    now,      \* the clock a caller reads; it may be set back
    sent,     \* history: transport calls per request
    charged   \* what the provider charged for each request

vars == <<ledger, attempt, admitted, call, phase, now, sent, charged>>

Outcomes == {"completed", "usage_missing", "timeout", "refused", "retry_after", "failed"}
Attempts == [outcome : Outcomes \union {"none"}, generation : BOOLEAN, at : Nat]
NoAttempt == [outcome |-> "none", generation |-> FALSE, at |-> 0]

\* A transport answer: only a completed one carries a cost, and a payment
\* refusal has no generation ID.
Answers == {a \in [outcome : Outcomes, generation : BOOLEAN] :
              a.outcome \in {"refused", "retry_after"} => ~a.generation}

Idle == [at |-> "idle"]
Calls == {Idle} \union [at : {"send", "uncertain", "lookup", "settle"}, request : Requests]
            \union [at : {"record"}, request : Requests, answer : Answers]
At(place, r) == call.at = place /\ call.request = r
Goto(place, r) == call' = [at |-> place, request |-> r]

TypeOK ==
    /\ LedgerTypes
    /\ attempt \in [Requests -> Attempts]
    /\ admitted \subseteq Requests
    /\ call \in Calls
    /\ phase \in {"down", "recovering", "serving"}
    /\ now \in Nat
    /\ sent \in [Requests -> Nat]
    /\ charged \in [Requests -> Nat]

Init ==
    /\ LedgerInit
    /\ attempt = [r \in Requests |-> NoAttempt]
    /\ admitted = {}
    /\ call = Idle
    /\ phase = "down"
    /\ now = 0
    /\ sent = [r \in Requests |-> 0]
    /\ charged = [r \in Requests |-> 0]

Ready == phase = "serving" /\ call = Idle

-----------------------------------------------------------------------------

\* Mutant: a timeout may be retried as well.
RetryableLoosely(r) ==
    LET p == RetryOf[r]
    IN  p # NoRequest =>
          /\ state[p] # "absent" /\ RetryOf[p] = NoRequest
          /\ \A q \in Requests \ {r} : RetryOf[q] = p => state[q] = "absent"
          /\ attempt[p].outcome \in {"retry_after", "timeout"} /\ now >= attempt[p].at + Wait

\* check_retry: one retry, of a payment refusal whose time has passed.
Retryable(r) ==
    LET p == RetryOf[r]
    IN  p # NoRequest =>
          /\ state[p] # "absent" /\ RetryOf[p] = NoRequest
          /\ \A q \in Requests \ {r} : RetryOf[q] = p => state[q] = "absent"
          /\ attempt[p].outcome = "retry_after" /\ now >= attempt[p].at + Wait

\* admit of a new ID; the replay of an old one changes nothing.
Admit(r) ==
    /\ Ready
    /\ Retryable(r)
    /\ Reserve(r)
    /\ admitted' = admitted \union {r}
    /\ UNCHANGED <<attempt, call, phase, now, sent, charged>>

\* submit commits `submitted` before anything is sent.
Submit(r) ==
    /\ Ready /\ r \in admitted
    /\ MarkSubmitted(r)
    /\ Goto("send", r)
    /\ UNCHANGED <<attempt, admitted, phase, now, sent, charged>>

\* The transport call: the provider may charge whatever its answer is.
Send(r) ==
    /\ At("send", r)
    /\ \E a \in Answers, c \in Charges :
         /\ call' = [at |-> "record", request |-> r, answer |-> a]
         /\ charged' = [charged EXCEPT ![r] = c]
    /\ sent' = [sent EXCEPT ![r] = @ + 1]
    /\ UNCHANGED <<ledger, attempt, admitted, phase, now>>

\* record, its first transaction: the outcome and the generation ID, once.
RecordOutcome(r) ==
    /\ At("record", r)
    /\ attempt[r].outcome = "none"
    /\ attempt' = [attempt EXCEPT ![r] = [outcome |-> call.answer.outcome,
                                          generation |-> call.answer.generation, at |-> now]]
    /\ Goto(IF call.answer.outcome = "completed" /\ call.answer.generation
            THEN "settle" ELSE "uncertain", r)
    /\ UNCHANGED <<ledger, admitted, phase, now, sent, charged>>

\* record, its second transaction: a missing usage is looked up at once.
KeepLiability(r) ==
    /\ At("uncertain", r)
    /\ MarkUncertain(r)
    /\ IF attempt[r].outcome = "usage_missing" /\ attempt[r].generation
       THEN Goto("lookup", r) ELSE call' = Idle
    /\ UNCHANGED <<attempt, admitted, phase, now, sent, charged>>

\* The charge the provider reported with its answer, or to a lookup.
SettleReported(r) ==
    /\ At("settle", r)
    /\ Settle(r, charged[r])
    /\ call' = Idle
    /\ UNCHANGED <<attempt, admitted, phase, now, sent, charged>>

\* Mutant: the generation ID is not asked for.
ReconcileAny(r) ==
    /\ Ready
    /\ state[r] = "uncertain"
    /\ Goto("lookup", r)
    /\ UNCHANGED <<ledger, attempt, admitted, phase, now, sent, charged>>

\* reconcile: only an uncertain request whose answer had a generation ID.
Reconcile(r) ==
    /\ Ready
    /\ state[r] = "uncertain" /\ attempt[r].generation
    /\ Goto("lookup", r)
    /\ UNCHANGED <<ledger, attempt, admitted, phase, now, sent, charged>>

\* The provider finds the generation, or the liability stays.
Lookup(r) ==
    /\ At("lookup", r)
    /\ Goto("settle", r) \/ call' = Idle
    /\ UNCHANGED <<ledger, attempt, admitted, phase, now, sent, charged>>

ReleaseUnsubmitted(r) ==
    /\ Ready
    /\ Release(r)
    /\ UNCHANGED <<attempt, admitted, call, phase, now, sent, charged>>

\* SetBudget, of the service or of a command that owns the library meanwhile.
SetBudget(b, value) ==
    /\ phase # "recovering" /\ call = Idle
    /\ SetLimit(b, value)
    /\ UNCHANGED <<attempt, admitted, call, phase, now, sent, charged>>

\* A catalog error ends the call; what it committed stays.
CatalogFails ==
    /\ call # Idle
    /\ call' = Idle
    /\ UNCHANGED <<ledger, attempt, admitted, phase, now, sent, charged>>

-----------------------------------------------------------------------------

\* serve recovers until nothing is left, then opens.
Boot ==
    /\ phase = "down"
    /\ phase' = "recovering"
    /\ UNCHANGED <<ledger, attempt, admitted, call, now, sent, charged>>

Recover ==
    /\ phase = "recovering"
    /\ RecoverSubmitted
    /\ UNCHANGED <<attempt, admitted, call, phase, now, sent, charged>>

Serve ==
    /\ phase = "recovering" /\ Submitted = {}
    /\ phase' = "serving"
    /\ UNCHANGED <<ledger, attempt, admitted, call, now, sent, charged>>

\* The process ends at any point; its Admitted values go with it.
Crash ==
    /\ phase # "down"
    /\ phase' = "down" /\ call' = Idle /\ admitted' = {}
    /\ UNCHANGED <<ledger, attempt, now, sent, charged>>

SetClock ==
    /\ call = Idle
    /\ now' \in 0 .. MaxTime
    /\ UNCHANGED <<ledger, attempt, admitted, call, phase, sent, charged>>

Next ==
    \/ \E r \in Requests : \/ Admit(r) \/ Submit(r) \/ Send(r) \/ RecordOutcome(r)
                           \/ KeepLiability(r) \/ SettleReported(r) \/ Reconcile(r)
                           \/ Lookup(r) \/ ReleaseUnsubmitted(r)
    \/ \E b \in Scopes, value \in Limits : SetBudget(b, value)
    \/ CatalogFails \/ Boot \/ Recover \/ Serve \/ Crash \/ SetClock

Spec == Init /\ [][Next]_vars

-----------------------------------------------------------------------------

\* A request reaches the transport at most once, over any number of replays,
\* errors and restarts, and once it did nothing makes it free.
SentOnce ==
    \A r \in Requests : /\ sent[r] <= 1
                        /\ sent[r] = 1 => state[r] \in {"submitted", "uncertain", "settled"}

\* While a provider keeps to the maxima, what it charged a scope, known to the
\* ledger or not, is covered by the limit (docs/decisions/0040).
SpendingCovered ==
    \A b \in Scopes :
        LET mine == {r \in Requests : b \in BudgetsOf(r) /\ sent[r] > 0}
        IN  (\A r \in mine : charged[r] <= Maximum[r]) =>
              Total(charged, mine) <= limit[b]

\* What is settled is what the provider charged, on the evidence of the
\* generation ID its answer left (audit_providers).
ChargesProven ==
    \A r \in Requests : state[r] = "settled" =>
        sent[r] = 1 /\ attempt[r].generation /\ actual[r] = charged[r]

\* An attempt that was retried never settles: the two are not both charged,
\* and no third attempt follows.
RetriedNeverSettles ==
    \A r \in Requests : RetryOf[r] # NoRequest /\ state[r] # "absent" =>
        /\ state[RetryOf[r]] \in {"submitted", "uncertain"}
        /\ \A q \in Requests : state[q] # "absent" /\ q # r => RetryOf[q] \notin {r, RetryOf[r]}
=============================================================================
