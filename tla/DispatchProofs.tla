---------------------------- MODULE DispatchProofs ----------------------------
(***************************************************************************)
(* Proofs about paid requests: for every value of the constants of         *)
(* PaidDispatch, what is sent, charged, frozen and retried.                *)
(***************************************************************************)
EXTENDS PaidDispatch, TotalProofs

\* What a step leaves alone.
UnchangedBooks == UNCHANGED <<balances, actual>>
UnchangedAttempts == UNCHANGED <<attempt, sent, charged>>

-----------------------------------------------------------------------------
(***************************************************************************)
(* Types.                                                                  *)
(***************************************************************************)

LEMMA InitTypes == Init => TypeOK
BY LedgerAssumption, DispatchAssumption
   DEF Init, LedgerInit, TypeOK, LedgerTypes, States, Attempts, NoAttempt, Outcomes, Calls, Idle

\* Each ledger transaction keeps the ledger's types.
LEMMA SettleTypes ==
    ASSUME LedgerTypes, NEW r \in Requests, NEW c \in Nat, Settle(r, c)
    PROVE  LedgerTypes'
<1>1. \A b \in Scopes : /\ reserved[b] \in Nat /\ settled[b] \in Nat
                        /\ b \in BudgetsOf(r) => reserved[b] - Maximum[r] \in Nat
    <2>1. Maximum[r] \in Nat /\ BudgetsOf(r) \subseteq Scopes
        BY LedgerAssumption DEF LedgerAssumption, BudgetsOf
    <2>2. \A b \in BudgetsOf(r) : Maximum[r] <= reserved[b]
        BY DEF Settle
    <2> QED BY <2>1, <2>2 DEF LedgerTypes
<1>2. reserved' \in [Scopes -> Nat] /\ settled' \in [Scopes -> Nat]
    BY <1>1 DEF Settle, SettleScopes, ReleaseScopes
<1>3. frozen' \in [Scopes -> BOOLEAN]
    BY DEF Settle, LedgerTypes
<1> QED BY <1>2, <1>3 DEF Settle, LedgerTypes, States

LEMMA ReleaseTypes ==
    ASSUME LedgerTypes, NEW r \in Requests, Release(r)
    PROVE  LedgerTypes'
<1>1. \A b \in Scopes : /\ reserved[b] \in Nat
                        /\ b \in BudgetsOf(r) => reserved[b] - Maximum[r] \in Nat
    <2>1. Maximum[r] \in Nat /\ BudgetsOf(r) \subseteq Scopes
        BY LedgerAssumption DEF LedgerAssumption, BudgetsOf
    <2>2. \A b \in BudgetsOf(r) : Maximum[r] <= reserved[b]
        BY DEF Release
    <2> QED BY <2>1, <2>2 DEF LedgerTypes
<1>2. reserved' \in [Scopes -> Nat]
    BY <1>1 DEF Release, ReleaseScopes
<1> QED BY <1>2 DEF Release, LedgerTypes, States

LEMMA ReserveTypes ==
    ASSUME LedgerTypes, NEW r \in Requests, Reserve(r)
    PROVE  LedgerTypes'
<1>1. \A b \in Scopes : reserved[b] \in Nat /\ reserved[b] + Maximum[r] \in Nat
    BY LedgerAssumption DEF LedgerTypes, LedgerAssumption
<1>2. reserved' \in [Scopes -> Nat]
    BY <1>1 DEF Reserve
<1> QED BY <1>2 DEF Reserve, LedgerTypes, States, Open

LEMMA MarkTypes ==
    ASSUME LedgerTypes, NEW r \in Requests, MarkSubmitted(r) \/ MarkUncertain(r) \/ RecoverSubmitted
    PROVE  LedgerTypes'
<1>1. UnchangedBooks
    BY DEF MarkSubmitted, MarkUncertain, RecoverSubmitted, UnchangedBooks
<1>2. state' \in [Requests -> States]
    BY DEF MarkSubmitted, MarkUncertain, RecoverSubmitted, LedgerTypes, States, Open
<1> QED BY <1>1, <1>2 DEF LedgerTypes, UnchangedBooks, balances

LEMMA LimitTypes ==
    ASSUME LedgerTypes, NEW b \in Scopes, NEW value \in Limits, SetLimit(b, value)
    PROVE  LedgerTypes'
<1>1. value \in Nat
    BY LedgerAssumption DEF LedgerAssumption
<1>2. limit' \in [Scopes -> Nat]
    BY <1>1 DEF SetLimit, LedgerTypes
<1> QED BY <1>2 DEF SetLimit, LedgerTypes

\* Where a call may be.
LEMMA CallTypes ==
    /\ Idle \in Calls
    /\ \A r \in Requests : \A place \in {"send", "uncertain", "lookup", "settle"} :
         [at |-> place, request |-> r] \in Calls
    /\ \A r \in Requests : \A a \in Answers : [at |-> "record", request |-> r, answer |-> a] \in Calls
BY DEF Calls

\* The answer of a call that has one.
LEMMA AnswerType ==
    ASSUME call \in Calls, call.at = "record"
    PROVE  call.answer \in Answers
BY DEF Calls, Idle

LEMMA NextTypes == TypeOK /\ [Next]_vars => TypeOK'
<1> SUFFICES ASSUME TypeOK, [Next]_vars PROVE TypeOK'
    OBVIOUS
<1> USE CallTypes
<1>1. ASSUME NEW r \in Requests, Admit(r) PROVE TypeOK'
    BY <1>1, ReserveTypes DEF Admit, TypeOK
<1>2. ASSUME NEW r \in Requests, Submit(r) PROVE TypeOK'
    BY <1>2, MarkTypes DEF Submit, Goto, TypeOK
<1>3. ASSUME NEW r \in Requests, Send(r) PROVE TypeOK'
    <2>1. charged' \in [Requests -> Nat] /\ sent' \in [Requests -> Nat]
        BY <1>3, DispatchAssumption DEF Send, TypeOK, DispatchAssumption
    <2>2. LedgerTypes'
        BY <1>3 DEF Send, TypeOK, LedgerTypes, ledger
    <2> QED BY <1>3, <2>1, <2>2 DEF Send, TypeOK
<1>4. ASSUME NEW r \in Requests, RecordOutcome(r) PROVE TypeOK'
    <2>1. call.answer \in Answers
        BY <1>4, AnswerType DEF RecordOutcome, At, TypeOK
    <2>2. [outcome |-> call.answer.outcome, generation |-> call.answer.generation, at |-> now] \in Attempts
        BY <2>1 DEF Answers, Attempts, TypeOK
    <2>3. attempt' \in [Requests -> Attempts]
        BY <1>4, <2>2 DEF RecordOutcome, TypeOK
    <2>4. LedgerTypes'
        BY <1>4 DEF RecordOutcome, TypeOK, LedgerTypes, ledger
    <2>5. call' \in Calls
        BY <1>4 DEF RecordOutcome, Goto
    <2> QED BY <1>4, <2>3, <2>4, <2>5 DEF RecordOutcome, TypeOK
<1>5. ASSUME NEW r \in Requests, KeepLiability(r) PROVE TypeOK'
    <2>1. call' \in Calls
        BY <1>5 DEF KeepLiability, Goto
    <2> QED BY <1>5, <2>1, MarkTypes DEF KeepLiability, TypeOK
<1>6. ASSUME NEW r \in Requests, SettleReported(r) PROVE TypeOK'
    BY <1>6, SettleTypes DEF SettleReported, TypeOK
<1>7. ASSUME NEW r \in Requests, Reconcile(r) \/ Lookup(r) PROVE TypeOK'
    <2>1. call' \in Calls
        BY <1>7 DEF Reconcile, Lookup, Goto
    <2> QED BY <1>7, <2>1 DEF Reconcile, Lookup, TypeOK, LedgerTypes, ledger
<1>8. ASSUME NEW r \in Requests, ReleaseUnsubmitted(r) PROVE TypeOK'
    BY <1>8, ReleaseTypes DEF ReleaseUnsubmitted, TypeOK
<1>9. ASSUME NEW b \in Scopes, NEW value \in Limits, SetBudget(b, value) PROVE TypeOK'
    BY <1>9, LimitTypes DEF SetBudget, TypeOK
<1>10. CASE Recover
    <2>1. CASE Requests = {}
        BY <1>10, <2>1 DEF Recover, RecoverSubmitted, TypeOK, LedgerTypes, balances
    <2>2. CASE Requests # {}
        BY <1>10, <2>2, MarkTypes DEF Recover, TypeOK
    <2> QED BY <2>1, <2>2
<1>11. CASE CatalogFails \/ Boot \/ Serve \/ Crash \/ UNCHANGED vars
    BY <1>11 DEF CatalogFails, Boot, Serve, Crash, vars, ledger, TypeOK, LedgerTypes
<1>12. CASE SetClock
    BY <1>12, DispatchAssumption
       DEF SetClock, ledger, TypeOK, LedgerTypes, DispatchAssumption
<1> QED BY <1>1, <1>2, <1>3, <1>4, <1>5, <1>6, <1>7, <1>8, <1>9, <1>10, <1>11, <1>12 DEF Next

\* Every reachable state is typed.
THEOREM DispatchTypes == Spec => []TypeOK
BY InitTypes, NextTypes, PTL DEF Spec

-----------------------------------------------------------------------------
(***************************************************************************)
(* The inductive invariant.  What a request's state says of its call: the  *)
(* transport is reached only from `submitted` and for the first time, and  *)
(* a charge is settled only where a generation ID proves it.               *)
(***************************************************************************)
RequestKept(r) ==
    /\ sent[r] <= 1
    /\ sent[r] = 1 => state[r] \in {"submitted", "uncertain", "settled"}
    /\ attempt[r].outcome # "none" => sent[r] = 1
    /\ attempt[r].generation => attempt[r].outcome \notin {"none", "refused", "retry_after"}
    /\ state[r] = "settled" => sent[r] = 1 /\ attempt[r].generation /\ actual[r] = charged[r]
    /\ At("send", r) => state[r] = "submitted" /\ sent[r] = 0
    /\ At("record", r) => sent[r] = 1
    /\ At("settle", r) \/ At("lookup", r) => sent[r] = 1 /\ attempt[r].generation

CallPlaced == phase # "serving" => call = Idle

\* A retried attempt was refused, is not itself a retry, and is retried once.
RetryKept ==
    \A r \in Requests : RetryOf[r] # NoRequest /\ state[r] # "absent" =>
        /\ attempt[RetryOf[r]].outcome = "retry_after"
        /\ \A q \in Requests : state[q] # "absent" /\ q # r => RetryOf[q] \notin {r, RetryOf[r]}

\* A budget without a row has no commitments.
UnknownEmpty == \A b \in Scopes \ known : settled[b] = 0 /\ reserved[b] = 0

DispatchInvariant ==
    /\ TypeOK /\ CallPlaced /\ (\A r \in Requests : RequestKept(r))
    /\ RetryKept /\ UnknownEmpty /\ FrozenByBreach

\* The invariants the run checks follow from it.
LEMMA DispatchInvariantImplies ==
    DispatchInvariant => SentOnce /\ ChargesProven /\ RetriedNeverSettles /\ FrozenByBreach
<1> SUFFICES ASSUME DispatchInvariant
             PROVE  SentOnce /\ ChargesProven /\ RetriedNeverSettles /\ FrozenByBreach
    OBVIOUS
<1>1. SentOnce /\ ChargesProven
    BY DEF DispatchInvariant, RequestKept, SentOnce, ChargesProven
<1>2. ASSUME NEW r \in Requests, RetryOf[r] # NoRequest, state[r] # "absent"
      PROVE  state[RetryOf[r]] \in {"submitted", "uncertain"}
    <2>1. RetryOf[r] \in Requests /\ attempt[RetryOf[r]].outcome = "retry_after"
        BY <1>2, DispatchAssumption DEF DispatchInvariant, RetryKept, DispatchAssumption
    <2> QED BY <2>1 DEF DispatchInvariant, RequestKept
<1> QED BY <1>1, <1>2 DEF DispatchInvariant, RetryKept, RetriedNeverSettles

LEMMA InitDispatch == Init => DispatchInvariant
<1> SUFFICES ASSUME Init PROVE DispatchInvariant
    OBVIOUS
<1>1. call.at = "idle"
    BY DEF Init, Idle
<1>2. ASSUME NEW r \in Requests PROVE RequestKept(r)
    BY <1>1 DEF Init, LedgerInit, RequestKept, NoAttempt, At
<1>3. FrozenByBreach
    BY DEF Init, LedgerInit, FrozenByBreach, Committed
<1> QED BY <1>2, <1>3, InitTypes DEF Init, LedgerInit, DispatchInvariant, CallPlaced, RetryKept,
                                    UnknownEmpty

-----------------------------------------------------------------------------
(***************************************************************************)
(* Each request under each step.                                           *)
(***************************************************************************)

\* A step that leaves a request alone, and calls nothing on its behalf.
Untouched(q) ==
    /\ state'[q] = state[q] /\ sent'[q] = sent[q] /\ attempt'[q] = attempt[q]
    /\ actual'[q] = actual[q] /\ charged'[q] = charged[q]
    /\ \A place \in {"send", "record", "lookup", "settle"} : At(place, q)' => At(place, q)

LEMMA UntouchedKept ==
    \A q \in Requests : RequestKept(q) /\ Untouched(q) => RequestKept(q)'
BY DEF RequestKept, Untouched

\* A call that ends, or does not move, is at no new place.
LEMMA IdleNowhere ==
    \A q \in Requests : call' = Idle \/ call' = call =>
        \A place \in {"send", "record", "lookup", "settle"} : At(place, q)' => At(place, q)
BY DEF Idle, At

\* A call that goes somewhere is there for its own request only.
LEMMA GotoThere ==
    ASSUME NEW r \in Requests, NEW place \in {"send", "uncertain", "lookup", "settle"}, Goto(place, r)
    PROVE  \A q : \A other : At(other, q)' <=> other = place /\ q = r
BY DEF Goto, At

LEMMA NextKept ==
    ASSUME DispatchInvariant, [Next]_vars
    PROVE  \A q \in Requests : RequestKept(q)'
<1> USE DEF DispatchInvariant
<1>1. ASSUME NEW r \in Requests, Admit(r), NEW q \in Requests PROVE RequestKept(q)'
    <2>1. CASE q # r
        BY <1>1, <2>1, UntouchedKept, IdleNowhere DEF Admit, Reserve, TypeOK, LedgerTypes, Untouched
    <2>2. CASE q = r
        BY <1>1, <2>2, IdleNowhere
           DEF Admit, Reserve, TypeOK, LedgerTypes, RequestKept, Ready, At, Idle
    <2> QED BY <2>1, <2>2
<1>2. ASSUME NEW r \in Requests, Submit(r), NEW q \in Requests PROVE RequestKept(q)'
    <2>1. \A p : \A other : At(other, p)' <=> other = "send" /\ p = r
        BY <1>2, GotoThere DEF Submit
    <2>2. CASE q # r
        BY <1>2, <2>1, <2>2, UntouchedKept
           DEF Submit, MarkSubmitted, TypeOK, LedgerTypes, Untouched
    <2>3. CASE q = r
        BY <1>2, <2>1, <2>3 DEF Submit, MarkSubmitted, TypeOK, LedgerTypes, RequestKept
    <2> QED BY <2>2, <2>3
<1>3. ASSUME NEW r \in Requests, Send(r), NEW q \in Requests PROVE RequestKept(q)'
    <2>1. \A p : \A other : At(other, p)' <=> other = "record" /\ p = r
        BY <1>3 DEF Send, At
    <2>2. CASE q # r
        BY <1>3, <2>1, <2>2, UntouchedKept DEF Send, ledger, TypeOK, Untouched
    <2>3. CASE q = r
        <3>1. state[r] = "submitted" /\ sent[r] = 0 /\ sent'[r] = 1
            BY <1>3 DEF Send, RequestKept, TypeOK
        <3> QED BY <1>3, <2>1, <2>3, <3>1 DEF Send, ledger, RequestKept
    <2> QED BY <2>2, <2>3
<1>4. ASSUME NEW r \in Requests, RecordOutcome(r), NEW q \in Requests PROVE RequestKept(q)'
    <2>1. call.answer \in Answers
        BY <1>4, AnswerType DEF RecordOutcome, At, TypeOK
    <2>2. PICK place \in {"settle", "uncertain"} :
            /\ Goto(place, r)
            /\ place = "settle" => call.answer.generation
        BY <1>4 DEF RecordOutcome
    <2>3. \A p : \A other : At(other, p)' <=> other = place /\ p = r
        BY <2>2, GotoThere
    <2>4. CASE q # r
        BY <1>4, <2>3, <2>4, UntouchedKept DEF RecordOutcome, ledger, TypeOK, Untouched
    <2>5. CASE q = r
        <3>1. /\ attempt'[r].outcome = call.answer.outcome
              /\ attempt'[r].generation = call.answer.generation
            BY <1>4 DEF RecordOutcome, TypeOK
        <3>2. sent[r] = 1 /\ sent' = sent /\ attempt[r].outcome = "none" /\ UNCHANGED <<state, actual>>
            BY <1>4 DEF RecordOutcome, RequestKept, ledger
        <3>3. state[r] # "settled"
            BY <3>2 DEF RequestKept
        <3>4. call.answer.generation =>
                call.answer.outcome \notin {"none", "refused", "retry_after"}
            BY <2>1 DEF Answers, Outcomes
        <3> QED BY <2>2, <2>3, <2>5, <3>1, <3>2, <3>3, <3>4 DEF RequestKept
    <2> QED BY <2>4, <2>5
<1>5. ASSUME NEW r \in Requests, KeepLiability(r), NEW q \in Requests PROVE RequestKept(q)'
    <2>1. \/ call' = Idle
          \/ Goto("lookup", r) /\ attempt[r].generation /\ attempt[r].outcome = "usage_missing"
        BY <1>5 DEF KeepLiability
    <2>2. \A p \in Requests : \A other \in {"send", "record", "lookup", "settle"} : At(other, p)' =>
             \/ At(other, p)
             \/ other = "lookup" /\ p = r /\ attempt[r].generation /\ attempt[r].outcome = "usage_missing"
        BY <2>1, IdleNowhere, GotoThere
    <2>3. CASE q # r
        BY <1>5, <2>2, <2>3, UntouchedKept
           DEF KeepLiability, MarkUncertain, TypeOK, LedgerTypes, Untouched
    <2>4. CASE q = r
        <3>1. ~At("send", r) /\ state[r] = "submitted" /\ state'[r] = "uncertain"
            BY <1>5 DEF KeepLiability, MarkUncertain, At, TypeOK, LedgerTypes
        <3> QED BY <1>5, <2>2, <2>4, <3>1 DEF KeepLiability, RequestKept
    <2> QED BY <2>3, <2>4
<1>6. ASSUME NEW r \in Requests, SettleReported(r), NEW q \in Requests PROVE RequestKept(q)'
    <2>1. \A place \in {"send", "record", "lookup", "settle"} : ~At(place, q)'
        BY <1>6 DEF SettleReported, Idle, At
    <2>2. CASE q # r
        BY <1>6, <2>1, <2>2, UntouchedKept
           DEF SettleReported, Settle, TypeOK, LedgerTypes, Untouched
    <2>3. CASE q = r
        <3>1. state'[r] = "settled" /\ actual'[r] = charged[r]
            BY <1>6 DEF SettleReported, Settle, TypeOK, LedgerTypes
        <3>2. sent[r] = 1 /\ attempt[r].generation
            BY <1>6 DEF SettleReported, RequestKept
        <3> QED BY <1>6, <2>1, <2>3, <3>1, <3>2 DEF SettleReported, RequestKept
    <2> QED BY <2>2, <2>3
<1>7. ASSUME NEW r \in Requests, Reconcile(r), NEW q \in Requests PROVE RequestKept(q)'
    <2>1. \A p : \A other : At(other, p)' <=> other = "lookup" /\ p = r
        BY <1>7, GotoThere DEF Reconcile
    <2>2. sent[r] = 1 /\ attempt[r].generation
        BY <1>7 DEF Reconcile, RequestKept
    <2> QED BY <1>7, <2>1, <2>2 DEF Reconcile, ledger, RequestKept
<1>8. ASSUME NEW r \in Requests, Lookup(r), NEW q \in Requests PROVE RequestKept(q)'
    <2>1. CASE call' = Idle
        BY <1>8, <2>1, UntouchedKept, IdleNowhere DEF Lookup, ledger, Untouched
    <2>2. CASE Goto("settle", r)
        <3>1. \A p : \A other : At(other, p)' <=> other = "settle" /\ p = r
            BY <2>2, GotoThere
        <3>2. sent[r] = 1 /\ attempt[r].generation
            BY <1>8 DEF Lookup, RequestKept
        <3> QED BY <1>8, <3>1, <3>2 DEF Lookup, ledger, RequestKept
    <2> QED BY <1>8, <2>1, <2>2 DEF Lookup
<1>9. ASSUME NEW r \in Requests, ReleaseUnsubmitted(r), NEW q \in Requests PROVE RequestKept(q)'
    <2>1. CASE q # r
        BY <1>9, <2>1, UntouchedKept, IdleNowhere
           DEF ReleaseUnsubmitted, Release, TypeOK, LedgerTypes, Untouched
    <2>2. CASE q = r
        <3>1. state[r] = "reserved" /\ state'[r] = "released"
            BY <1>9 DEF ReleaseUnsubmitted, Release, Releasable, TypeOK, LedgerTypes
        <3> QED BY <1>9, <2>2, <3>1
               DEF ReleaseUnsubmitted, Release, RequestKept, Ready, At, Idle
    <2> QED BY <2>1, <2>2
<1>10. ASSUME NEW b \in Scopes, NEW value \in Limits, SetBudget(b, value), NEW q \in Requests
       PROVE  RequestKept(q)'
    BY <1>10, UntouchedKept, IdleNowhere DEF SetBudget, SetLimit, Untouched
<1>11. ASSUME Recover, NEW q \in Requests PROVE RequestKept(q)'
    <2>1. \A place \in {"send", "record", "lookup", "settle"} : ~At(place, q)'
        BY <1>11 DEF Recover, CallPlaced, Idle, At
    <2>2. state'[q] = state[q] \/ (state[q] = "submitted" /\ state'[q] = "uncertain")
        BY <1>11 DEF Recover, RecoverSubmitted, Submitted
    <2> QED BY <1>11, <2>1, <2>2 DEF Recover, RecoverSubmitted, RequestKept
<1>12. ASSUME CatalogFails \/ Boot \/ Serve \/ Crash \/ SetClock \/ UNCHANGED vars, NEW q \in Requests
       PROVE  RequestKept(q)'
    <2>1. Untouched(q)
        BY <1>12, IdleNowhere
           DEF CatalogFails, Boot, Serve, Crash, SetClock, vars, ledger, Untouched
    <2> QED BY <2>1, UntouchedKept
<1> QED BY <1>1, <1>2, <1>3, <1>4, <1>5, <1>6, <1>7, <1>8, <1>9, <1>10, <1>11, <1>12 DEF Next

-----------------------------------------------------------------------------
(***************************************************************************)
(* Retries.                                                                *)
(***************************************************************************)

\* No step but an admission makes a request appear; none makes one disappear
\* or rewrites a recorded outcome.
LEMMA NextAppears ==
    ASSUME DispatchInvariant, [Next]_vars
    PROVE  /\ \A q \in Requests : attempt[q].outcome # "none" => attempt'[q] = attempt[q]
           /\ \/ \A q \in Requests : state'[q] = "absent" <=> state[q] = "absent"
              \/ \E r \in Requests : Admit(r)
<1> USE DEF DispatchInvariant, TypeOK, LedgerTypes
<1>1. \A q \in Requests : attempt[q].outcome # "none" => attempt'[q] = attempt[q]
    <2>1. ASSUME NEW r \in Requests, RecordOutcome(r)
          PROVE  \A q \in Requests : attempt[q].outcome # "none" => attempt'[q] = attempt[q]
        BY <2>1 DEF RecordOutcome
    <2>2. (\E r \in Requests : RecordOutcome(r)) \/ attempt' = attempt
        BY DEF Next, Admit, Submit, Send, KeepLiability, SettleReported, Reconcile, Lookup,
               ReleaseUnsubmitted, SetBudget, CatalogFails, Boot, Recover, Serve, Crash, SetClock, vars
    <2> QED BY <2>1, <2>2
<1>2. CASE \E r \in Requests : Admit(r)
    BY <1>1, <1>2
<1>3. CASE ~\E r \in Requests : Admit(r)
    <2>1. ASSUME NEW r \in Requests, NEW q \in Requests,
                 Submit(r) \/ KeepLiability(r) \/ SettleReported(r) \/ ReleaseUnsubmitted(r)
          PROVE  state'[q] = "absent" <=> state[q] = "absent"
        BY <2>1 DEF Submit, KeepLiability, SettleReported, ReleaseUnsubmitted, MarkSubmitted,
                    MarkUncertain, Settle, Release, Releasable
    <2>2. ASSUME Recover, NEW q \in Requests
          PROVE  state'[q] = "absent" <=> state[q] = "absent"
        BY <2>2 DEF Recover, RecoverSubmitted, Submitted
    <2>3. \/ state' = state
          \/ Recover
          \/ \E r \in Requests : \/ Submit(r) \/ KeepLiability(r) \/ SettleReported(r)
                                 \/ ReleaseUnsubmitted(r)
        BY <1>3 DEF Next, Send, RecordOutcome, Reconcile, Lookup, SetBudget, SetLimit,
                    CatalogFails, Boot, Serve, Crash, SetClock, vars, ledger
    <2> QED BY <1>1, <2>1, <2>2, <2>3
<1> QED BY <1>2, <1>3

LEMMA NextRetry == DispatchInvariant /\ [Next]_vars => RetryKept'
<1> SUFFICES ASSUME DispatchInvariant, [Next]_vars,
                    NEW r \in Requests, RetryOf[r] # NoRequest, state'[r] # "absent"
             PROVE  /\ attempt'[RetryOf[r]].outcome = "retry_after"
                    /\ \A q \in Requests : state'[q] # "absent" /\ q # r =>
                         RetryOf[q] \notin {r, RetryOf[r]}
    BY DEF RetryKept
<1> USE DEF DispatchInvariant
<1>1. RetryOf[r] \in Requests
    BY DispatchAssumption DEF DispatchAssumption
<1>2. CASE \A q \in Requests : state'[q] = "absent" <=> state[q] = "absent"
    BY <1>1, <1>2, NextAppears DEF RetryKept
<1>3. ASSUME NEW n \in Requests, Admit(n)
      PROVE  /\ attempt'[RetryOf[r]].outcome = "retry_after"
             /\ \A q \in Requests : state'[q] # "absent" /\ q # r =>
                  RetryOf[q] \notin {r, RetryOf[r]}
    <2>1. state[n] = "absent" /\ attempt' = attempt
          /\ \A q \in Requests \ {n} : state'[q] = state[q]
        BY <1>3 DEF Admit, Reserve, TypeOK, LedgerTypes
    <2>2. RetryOf[n] = NoRequest \/
            /\ RetryOf[RetryOf[n]] = NoRequest
            /\ \A q \in Requests \ {n} : RetryOf[q] = RetryOf[n] => state[q] = "absent"
            /\ attempt[RetryOf[n]].outcome = "retry_after"
        BY <1>3 DEF Admit, Retryable
    <2>3. \A q \in Requests : RetryOf[q] # NoRequest /\ state[q] # "absent" => RetryOf[q] # n
        <3> SUFFICES ASSUME NEW q \in Requests, RetryOf[q] = n, state[q] # "absent" PROVE FALSE
            BY DispatchAssumption DEF DispatchAssumption
        <3>1. attempt[n].outcome = "retry_after"
            BY DispatchAssumption DEF RetryKept, DispatchAssumption
        <3> QED BY <2>1, <3>1 DEF RequestKept
    <2>4. CASE r = n
        <3>1. attempt[RetryOf[r]].outcome = "retry_after"
            BY <2>2, <2>4
        <3>2. ASSUME NEW q \in Requests, state'[q] # "absent", q # r
              PROVE  RetryOf[q] \notin {r, RetryOf[r]}
            BY <2>1, <2>2, <2>3, <2>4, <3>2, DispatchAssumption DEF DispatchAssumption
        <3> QED BY <2>1, <3>1, <3>2
    <2>5. CASE r # n
        <3>1. state[r] # "absent"
            BY <2>1, <2>5
        <3>2. attempt[RetryOf[r]].outcome = "retry_after"
            BY <3>1 DEF RetryKept
        <3>3. ASSUME NEW q \in Requests, state'[q] # "absent", q # r
              PROVE  RetryOf[q] \notin {r, RetryOf[r]}
            <4>1. CASE q # n
                BY <2>1, <3>1, <3>3, <4>1 DEF RetryKept
            <4>2. CASE q = n
                BY <1>1, <2>2, <2>5, <3>1, <4>2, DispatchAssumption DEF DispatchAssumption
            <4> QED BY <4>1, <4>2
        <3> QED BY <2>1, <3>2, <3>3
    <2> QED BY <2>4, <2>5
<1> QED BY <1>2, <1>3, NextAppears

-----------------------------------------------------------------------------
(***************************************************************************)
(* Freezes.                                                                *)
(***************************************************************************)

\* What FrozenByBreach reads of the requests.
SameCharges ==
    /\ actual' = actual
    /\ \A r \in Requests : state'[r] = "settled" <=> state[r] = "settled"

\* A step that settles nothing keeps FrozenByBreach if it leaves every scope
\* that is not frozen inside its limit.
LEMMA FrozenKept ==
    ASSUME FrozenByBreach, SameCharges, frozen' = frozen,
           \A b \in Scopes : ~frozen[b] => Committed(b)' <= limit'[b]
    PROVE  FrozenByBreach'
BY DEF FrozenByBreach, SameCharges, BudgetsOf

LEMMA SettleFrozen ==
    ASSUME LedgerTypes, FrozenByBreach, NEW r \in Requests, NEW c \in Nat, Settle(r, c)
    PROVE  FrozenByBreach'
<1> SUFFICES ASSUME NEW b \in Scopes
             PROVE  /\ frozen'[b] <=> \E q \in Requests : /\ b \in BudgetsOf(q) /\ state'[q] = "settled"
                                                          /\ actual'[q] > Maximum[q]
                    /\ ~frozen'[b] => Committed(b)' <= limit'[b]
    BY DEF FrozenByBreach, BudgetsOf
<1>1. Maximum[r] \in Nat /\ limit' = limit /\ limit[b] \in Nat /\ settled[b] \in Nat /\ reserved[b] \in Nat
    BY LedgerAssumption DEF LedgerAssumption, LedgerTypes, Settle
<1>2. /\ state[r] # "settled" /\ state'[r] = "settled" /\ actual'[r] = c
      /\ \A q \in Requests \ {r} : state'[q] = state[q] /\ actual'[q] = actual[q]
    BY DEF Settle, LedgerTypes
<1>3. CASE b \notin BudgetsOf(r)
    <2>1. reserved'[b] = reserved[b] /\ settled'[b] = settled[b] /\ frozen'[b] = frozen[b]
        BY <1>3 DEF Settle, SettleScopes, ReleaseScopes, LedgerTypes
    <2> QED BY <1>1, <1>2, <1>3, <2>1 DEF FrozenByBreach, Committed
<1>4. CASE b \in BudgetsOf(r)
    <2>1. /\ reserved'[b] = reserved[b] - Maximum[r] /\ settled'[b] = settled[b] + c
          /\ Maximum[r] <= reserved[b] /\ (frozen[b] \/ settled[b] + reserved[b] <= limit[b])
        BY <1>4 DEF Settle, SettleScopes, ReleaseScopes, Readable, Committed
    <2>2. frozen'[b] <=> frozen[b] \/ c > Maximum[r] \/ settled'[b] + reserved'[b] > limit[b]
        BY <1>4 DEF Settle, Breaches
    <2>3. frozen'[b] <=> frozen[b] \/ c > Maximum[r]
        BY <1>1, <2>1, <2>2
    <2>4. ~frozen'[b] => Committed(b)' <= limit'[b]
        BY <1>1, <2>1, <2>2 DEF Committed
    <2>5. frozen[b] <=> \E q \in Requests \ {r} : /\ b \in BudgetsOf(q) /\ state[q] = "settled"
                                                 /\ actual[q] > Maximum[q]
        BY <1>2 DEF FrozenByBreach
    <2> QED BY <1>2, <1>4, <2>3, <2>4, <2>5
<1> QED BY <1>3, <1>4

LEMMA NextFrozen == DispatchInvariant /\ [Next]_vars => FrozenByBreach'
<1> SUFFICES ASSUME DispatchInvariant, [Next]_vars PROVE FrozenByBreach'
    OBVIOUS
<1> USE DEF DispatchInvariant, TypeOK
<1>1. ASSUME NEW r \in Requests, Admit(r) PROVE FrozenByBreach'
    <2>1. SameCharges
        BY <1>1 DEF Admit, Reserve, SameCharges, LedgerTypes
    <2>2. ASSUME NEW b \in Scopes, ~frozen[b] PROVE Committed(b)' <= limit'[b]
        <3>1. /\ limit' = limit /\ settled' = settled /\ Maximum[r] \in Nat
              /\ limit[b] \in Nat /\ settled[b] \in Nat /\ reserved[b] \in Nat
            BY <1>1, LedgerAssumption DEF Admit, Reserve, LedgerTypes, LedgerAssumption
        <3>2. CASE b \in BudgetsOf(r)
            <4>1. reserved'[b] = reserved[b] + Maximum[r]
                BY <1>1, <3>2 DEF Admit, Reserve
            <4>2. Committed(b) <= limit[b] /\ Maximum[r] <= limit[b] - Committed(b)
                BY <1>1, <2>2, <3>2 DEF Admit, Reserve, Admits, Readable, Available
            <4> QED BY <3>1, <4>1, <4>2 DEF Committed
        <3>3. CASE b \notin BudgetsOf(r)
            <4>1. reserved'[b] = reserved[b]
                BY <1>1, <3>3 DEF Admit, Reserve
            <4> QED BY <2>2, <3>1, <4>1 DEF Committed, FrozenByBreach
        <3> QED BY <3>2, <3>3
    <2> QED BY <1>1, <2>1, <2>2, FrozenKept DEF Admit, Reserve
<1>2. ASSUME NEW r \in Requests, ReleaseUnsubmitted(r) PROVE FrozenByBreach'
    <2>1. SameCharges
        BY <1>2 DEF ReleaseUnsubmitted, Release, Releasable, SameCharges, LedgerTypes
    <2>2. ASSUME NEW b \in Scopes, ~frozen[b] PROVE Committed(b)' <= limit'[b]
        <3>1. /\ limit' = limit /\ settled' = settled /\ Maximum[r] \in Nat
              /\ limit[b] \in Nat /\ settled[b] \in Nat /\ reserved[b] \in Nat
            BY <1>2, LedgerAssumption DEF ReleaseUnsubmitted, Release, LedgerTypes, LedgerAssumption
        <3>2. /\ reserved'[b] \in {reserved[b], reserved[b] - Maximum[r]}
            BY <1>2 DEF ReleaseUnsubmitted, Release, ReleaseScopes
        <3>3. Committed(b) <= limit[b]
            BY <2>2 DEF FrozenByBreach
        <3> QED BY <3>1, <3>2, <3>3 DEF Committed
    <2> QED BY <1>2, <2>1, <2>2, FrozenKept DEF ReleaseUnsubmitted, Release
<1>3. ASSUME NEW r \in Requests, SettleReported(r) PROVE FrozenByBreach'
    BY <1>3, SettleFrozen DEF SettleReported
<1>4. ASSUME NEW b \in Scopes, NEW value \in Limits, SetBudget(b, value) PROVE FrozenByBreach'
    <2>1. SameCharges
        BY <1>4 DEF SetBudget, SetLimit, SameCharges
    <2>2. ASSUME NEW c \in Scopes, ~frozen[c] PROVE Committed(c)' <= limit'[c]
        <3>1. Committed(c)' = Committed(c) /\ Committed(c) <= limit[c]
            BY <1>4, <2>2 DEF SetBudget, SetLimit, Committed, FrozenByBreach
        <3>2. CASE c = b /\ b \in known
            BY <1>4, <3>1, <3>2 DEF SetBudget, SetLimit, LedgerTypes
        <3>3. CASE c # b
            BY <1>4, <3>1, <3>3 DEF SetBudget, SetLimit, LedgerTypes
        <3>4. CASE b \notin known
            <4>1. b = c => Committed(c) = 0
                BY <3>4 DEF UnknownEmpty, Committed
            <4>2. value \in Nat
                BY LedgerAssumption DEF LedgerAssumption
            <4> QED BY <1>4, <3>1, <4>1, <4>2 DEF SetBudget, SetLimit, LedgerTypes
        <3> QED BY <3>2, <3>3, <3>4
    <2> QED BY <1>4, <2>1, <2>2, FrozenKept DEF SetBudget, SetLimit
<1>5. CASE \/ \E r \in Requests : Submit(r) \/ KeepLiability(r)
           \/ Recover
    <2>1. /\ frozen' = frozen /\ limit' = limit /\ settled' = settled /\ reserved' = reserved
          /\ SameCharges
        BY <1>5 DEF Submit, KeepLiability, Recover, MarkSubmitted, MarkUncertain, RecoverSubmitted,
                    Submitted, balances, SameCharges, LedgerTypes
    <2> QED BY <2>1, FrozenKept DEF FrozenByBreach, Committed
<1>6. CASE UNCHANGED ledger
    BY <1>6, FrozenKept DEF ledger, FrozenByBreach, Committed, SameCharges
<1> QED BY <1>1, <1>2, <1>3, <1>4, <1>5, <1>6
        DEF Next, Send, RecordOutcome, Reconcile, Lookup, CatalogFails, Boot, Serve, Crash,
            SetClock, vars

LEMMA NextUnknown == DispatchInvariant /\ [Next]_vars => UnknownEmpty'
<1> SUFFICES ASSUME DispatchInvariant, [Next]_vars PROVE UnknownEmpty'
    OBVIOUS
<1> USE DEF DispatchInvariant, TypeOK
<1>1. ASSUME NEW r \in Requests, Admit(r) \/ ReleaseUnsubmitted(r) \/ SettleReported(r),
             NEW b \in Scopes \ known
      PROVE  settled'[b] = settled[b] /\ reserved'[b] = reserved[b]
    <2>1. b \notin BudgetsOf(r)
        BY <1>1 DEF Admit, Reserve, Admits, ReleaseUnsubmitted, Release, SettleReported, Settle, Readable
    <2> QED BY <1>1, <2>1 DEF Admit, Reserve, ReleaseUnsubmitted, Release, SettleReported, Settle,
                              SettleScopes, ReleaseScopes
<1>2. \/ known \subseteq known' /\ settled' = settled /\ reserved' = reserved
      \/ \E r \in Requests : Admit(r) \/ ReleaseUnsubmitted(r) \/ SettleReported(r)
    BY DEF Next, Submit, KeepLiability, MarkSubmitted, MarkUncertain, Recover, RecoverSubmitted,
           balances, Send, RecordOutcome, Reconcile, Lookup, SetBudget, SetLimit, CatalogFails,
           Boot, Serve, Crash, SetClock, vars, ledger
<1>3. ASSUME NEW r \in Requests, Admit(r) \/ ReleaseUnsubmitted(r) \/ SettleReported(r)
      PROVE  known' = known
    BY <1>3 DEF Admit, Reserve, ReleaseUnsubmitted, Release, SettleReported, Settle
<1> QED BY <1>1, <1>2, <1>3 DEF UnknownEmpty

LEMMA NextPlaced == DispatchInvariant /\ [Next]_vars => CallPlaced'
<1> SUFFICES ASSUME DispatchInvariant, [Next]_vars PROVE CallPlaced'
    OBVIOUS
<1>1. ASSUME NEW r \in Requests,
             \/ Send(r) \/ RecordOutcome(r) \/ KeepLiability(r) \/ Lookup(r)
             \/ Submit(r) \/ Reconcile(r)
      PROVE  phase' = "serving"
    <2>1. call # Idle \/ Ready
        BY <1>1 DEF Send, RecordOutcome, KeepLiability, Lookup, Submit, Reconcile, At, Idle
    <2> QED BY <1>1, <2>1 DEF DispatchInvariant, CallPlaced, Ready, Send, RecordOutcome,
                              KeepLiability, Lookup, Submit, Reconcile
<1>2. ASSUME NEW r \in Requests, Admit(r) \/ ReleaseUnsubmitted(r)
      PROVE  phase' = "serving"
    BY <1>2 DEF Admit, ReleaseUnsubmitted, Ready
<1>3. ASSUME \/ \E r \in Requests : SettleReported(r)
             \/ \E b \in Scopes, value \in Limits : SetBudget(b, value)
             \/ CatalogFails \/ Boot \/ Recover \/ Serve \/ Crash \/ SetClock \/ UNCHANGED vars
      PROVE  call' = Idle \/ phase' = "serving" \/ (call' = call /\ (phase # "serving" \/ phase' = phase))
    BY <1>3 DEF SettleReported, SetBudget, CatalogFails, Boot, Recover, Serve, Crash, SetClock, vars
<1>4. \/ \E r \in Requests : \/ Send(r) \/ RecordOutcome(r) \/ KeepLiability(r) \/ Lookup(r)
                              \/ Submit(r) \/ Reconcile(r) \/ Admit(r) \/ ReleaseUnsubmitted(r)
      \/ \E r \in Requests : SettleReported(r)
      \/ \E b \in Scopes, value \in Limits : SetBudget(b, value)
      \/ CatalogFails \/ Boot \/ Recover \/ Serve \/ Crash \/ SetClock \/ UNCHANGED vars
    BY DEF Next
<1>5. CASE phase' = "serving"
    BY <1>5 DEF CallPlaced
<1>6. CASE call' = Idle
    BY <1>6 DEF CallPlaced, Idle
<1>7. CASE call' = call /\ (phase # "serving" \/ phase' = phase)
    BY <1>7 DEF DispatchInvariant, CallPlaced, Idle
<1> QED BY <1>1, <1>2, <1>3, <1>4, <1>5, <1>6, <1>7

-----------------------------------------------------------------------------

\* DispatchInvariant holds in every reachable state.
THEOREM DispatchAlways == Spec => []DispatchInvariant
<1>1. DispatchInvariant /\ [Next]_vars => DispatchInvariant'
    BY NextTypes, NextKept, NextPlaced, NextRetry, NextUnknown, NextFrozen DEF DispatchInvariant
<1> QED BY <1>1, InitDispatch, PTL DEF Spec

\* No request reaches the transport twice, and one that did is never free
\* again (submit, mark_submitted, release_unsubmitted).
THEOREM RequestsSentOnce == Spec => []SentOnce
BY DispatchAlways, DispatchInvariantImplies, PTL

\* A settled charge is the provider's, on the evidence of a generation ID
\* (record, reconcile).
THEOREM ChargesAreProven == Spec => []ChargesProven
BY DispatchAlways, DispatchInvariantImplies, PTL

\* An attempt that was retried never settles, and is retried once
\* (check_retry).
THEOREM RetriesExclusive == Spec => []RetriedNeverSettles
BY DispatchAlways, DispatchInvariantImplies, PTL

\* A scope is frozen exactly by a breach, and otherwise inside its limit
\* (Balance::reserve, settle, release and with_limit).
THEOREM LimitsHold == Spec => []FrozenByBreach
BY DispatchAlways, DispatchInvariantImplies, PTL
-----------------------------------------------------------------------------
(***************************************************************************)
(* The books: the totals of a scope are those of its requests.             *)
(***************************************************************************)

\* The requests that stand in a scope's books.
OpenOf(b) == {r \in Requests : b \in BudgetsOf(r) /\ state[r] \in Open}
SettledOf(b) == {r \in Requests : b \in BudgetsOf(r) /\ state[r] = "settled"}

ScopeBalances(b) == /\ reserved[b] = Total(Maximum, OpenOf(b))
                    /\ settled[b] = Total(actual, SettledOf(b))

ScopesBalance == \A b \in Scopes : ScopeBalances(b)

LEMMA BooksAreScopes == BooksBalance <=> ScopesBalance
<1>1. ASSUME NEW b \in Scopes
      PROVE  /\ OpenOf(b) = {r \in {q \in Requests : b \in BudgetsOf(q)} : state[r] \in Open}
             /\ SettledOf(b) = {r \in {q \in Requests : b \in BudgetsOf(q)} : state[r] = "settled"}
    BY DEF OpenOf, SettledOf
<1> QED BY <1>1, Zenon DEF BooksBalance, ScopesBalance, ScopeBalances

LEMMA BooksFinite ==
    ASSUME LedgerTypes, NEW b
    PROVE  /\ IsFiniteSet(OpenOf(b)) /\ IsFiniteSet(SettledOf(b))
           /\ \A r \in OpenOf(b) : Maximum[r] \in Nat
           /\ \A r \in SettledOf(b) : actual[r] \in Nat
<1>1. OpenOf(b) \in SUBSET Requests /\ SettledOf(b) \in SUBSET Requests
    BY DEF OpenOf, SettledOf
<1> QED BY <1>1, RequestsFinite, FS_Subset, LedgerAssumption DEF LedgerAssumption, LedgerTypes

\* The settled charges of others do not change, so neither does their total.
LEMMA SettledStay ==
    ASSUME LedgerTypes, NEW b, \A r \in SettledOf(b) : actual'[r] = actual[r]
    PROVE  Total(actual', SettledOf(b)) = Total(actual, SettledOf(b))
BY BooksFinite, TotalAgrees

\* A scope that a step leaves alone.
LEMMA ScopeStays ==
    ASSUME LedgerTypes, NEW b \in Scopes, ScopeBalances(b),
           OpenOf(b)' = OpenOf(b), SettledOf(b)' = SettledOf(b),
           reserved'[b] = reserved[b], settled'[b] = settled[b],
           \A r \in SettledOf(b) : actual'[r] = actual[r]
    PROVE  ScopeBalances(b)'
<1>1. Total(actual', SettledOf(b)) = Total(actual, SettledOf(b))
    BY SettledStay
<1>2. /\ Total(Maximum, OpenOf(b)') = Total(Maximum, OpenOf(b))
      /\ Total(actual', SettledOf(b)') = Total(actual', SettledOf(b))
    BY Zenon
<1> QED BY <1>1, <1>2 DEF ScopeBalances

LEMMA ReserveBalances ==
    ASSUME LedgerTypes, NEW r \in Requests, Reserve(r), NEW b \in Scopes, ScopeBalances(b)
    PROVE  ScopeBalances(b)'
<1>1. actual' = actual /\ settled' = settled
      /\ reserved'[b] = IF b \in BudgetsOf(r) THEN reserved[b] + Maximum[r] ELSE reserved[b]
    BY DEF Reserve, LedgerTypes
<1>2. state[r] = "absent" /\ \A q \in Requests : state'[q] = IF q = r THEN "reserved" ELSE state[q]
    BY DEF Reserve, LedgerTypes
<1>3. SettledOf(b)' = SettledOf(b)
    BY <1>2 DEF SettledOf, BudgetsOf
<1>4. CASE b \notin BudgetsOf(r)
    <2>1. OpenOf(b)' = OpenOf(b)
        BY <1>2, <1>4 DEF OpenOf, BudgetsOf
    <2> QED BY <1>1, <1>3, <1>4, <2>1, ScopeStays
<1>5. CASE b \in BudgetsOf(r)
    <2>1. r \in OpenOf(b)' /\ OpenOf(b)' \ {r} = OpenOf(b)
        BY <1>2, <1>5 DEF OpenOf, BudgetsOf, Open
    <2>2. IsFiniteSet(OpenOf(b)')
        <3>1. OpenOf(b)' \in SUBSET Requests
            BY DEF OpenOf
        <3> QED BY <3>1, RequestsFinite, FS_Subset
    <2>3. \A q \in OpenOf(b)' : Maximum[q] \in Nat
        BY LedgerAssumption DEF LedgerAssumption, OpenOf
    <2>4. Total(Maximum, OpenOf(b)') = Maximum[r] + Total(Maximum, OpenOf(b)' \ {r})
        BY <2>1, <2>2, <2>3, TotalRemoves
    <2>5. Total(Maximum, OpenOf(b)' \ {r}) = Total(Maximum, OpenOf(b))
        BY <2>1, Zenon
    <2>6. Total(actual', SettledOf(b)') = Total(actual, SettledOf(b))
        BY <1>1, <1>3, Zenon
    <2>7. Maximum[r] \in Nat /\ Total(Maximum, OpenOf(b)) \in Nat
        BY BooksFinite, TotalRemoves, LedgerAssumption DEF LedgerAssumption
    <2> QED BY <1>1, <1>5, <2>4, <2>5, <2>6, <2>7 DEF ScopeBalances
<1> QED BY <1>4, <1>5

\* Taking a request out of the open ones gives its maximum back.
LEMMA OpenLeaves ==
    ASSUME LedgerTypes, NEW r \in Requests, NEW b \in Scopes, b \in BudgetsOf(r),
           ScopeBalances(b), state[r] \in Open, OpenOf(b)' = OpenOf(b) \ {r},
           reserved'[b] = reserved[b] - Maximum[r]
    PROVE  reserved'[b] = Total(Maximum, OpenOf(b)')
<1>1. r \in OpenOf(b)
    BY DEF OpenOf
<1>2. /\ Total(Maximum, OpenOf(b)) = Maximum[r] + Total(Maximum, OpenOf(b) \ {r})
    BY <1>1, BooksFinite, TotalRemoves
<1>3. Maximum[r] \in Nat /\ Total(Maximum, OpenOf(b) \ {r}) \in Nat
    <2>1. IsFiniteSet(OpenOf(b) \ {r})
        BY BooksFinite, FS_RemoveElement
    <2> QED BY <2>1, BooksFinite, TotalRemoves, LedgerAssumption DEF LedgerAssumption
<1>4. Total(Maximum, OpenOf(b)') = Total(Maximum, OpenOf(b) \ {r})
    BY Zenon
<1> QED BY <1>2, <1>3, <1>4 DEF ScopeBalances

LEMMA ReleaseBalances ==
    ASSUME LedgerTypes, NEW r \in Requests, Release(r), NEW b \in Scopes, ScopeBalances(b)
    PROVE  ScopeBalances(b)'
<1>1. actual' = actual /\ settled' = settled
      /\ reserved'[b] = IF b \in BudgetsOf(r) THEN reserved[b] - Maximum[r] ELSE reserved[b]
    BY DEF Release, ReleaseScopes, LedgerTypes
<1>2. state[r] = "reserved" /\ \A q \in Requests : state'[q] = IF q = r THEN "released" ELSE state[q]
    BY DEF Release, Releasable, LedgerTypes
<1>3. SettledOf(b)' = SettledOf(b)
    BY <1>2 DEF SettledOf, BudgetsOf
<1>4. CASE b \notin BudgetsOf(r)
    <2>1. OpenOf(b)' = OpenOf(b)
        BY <1>2, <1>4 DEF OpenOf, BudgetsOf
    <2> QED BY <1>1, <1>3, <1>4, <2>1, ScopeStays
<1>5. CASE b \in BudgetsOf(r)
    <2>1. OpenOf(b)' = OpenOf(b) \ {r}
        BY <1>2 DEF OpenOf, BudgetsOf, Open
    <2>2. reserved'[b] = Total(Maximum, OpenOf(b)')
        BY <1>1, <1>2, <1>5, <2>1, OpenLeaves DEF Open
    <2>3. Total(actual', SettledOf(b)') = Total(actual, SettledOf(b))
        BY <1>1, <1>3, Zenon
    <2> QED BY <1>1, <2>2, <2>3 DEF ScopeBalances
<1> QED BY <1>4, <1>5

LEMMA SettleBalances ==
    ASSUME LedgerTypes, NEW r \in Requests, NEW c \in Nat, Settle(r, c), NEW b \in Scopes,
           ScopeBalances(b)
    PROVE  ScopeBalances(b)'
<1>1. /\ reserved'[b] = IF b \in BudgetsOf(r) THEN reserved[b] - Maximum[r] ELSE reserved[b]
      /\ settled'[b] = IF b \in BudgetsOf(r) THEN settled[b] + c ELSE settled[b]
    BY DEF Settle, SettleScopes, ReleaseScopes, LedgerTypes
<1>2. /\ state[r] \in {"submitted", "uncertain"}
      /\ \A q \in Requests : /\ state'[q] = IF q = r THEN "settled" ELSE state[q]
                             /\ actual'[q] = IF q = r THEN c ELSE actual[q]
    BY DEF Settle, LedgerTypes
<1>3. \A q \in SettledOf(b) : actual'[q] = actual[q]
    BY <1>2 DEF SettledOf
<1>4. CASE b \notin BudgetsOf(r)
    <2>1. OpenOf(b)' = OpenOf(b)
        BY <1>2, <1>4 DEF OpenOf, BudgetsOf
    <2>2. SettledOf(b)' = SettledOf(b)
        BY <1>2, <1>4 DEF SettledOf, BudgetsOf
    <2> QED BY <1>1, <1>3, <1>4, <2>1, <2>2, ScopeStays
<1>5. CASE b \in BudgetsOf(r)
    <2>1. OpenOf(b)' = OpenOf(b) \ {r}
        BY <1>2 DEF OpenOf, BudgetsOf, Open
    <2>2. reserved'[b] = Total(Maximum, OpenOf(b)')
        BY <1>1, <1>2, <1>5, <2>1, OpenLeaves DEF Open
    <2>3. r \in SettledOf(b)' /\ SettledOf(b)' \ {r} = SettledOf(b)
        BY <1>2, <1>5 DEF SettledOf, BudgetsOf
    <2>4. IsFiniteSet(SettledOf(b)') /\ \A q \in SettledOf(b)' : actual'[q] \in Nat
        <3>1. SettledOf(b)' \in SUBSET Requests
            BY DEF SettledOf
        <3> QED BY <1>2, <3>1, RequestsFinite, FS_Subset DEF LedgerTypes
    <2>5. Total(actual', SettledOf(b)') = actual'[r] + Total(actual', SettledOf(b)' \ {r})
        BY <2>3, <2>4, TotalRemoves
    <2>6. Total(actual', SettledOf(b)' \ {r}) = Total(actual', SettledOf(b))
        BY <2>3, Zenon
    <2>7. Total(actual', SettledOf(b)) = Total(actual, SettledOf(b))
        BY <1>3, SettledStay
    <2>8. actual'[r] = c /\ settled[b] \in Nat
        BY <1>2 DEF LedgerTypes
    <2>9. settled'[b] = Total(actual', SettledOf(b)')
        BY <1>1, <1>5, <2>5, <2>6, <2>7, <2>8 DEF ScopeBalances
    <2> QED BY <2>2, <2>9 DEF ScopeBalances
<1> QED BY <1>4, <1>5

\* A step that moves requests among the open states only.
LEMMA MarksBalance ==
    ASSUME LedgerTypes, NEW b \in Scopes, ScopeBalances(b),
           reserved' = reserved, settled' = settled, actual' = actual,
           \A q \in Requests : state'[q] = state[q] \/ {state[q], state'[q]} \subseteq Open
    PROVE  ScopeBalances(b)'
<1>1. OpenOf(b)' = OpenOf(b)
    BY DEF OpenOf, BudgetsOf
<1>2. SettledOf(b)' = SettledOf(b)
    BY DEF SettledOf, BudgetsOf, Open
<1> QED BY <1>1, <1>2, ScopeStays

LEMMA NextBalances == TypeOK /\ ScopesBalance /\ [Next]_vars => ScopesBalance'
<1> SUFFICES ASSUME TypeOK, [Next]_vars, NEW b \in Scopes, ScopeBalances(b)
             PROVE  ScopeBalances(b)'
    BY DEF ScopesBalance
<1>1. LedgerTypes
    BY DEF TypeOK
<1>2. ASSUME NEW r \in Requests, Admit(r) PROVE ScopeBalances(b)'
    BY <1>1, <1>2, ReserveBalances DEF Admit
<1>3. ASSUME NEW r \in Requests, ReleaseUnsubmitted(r) PROVE ScopeBalances(b)'
    BY <1>1, <1>3, ReleaseBalances DEF ReleaseUnsubmitted
<1>4. ASSUME NEW r \in Requests, SettleReported(r) PROVE ScopeBalances(b)'
    <2>1. charged[r] \in Nat
        BY DEF TypeOK
    <2> QED BY <1>1, <1>4, <2>1, SettleBalances DEF SettleReported
<1>5. ASSUME \/ \E r \in Requests : Submit(r) \/ KeepLiability(r)
             \/ Recover
      PROVE  ScopeBalances(b)'
    <2>1. reserved' = reserved /\ settled' = settled /\ actual' = actual
        BY <1>5 DEF Submit, KeepLiability, Recover, MarkSubmitted, MarkUncertain, RecoverSubmitted,
                    balances
    <2>2. \A q \in Requests : state'[q] = state[q] \/ {state[q], state'[q]} \subseteq Open
        BY <1>1, <1>5 DEF Submit, KeepLiability, Recover, MarkSubmitted, MarkUncertain,
                          RecoverSubmitted, Submitted, Open, LedgerTypes
    <2> QED BY <1>1, <2>1, <2>2, MarksBalance
<1>6. ASSUME reserved' = reserved, settled' = settled, actual' = actual, state' = state
      PROVE  ScopeBalances(b)'
    BY <1>1, <1>6, MarksBalance
<1> QED BY <1>2, <1>3, <1>4, <1>5, <1>6
        DEF Next, Send, RecordOutcome, Reconcile, Lookup, SetBudget, SetLimit, CatalogFails, Boot,
            Serve, Crash, SetClock, vars, ledger

LEMMA InitBalances == Init => ScopesBalance
<1> SUFFICES ASSUME Init, NEW b \in Scopes PROVE ScopeBalances(b)
    BY DEF ScopesBalance
<1>1. OpenOf(b) = {} /\ SettledOf(b) = {}
    BY DEF OpenOf, SettledOf, Init, LedgerInit, Open
<1>2. Total(Maximum, OpenOf(b)) = 0 /\ Total(actual, SettledOf(b)) = 0
    BY <1>1, TotalEmpty, Zenon
<1> QED BY <1>2 DEF ScopeBalances, Init, LedgerInit

\* The books of every budget are the totals of its requests, whatever was
\* retried, recovered or released (audit_ledger).
THEOREM LedgerBalances == Spec => []BooksBalance
BY InitBalances, NextBalances, DispatchTypes, BooksAreScopes, PTL DEF Spec

\* What the provider took is covered by what the scope has committed, while no
\* charge is over its maximum.
LEMMA CommittedCovers ==
    ASSUME DispatchInvariant, BooksBalance, NEW b \in Scopes,
           \A r \in Requests : b \in BudgetsOf(r) /\ sent[r] > 0 => charged[r] <= Maximum[r]
    PROVE  Total(charged, {r \in Requests : b \in BudgetsOf(r) /\ sent[r] > 0}) <= Committed(b)
<1> DEFINE mine == {r \in Requests : b \in BudgetsOf(r) /\ sent[r] > 0}
           open == {r \in OpenOf(b) : sent[r] > 0}
<1>1. LedgerTypes /\ ScopeBalances(b) /\ \A r \in Requests : RequestKept(r) /\ charged[r] \in Nat
                                                              /\ sent[r] \in Nat
    BY BooksAreScopes DEF ScopesBalance, DispatchInvariant, TypeOK
<1>2. mine = SettledOf(b) \union open /\ SettledOf(b) \cap open = {}
    BY <1>1 DEF SettledOf, OpenOf, Open, RequestKept
<1>3. /\ IsFiniteSet(SettledOf(b)) /\ IsFiniteSet(OpenOf(b)) /\ IsFiniteSet(open)
      /\ SettledOf(b) \subseteq Requests /\ OpenOf(b) \subseteq Requests
    <2>1. open \in SUBSET OpenOf(b)
        OBVIOUS
    <2> QED BY <1>1, <2>1, BooksFinite, FS_Subset DEF SettledOf, OpenOf
<1>4. Total(charged, SettledOf(b)) = settled[b]
    <2>1. \A r \in SettledOf(b) : charged[r] = actual[r]
        BY <1>1 DEF SettledOf, RequestKept
    <2> QED BY <1>1, <1>3, <2>1, TotalAgrees DEF ScopeBalances
<1>5. Total(charged, open) <= reserved[b]
    <2>1. \A r \in open : charged[r] <= Maximum[r]
        BY DEF OpenOf
    <2>2. \A r \in OpenOf(b) : charged[r] \in Nat /\ Maximum[r] \in Nat
        BY <1>1, <1>3, LedgerAssumption DEF LedgerAssumption
    <2>3. open \subseteq OpenOf(b)
        OBVIOUS
    <2>4. Total(charged, open) <= Total(Maximum, OpenOf(b))
        BY <1>3, <2>1, <2>2, <2>3, TotalGrows
    <2> QED BY <1>1, <2>4 DEF ScopeBalances
<1>6. Total(charged, SettledOf(b) \union open) = Total(charged, SettledOf(b)) + Total(charged, open)
    <2>1. \A r \in SettledOf(b) \union open : charged[r] \in Nat
        BY <1>1, <1>3
    <2> QED BY <1>2, <1>3, <2>1, TotalUnion
<1>7. Total(charged, open) \in Nat /\ settled[b] \in Nat /\ reserved[b] \in Nat
    <2>1. \A r \in open : charged[r] \in Nat
        BY <1>1, <1>3
    <2> QED BY <1>1, <1>3, <2>1, TotalRemoves DEF LedgerTypes
<1>8. Total(charged, mine) = Total(charged, SettledOf(b) \union open)
    BY <1>2, Zenon
<1> HIDE DEF open
<1> QED BY <1>4, <1>5, <1>6, <1>7, <1>8 DEF Committed

LEMMA CoveredImplied == DispatchInvariant /\ BooksBalance => SpendingCovered
<1> SUFFICES ASSUME DispatchInvariant, BooksBalance, NEW b \in Scopes,
                    \A r \in Requests : b \in BudgetsOf(r) /\ sent[r] > 0 => charged[r] <= Maximum[r]
             PROVE  Total(charged, {r \in Requests : b \in BudgetsOf(r) /\ sent[r] > 0}) <= limit[b]
    BY DEF SpendingCovered
<1>1. ~frozen[b]
    <2>1. ASSUME NEW r \in Requests, b \in BudgetsOf(r), state[r] = "settled"
          PROVE  ~(actual[r] > Maximum[r])
        <3>1. sent[r] = 1 /\ actual[r] = charged[r] /\ charged[r] \in Nat
            BY <2>1 DEF DispatchInvariant, RequestKept, TypeOK
        <3>2. charged[r] <= Maximum[r] /\ Maximum[r] \in Nat
            BY <2>1, <3>1, LedgerAssumption DEF LedgerAssumption
        <3> QED BY <3>1, <3>2
    <2> QED BY <2>1 DEF DispatchInvariant, FrozenByBreach
<1>2. Committed(b) <= limit[b] /\ Committed(b) \in Nat /\ limit[b] \in Nat
    BY <1>1 DEF DispatchInvariant, FrozenByBreach, TypeOK, LedgerTypes, Committed
<1> DEFINE spent == Total(charged, {r \in Requests : b \in BudgetsOf(r) /\ sent[r] > 0})
<1>3. spent <= Committed(b) /\ spent \in Nat
    <2> DEFINE mine == {r \in Requests : b \in BudgetsOf(r) /\ sent[r] > 0}
    <2>1. mine \in SUBSET Requests
        OBVIOUS
    <2>2. IsFiniteSet(mine) /\ \A r \in mine : charged[r] \in Nat
        BY <2>1, RequestsFinite, FS_Subset DEF DispatchInvariant, TypeOK
    <2>3. Total(charged, mine) \in Nat
        BY <2>2, TotalRemoves
    <2> QED BY <2>3, CommittedCovers
<1> HIDE DEF spent
<1>4. spent <= limit[b]
    BY <1>2, <1>3
<1> QED BY <1>4 DEF spent

\* While a provider keeps to the maxima, everything it charged a scope is
\* inside the limit, the charges the ledger does not know yet too (docs 0040).
THEOREM SpendingIsCovered == Spec => []SpendingCovered
BY DispatchAlways, LedgerBalances, CoveredImplied, PTL
=============================================================================
