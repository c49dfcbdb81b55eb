-------------------------------- MODULE Ledger --------------------------------
(***************************************************************************)
(* The paid request ledger (storage/ledger.rs over sigy-core's budget.rs): *)
(* lifetime budgets and the requests that are accounted against them.  A   *)
(* request reserves its maximum in the global scope and in its own ones    *)
(* before it may be sent, and keeps that reservation until its charge is   *)
(* known.                                                                  *)
(*                                                                         *)
(* Each operation is one immediate SQLite transaction.  It is a predicate  *)
(* on the ledger's variables alone; PaidDispatch makes actions of them.    *)
(***************************************************************************)
EXTENDS Naturals, FiniteSets, Totals

CONSTANTS
    Scopes,      \* budget IDs
    Global,      \* the budget every admission includes
    Requests,    \* request IDs
    Maximum,     \* Requests -> worst-case liability
    ScopesOf,    \* Requests -> additional budgets
    Limits,      \* limits a client may set
    RecoverBatch \* requests one recovery transaction takes (256)

ASSUME LedgerAssumption ==
    /\ Global \in Scopes
    /\ Maximum \in [Requests -> Nat]
    /\ ScopesOf \in [Requests -> SUBSET Scopes]
    /\ Limits \subseteq Nat
    /\ RecoverBatch \in Nat \ {0}

\* A catalog has finitely many rows.
ASSUME RequestsFinite == IsFiniteSet(Requests)

VARIABLES
    known,    \* budgets with a row
    limit,    \* [Scopes -> Nat]
    settled,  \* charges accounted for
    reserved, \* liabilities still open
    frozen,   \* admission stopped by a breach
    state,    \* [Requests -> States]
    actual    \* the settled charge of each request

balances == <<known, limit, settled, reserved, frozen>>
ledger == <<known, limit, settled, reserved, frozen, state, actual>>

Open == {"reserved", "submitted", "uncertain"}
States == {"absent", "settled", "released"} \union Open

LedgerTypes ==
    /\ Global \in known /\ known \subseteq Scopes
    /\ {limit, settled, reserved} \subseteq [Scopes -> Nat]
    /\ frozen \in [Scopes -> BOOLEAN]
    /\ state \in [Requests -> States]
    /\ actual \in [Requests -> Nat]

\* Only the global budget exists, and its limit is zero.
LedgerInit ==
    /\ known = {Global}
    /\ limit = [b \in Scopes |-> 0]
    /\ settled = [b \in Scopes |-> 0]
    /\ reserved = [b \in Scopes |-> 0]
    /\ frozen = [b \in Scopes |-> FALSE]
    /\ state = [r \in Requests |-> "absent"]
    /\ actual = [r \in Requests |-> 0]

BudgetsOf(r) == {Global} \union ScopesOf[r]

Committed(b) == settled[b] + reserved[b]

\* Balance::restore refuses an overcommitted row that is not frozen.
Readable(b) == b \in known /\ (frozen[b] \/ Committed(b) <= limit[b])

Available(b) == IF Committed(b) <= limit[b] THEN limit[b] - Committed(b) ELSE 0

-----------------------------------------------------------------------------

\* A frozen, disabled or exhausted scope, or an amount of zero, refuses.
Admits(b, amount) ==
    /\ Readable(b) /\ ~frozen[b]
    /\ limit[b] # 0 /\ amount # 0 /\ amount <= Available(b)

\* reserve_in: every scope, or none.
Reserve(r) ==
    /\ state[r] = "absent"
    /\ \A b \in BudgetsOf(r) : Admits(b, Maximum[r])
    /\ reserved' = [b \in Scopes |-> IF b \in BudgetsOf(r) THEN reserved[b] + Maximum[r]
                                                           ELSE reserved[b]]
    /\ state' = [state EXCEPT ![r] = "reserved"]
    /\ UNCHANGED <<known, limit, settled, frozen, actual>>

\* Mutant: an unchanged transition counts as applied.
MarkSubmittedAgain(r) ==
    /\ state[r] \in {"reserved", "submitted"}
    /\ state' = [state EXCEPT ![r] = "submitted"]
    /\ UNCHANGED <<balances, actual>>

\* Change::Applied: the only permission to send.
MarkSubmitted(r) ==
    /\ state[r] = "reserved"
    /\ state' = [state EXCEPT ![r] = "submitted"]
    /\ UNCHANGED <<balances, actual>>

MarkUncertain(r) ==
    /\ state[r] = "submitted"
    /\ state' = [state EXCEPT ![r] = "uncertain"]
    /\ UNCHANGED <<balances, actual>>

\* Mutant: a request that was submitted without an answer is released too.
ReleasableUnanswered(r) == state[r] \in {"reserved", "submitted"}

\* Only a request that was never submitted is made free.
Releasable(r) == state[r] = "reserved"

\* Mutant: only the global scope gives its reservation back.
ReleaseGlobal(r) == [b \in Scopes |-> IF b = Global THEN reserved[b] - Maximum[r] ELSE reserved[b]]

\* Balance::release over the scopes of the request.
ReleaseScopes(r) ==
    [b \in Scopes |-> IF b \in BudgetsOf(r) THEN reserved[b] - Maximum[r] ELSE reserved[b]]

Release(r) ==
    /\ Releasable(r)
    /\ \A b \in BudgetsOf(r) : Readable(b) /\ Maximum[r] <= reserved[b]
    /\ reserved' = ReleaseScopes(r)
    /\ state' = [state EXCEPT ![r] = "released"]
    /\ UNCHANGED <<known, limit, settled, frozen, actual>>

\* Mutant: the reservation that goes is what was charged, not what was reserved.
SettleCharge(r, charge) ==
    /\ reserved' = [b \in Scopes |-> IF b \in BudgetsOf(r) THEN reserved[b] - charge ELSE reserved[b]]
    /\ settled' = [b \in Scopes |-> IF b \in BudgetsOf(r) THEN settled[b] + charge ELSE settled[b]]

\* The reservation goes, the charge stays.
SettleScopes(r, charge) ==
    /\ reserved' = ReleaseScopes(r)
    /\ settled' = [b \in Scopes |-> IF b \in BudgetsOf(r) THEN settled[b] + charge ELSE settled[b]]

\* Mutant: a charge over its maximum is no breach while it fits the limit.
BreachesLimit(r, charge, b) == settled'[b] + reserved'[b] > limit[b]

\* Balance::settle: a charge over its maximum, or over the limit, freezes.
Breaches(r, charge, b) == charge > Maximum[r] \/ settled'[b] + reserved'[b] > limit[b]

\* settle: exactly once, of a request that may have been sent.
Settle(r, charge) ==
    /\ state[r] \in {"submitted", "uncertain"}
    /\ \A b \in BudgetsOf(r) : Readable(b) /\ Maximum[r] <= reserved[b]
    /\ SettleScopes(r, charge)
    /\ frozen' = [b \in Scopes |-> frozen[b] \/ (b \in BudgetsOf(r) /\ Breaches(r, charge, b))]
    /\ state' = [state EXCEPT ![r] = "settled"]
    /\ actual' = [actual EXCEPT ![r] = charge]
    /\ UNCHANGED <<known, limit>>

\* set_budget_limit: a new budget, or a limit that covers what is committed.
\* A freeze stays.
SetLimit(b, value) ==
    /\ b \in known => Readable(b) /\ Committed(b) <= value
    /\ known' = known \union {b}
    /\ limit' = [limit EXCEPT ![b] = value]
    /\ UNCHANGED <<settled, reserved, frozen, state, actual>>

\* recover_submitted: one batch of the requests a dead process may have sent.
Submitted == {r \in Requests : state[r] = "submitted"}
RecoverSubmitted ==
    \E batch \in SUBSET Submitted :
        /\ batch = Submitted \/ Cardinality(batch) = RecoverBatch
        /\ Cardinality(batch) \in 1 .. RecoverBatch
        /\ state' = [r \in Requests |-> IF r \in batch THEN "uncertain" ELSE state[r]]
        /\ UNCHANGED <<balances, actual>>

-----------------------------------------------------------------------------

\* The totals of every budget are those of its requests: audit_ledger finds
\* nothing, whatever was retried, recovered or released.
BooksBalance ==
    \A b \in Scopes :
        LET mine == {r \in Requests : b \in BudgetsOf(r)}
        IN  /\ reserved[b] = Total(Maximum, {r \in mine : state[r] \in Open})
            /\ settled[b] = Total(actual, {r \in mine : state[r] = "settled"})

\* A scope is frozen exactly when one of its requests was charged more than it
\* reserved: no other step, and no change of a limit, breaks the bound or mends
\* it (Balance::settle, Balance::with_limit).
FrozenByBreach ==
    \A b \in Scopes :
        /\ frozen[b] <=> \E r \in Requests : /\ b \in BudgetsOf(r) /\ state[r] = "settled"
                                             /\ actual[r] > Maximum[r]
        /\ ~frozen[b] => Committed(b) <= limit[b]
=============================================================================
