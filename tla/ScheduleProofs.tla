--------------------------- MODULE ScheduleProofs ---------------------------
(***************************************************************************)
(* Proofs about schedules: types, the audits of the monitor's ledger and   *)
(* of the collections of tasks, the finality of refusals by a cap, and     *)
(* that passes over unrevised rules succeed, for every value of the        *)
(* constants of Schedules.                                                 *)
(*                                                                         *)
(* A pass carries what it has written, so the invariant is a predicate of  *)
(* what a pass carries: Kept holds of the tables before a pass, each turn  *)
(* of a rule keeps it, and a fold of turns keeps what every turn keeps.    *)
(***************************************************************************)
EXTENDS Schedules, TotalProofs, SequenceTheorems

(***************************************************************************)
(* The tables.                                                             *)
(***************************************************************************)
RuleRow == [state : {"rule"}, clock : Clocks, revision : Nat, version : Nat]
Row == [state : {"waiting", "missed", "admitted"}, hour : Nat, length : Nat \ {0},
        bytes : Nat, revision : Nat]
Entry == [rule : Rules, date : Dates, at : Nat, hour : Nat, length : Nat \ {0}, bytes : Nat,
          revision : Nat, version : Nat, action : Nat]
ByCap == {"total-cap", "byte-cap", "daily-cap"}
Whys == ByCap \union {"capture-disabled", "source-not-followed"}
Refusal == [rule : Rules, date : Dates, revision : Nat, version : Nat, why : Whys]
TaskRow ==
    {[state |-> "none"]} \union [state : {"created"}, version : Nat, actions : Nat]
    \union [state : {"granted", "cancelled"}, version : Nat, actions : Nat, granted : Nat,
            ended : Nat, mask : SUBSET Rules]

AllRules == [Rules -> {NoRow} \union RuleRow]
AllRows == [Rules -> [Dates -> {NoRow} \union Row]]

\* The monitor, the tasks, the clients' recordings and the service, which no
\* pass changes.
Scope ==
    /\ policy \in Seq(Policies \union {FirstPolicy}) /\ Version \in 1 .. MaxVersions
    /\ actions \in 0 .. MaxActions
    /\ followed \subseteq UNION {p.sources \union p.candidates : p \in Policies \union {FirstPolicy}}
    /\ task \in [Tasks -> TaskRow]
    /\ recorded \subseteq ClientIds
    /\ service \in {"up", "stopped"}

\* A rule keeps to its drafts; a task's rule is there once it is granted, as
\* the grant made it.
RuleKept(rules, r) ==
    /\ rules[r] # NoRow => /\ rules[r].clock \in Drafts[r]
                           /\ rules[r].revision \in 0 .. MaxRevisions
                           /\ rules[r].version \in 1 .. Version
    /\ Owner[r] \in Tasks =>
          LET t == task[Owner[r]] IN
          /\ rules[r] # NoRow <=> t.state \in {"granted", "cancelled"}
          /\ rules[r] # NoRow => rules[r].revision = 0 /\ rules[r].version = t.version

\* A row was planned by a revision of its rule. That of the present revision
\* has the present clock, and what waits is of the present revision.
RowKept(rules, rows, r, date) ==
    LET row == rows[r][date]
        plan == rules[r]
    IN row # NoRow =>
       /\ plan # NoRow /\ row.revision <= plan.revision
       /\ \E clock \in Drafts[r] :
             <<row.hour, row.length, row.bytes>> = <<clock.hour, clock.length, clock.bytes>>
       /\ row.revision = plan.revision =>
             /\ row.hour = plan.clock.hour /\ row.length = plan.clock.length
             /\ row.bytes = plan.clock.bytes
       /\ row.state = "waiting" => row.revision = plan.revision
       /\ row.state = "admitted" =>
             <<date, row.hour>> \notin Springs /\ <<r, date>> \notin recorded

OneWaits(rows, r) ==
    \A d, e \in Dates : rows[r][d].state = "waiting" /\ rows[r][e].state = "waiting" => d = e

\* The rows of a task's rule are those of the dates it is for.
TaskRows(rules, rows, r) ==
    Owner[r] \in Tasks /\ rules[r] # NoRow =>
        \A date \in Dates : rows[r][date] # NoRow <=> date \in rules[r].clock.dates

TablesKept(rules, rows) ==
    \A r \in Rules :
        /\ RuleKept(rules, r) /\ OneWaits(rows, r) /\ TaskRows(rules, rows, r)
        /\ \A date \in Dates : RowKept(rules, rows, r, date)

(***************************************************************************)
(* The ledger. An entry is the plan of an admitted occurrence, made inside *)
(* its window by a version that captures, and for a task under its scope,  *)
(* after its grant and before its cancellation.                            *)
(***************************************************************************)
Reserved(e) ==
    [state |-> "admitted", hour |-> e.hour, length |-> e.length, bytes |-> e.bytes,
     revision |-> e.revision]

TaskEntry(t, e) ==
    /\ t.state \in {"granted", "cancelled"}
    /\ e.at >= t.granted /\ e.version = t.version /\ e.action = t.actions
    /\ t.state = "cancelled" => e.at <= t.ended /\ e.rule \in t.mask

EntryKept(rules, rows, e) ==
    /\ Owner[e.rule] # "user"
    /\ rows[e.rule][e.date] = Reserved(e)
    /\ e.version >= rules[e.rule].version /\ e.version \in 1 .. Version
    /\ policy[e.version].capture
    /\ e.action <= actions
    /\ e.at >= Start(e.date, e) /\ e.at < End(e.date, e)
    /\ Owner[e.rule] \in Tasks => TaskEntry(task[Owner[e.rule]], e)

InCaps(ledger, e) ==
    /\ TotalSeconds(ledger) <= policy[e.version].total
    /\ TotalBytes(ledger) <= policy[e.version].bytes
    /\ \A day \in Days(e.date, e) : DaySeconds(ledger, day) <= policy[e.version].daily

LedgerKept(rules, rows, ledger) ==
    /\ \A i \in 1 .. Len(ledger) :
          /\ EntryKept(rules, rows, ledger[i])
          /\ InCaps(SubSeq(ledger, 1, i), ledger[i])
    /\ \A i, j \in 1 .. Len(ledger) :
          /\ i < j => ledger[i].version <= ledger[j].version /\ ledger[i].action <= ledger[j].action
          /\ ledger[i].rule = ledger[j].rule /\ ledger[i].date = ledger[j].date => i = j
    /\ \A r \in Rules, date \in Dates :
          Owner[r] # "user" /\ rows[r][date].state = "admitted" =>
              \E i \in 1 .. Len(ledger) : ledger[i].rule = r /\ ledger[i].date = date
    /\ \A t \in Tasks : task[t].state = "cancelled" =>
          \A r \in task[t].mask :
              Owner[r] = t /\ \E i \in 1 .. Len(ledger) : ledger[i].rule = r

(***************************************************************************)
(* The refusals. What a cap of the latest version refused it still         *)
(* refuses, as long as the row is of the revision that was refused.        *)
(***************************************************************************)
NotAdmitted(ledger, f) ==
    \A i \in 1 .. Len(ledger) :
        ~(/\ ledger[i].rule = f.rule /\ ledger[i].date = f.date
          /\ ledger[i].revision = f.revision /\ ledger[i].version = f.version)

RefusalKept(rules, rows, ledger, f) ==
    LET row == rows[f.rule][f.date] IN
    /\ rules[f.rule] # NoRow /\ f.revision <= rules[f.rule].revision /\ f.version <= Version
    /\ f.revision = rules[f.rule].revision => row # NoRow /\ row.revision = f.revision
    /\ f.why \in ByCap =>
          /\ NotAdmitted(ledger, f)
          /\ f.version = Version /\ row # NoRow /\ row.revision = f.revision =>
                Refuses(f.why, ledger, f.rule, f.date, row)

RefusalsKept(rules, rows, ledger, refused) ==
    \A f \in refused : RefusalKept(rules, rows, ledger, f)

Kept(rules, rows, ledger, refused) ==
    /\ TablesKept(rules, rows)
    /\ LedgerKept(rules, rows, ledger)
    /\ RefusalsKept(rules, rows, ledger, refused)

Tables ==
    rule \in AllRules /\ occurrence \in AllRows /\ admission \in Seq(Entry) /\ refusal \in SUBSET Refusal

IInv == Scope /\ Tables /\ Kept(rule, occurrence, admission, refusal)

(***************************************************************************)
(* Folds. A batch gives each rule its turn, the smallest first: what every *)
(* turn keeps, the batch keeps. What is kept is a set of passes. As in     *)
(* TotalProofs the argument is by a smallest counterexample.               *)
(***************************************************************************)
LEMMA SmallestIn ==
    ASSUME NEW S \in SUBSET Nat, S # {}
    PROVE  Min(S) \in S
<1>1. PICK s \in S : \A r \in S : s <= r
    BY Smallest
<1> QED BY <1>1 DEF Min

LEMMA LargestIn ==
    ASSUME NEW S \in SUBSET Nat, S # {}, IsFiniteSet(S)
    PROVE  Max(S) \in S
<1> DEFINE Tops(s) == \E x \in s : \A y \in s : x >= y
           Bad == {n \in Nat : \E s \in SUBSET S : Cardinality(s) = n /\ s # {} /\ ~Tops(s)}
<1>1. SUFFICES ASSUME ~Tops(S) PROVE FALSE
    <2>1. PICK x \in S : \A y \in S : x >= y
        BY <1>1
    <2> QED BY <2>1 DEF Max
<1>2. Bad # {}
    <2>1. Cardinality(S) \in Nat
        BY FS_CardinalityType
    <2> QED BY <1>1, <2>1
<1>3. PICK n \in Bad : \A k \in Bad : n <= k
    BY <1>2, Smallest
<1>4. PICK s \in SUBSET S : Cardinality(s) = n /\ s # {} /\ ~Tops(s)
    BY <1>3
<1>5. IsFiniteSet(s)
    BY FS_Subset
<1>6. PICK x \in s : TRUE
    BY <1>4
<1> DEFINE t == s \ {x}
<1>7. Cardinality(t) = n - 1 /\ Cardinality(t) \in Nat /\ t \in SUBSET S
    BY <1>4, <1>5, FS_RemoveElement, FS_CardinalityType
<1>8. t # {}
    <2>1. ASSUME t = {} PROVE Tops(s)
        <3>1. \A y \in s : y = x
            BY <2>1
        <3> QED BY <3>1
    <2> QED BY <1>4, <2>1
<1>9. Tops(t)
    <2> HIDE DEF Tops, t
    <2>1. n - 1 \notin Bad
        BY <1>3
    <2> QED BY <1>7, <1>8, <2>1
<1>10. PICK y \in t : \A z \in t : y >= z
    BY <1>9
<1>11. Tops(s)
    <2>1. CASE x >= y
        <3>1. \A z \in s : x >= z
            BY <1>10, <2>1
        <3> QED BY <3>1
    <2>2. CASE ~(x >= y)
        <3>1. \A z \in s : y >= z
            BY <1>10, <2>2
        <3> QED BY <1>10, <3>1
    <2> QED BY <2>1, <2>2
<1> QED BY <1>4, <1>11

\* The recursion behind a batch.
Turned(from, now, c, admit, g, s) ==
    IF s = {} THEN from ELSE RuleTurn(g[s \ {Max(s)}], Max(s), now, c, admit)
Batch(from, now, c, admit) ==
    CHOOSE g : g = [s \in SUBSET Rules |-> Turned(from, now, c, admit, g, s)]
Turns(from, now, c, admit, n, g) == g = [s \in UpTo(Rules, n) |-> Turned(from, now, c, admit, g, s)]

LEMMA ReconciledIsBatch ==
    ASSUME NEW from, NEW now, NEW c, NEW admit
    PROVE  Reconciled(from, now, c, admit) = Closed(from, Batch(from, now, c, admit)[Rules])
BY DEF Reconciled, MapThenFoldSet, Batch, Turned

LEMMA LastSmaller ==
    ASSUME NEW s \in SUBSET Rules
    PROVE  /\ IsFiniteSet(s) /\ Cardinality(s) \in Nat
           /\ s # {} => /\ Max(s) \in s
                        /\ s \ {Max(s)} \in SUBSET Rules
                        /\ Cardinality(s) # 0
                        /\ Cardinality(s \ {Max(s)}) = Cardinality(s) - 1
<1>1. IsFiniteSet(s) /\ Cardinality(s) \in Nat /\ s \in SUBSET Nat
    BY SchedulesAssumption, FS_Subset, FS_CardinalityType
<1>2. s # {} => Max(s) \in s
    BY <1>1, LargestIn
<1>3. s # {} => Cardinality(s) # 0
    BY <1>1, FS_EmptySet
<1>4. s # {} => Cardinality(s \ {Max(s)}) = Cardinality(s) - 1
    BY <1>1, <1>2, FS_RemoveElement
<1> QED BY <1>1, <1>2, <1>3, <1>4

LEMMA TurnsUpTo ==
    ASSUME NEW from, NEW now, NEW c, NEW admit, NEW n \in Nat
    PROVE  \E g : Turns(from, now, c, admit, n, g)
<1> DEFINE Bad == {m \in Nat : ~\E g : Turns(from, now, c, admit, m, g)}
<1>1. SUFFICES ASSUME Bad # {} PROVE FALSE
    BY <1>1
<1>2. PICK m \in Bad : \A k \in Bad : m <= k
    BY <1>1, Smallest
<1>3. m # 0
    <2>1. UpTo(Rules, 0) \subseteq {{}}
        <3>1. ASSUME NEW s \in SUBSET Rules, Cardinality(s) <= 0 PROVE s = {}
            <4>1. Cardinality(s) \in Nat /\ (s # {} => Cardinality(s) # 0)
                BY LastSmaller
            <4> QED BY <3>1, <4>1
        <3> QED BY <3>1 DEF UpTo
    <2> DEFINE g == [s \in UpTo(Rules, 0) |-> from]
    <2>2. Turns(from, now, c, admit, 0, g)
        BY <2>1 DEF Turns, Turned
    <2> QED BY <1>2, <2>2
<1>4. m - 1 \in Nat /\ m - 1 \notin Bad
    BY <1>2, <1>3
<1>5. PICK g : Turns(from, now, c, admit, m - 1, g)
    BY <1>4
<1> DEFINE h == [s \in UpTo(Rules, m) |-> Turned(from, now, c, admit, g, s)]
<1>6. ASSUME NEW s \in UpTo(Rules, m) PROVE h[s] = Turned(from, now, c, admit, h, s)
    <2>1. CASE s = {}
        BY <2>1 DEF Turned
    <2>2. CASE s # {}
        <3> DEFINE t == s \ {Max(s)}
        <3>1. t \in UpTo(Rules, m - 1) /\ t \in UpTo(Rules, m)
            BY <1>2, <2>2, LastSmaller DEF UpTo
        <3>2. g[t] = Turned(from, now, c, admit, g, t)
            BY <1>5, <3>1 DEF Turns
        <3>3. h[t] = g[t]
            BY <3>1, <3>2
        <3> QED BY <2>2, <3>3 DEF Turned
    <2> QED BY <2>1, <2>2
<1>7. Turns(from, now, c, admit, m, h)
    BY <1>6 DEF Turns
<1> QED BY <1>2, <1>7

LEMMA BatchTurns ==
    ASSUME NEW from, NEW now, NEW c, NEW admit, NEW s \in SUBSET Rules
    PROVE  Batch(from, now, c, admit)[s] = Turned(from, now, c, admit, Batch(from, now, c, admit), s)
<1>1. Cardinality(Rules) \in Nat /\ \A t \in SUBSET Rules : Cardinality(t) <= Cardinality(Rules)
    BY SchedulesAssumption, FS_Subset, FS_CardinalityType
<1>2. UpTo(Rules, Cardinality(Rules)) = SUBSET Rules
    BY <1>1 DEF UpTo
<1>3. \E g : g = [t \in SUBSET Rules |-> Turned(from, now, c, admit, g, t)]
    <2>1. PICK g : Turns(from, now, c, admit, Cardinality(Rules), g)
        BY <1>1, TurnsUpTo
    <2>2. g = [t \in SUBSET Rules |-> Turned(from, now, c, admit, g, t)]
        BY <1>2, <2>1 DEF Turns
    <2> QED BY <2>2
<1> DEFINE b == Batch(from, now, c, admit)
<1>4. b = [t \in SUBSET Rules |-> Turned(from, now, c, admit, b, t)]
    BY <1>3 DEF Batch
<1> HIDE DEF b
<1> QED BY <1>4 DEF b

\* What each turn keeps is kept by the batch.
LEMMA BatchKeeps ==
    ASSUME NEW from, NEW now, NEW c, NEW admit, NEW Good, from \in Good,
           \A pass \in Good, r \in Rules : RuleTurn(pass, r, now, c, admit) \in Good
    PROVE  Batch(from, now, c, admit)[Rules] \in Good
<1> DEFINE b == Batch(from, now, c, admit)
           Bad == {n \in Nat : \E s \in SUBSET Rules : Cardinality(s) = n /\ b[s] \notin Good}
<1>1. SUFFICES ASSUME b[Rules] \notin Good PROVE FALSE
    OBVIOUS
<1>2. Bad # {}
    BY <1>1, LastSmaller
<1>3. PICK n \in Bad : \A k \in Bad : n <= k
    BY <1>2, Smallest
<1>4. PICK s \in SUBSET Rules : Cardinality(s) = n /\ b[s] \notin Good
    BY <1>3
<1>5. b[s] = Turned(from, now, c, admit, b, s)
    BY BatchTurns
<1>6. s # {}
    BY <1>4, <1>5 DEF Turned
<1> DEFINE t == s \ {Max(s)}
<1>7. Max(s) \in Rules /\ t \in SUBSET Rules /\ Cardinality(t) \in Nat /\ Cardinality(t) < n
    BY <1>4, <1>6, LastSmaller
<1>8. b[t] \in Good
    BY <1>3, <1>7
<1>9. b[s] = RuleTurn(b[t], Max(s), now, c, admit)
    BY <1>5, <1>6 DEF Turned
<1> QED BY <1>4, <1>7, <1>8, <1>9

(***************************************************************************)
(* Windows and sums.                                                       *)
(***************************************************************************)
LEMMA WindowTyped ==
    ASSUME NEW date \in Nat, NEW clock, clock.hour \in Nat, clock.length \in Nat \ {0}
    PROVE  Start(date, clock) \in Nat /\ End(date, clock) \in Nat
<1>1. date * DayLength \in Nat
    BY SchedulesAssumption
<1>2. Start(date, clock) \in Nat
    BY <1>1 DEF Start
<1> QED BY <1>2 DEF End

\* A window is given by its date, hour and length.
LEMMA SameWindow ==
    ASSUME NEW date, NEW a, NEW b, a.hour = b.hour, a.length = b.length
    PROVE  /\ Start(date, a) = Start(date, b) /\ End(date, a) = End(date, b)
           /\ \A now : Timing(date, a, now) = Timing(date, b, now)
           /\ Days(date, a) = Days(date, b)
           /\ \A day : SecondsOn(day, date, a) = SecondsOn(day, date, b)
<1>1. Start(date, a) = Start(date, b) /\ End(date, a) = End(date, b)
    BY DEF Start, End
<1> QED BY <1>1 DEF Timing, Days, SecondsOn

LEMMA SecondsTyped ==
    ASSUME NEW day, NEW date \in Nat, NEW clock, clock.hour \in Nat, clock.length \in Nat \ {0}
    PROVE  SecondsOn(day, date, clock) \in Nat
<1> DEFINE window == Start(date, clock) .. End(date, clock) - 1
<1>0. Start(date, clock) \in Int /\ End(date, clock) - 1 \in Int
    <2>1. Start(date, clock) \in Nat /\ End(date, clock) \in Nat
        BY WindowTyped
    <2> QED BY <2>1
<1>1. IsFiniteSet(window)
    BY <1>0, FS_Interval
<1>2. IsFiniteSet({t \in window : Today(t) = day})
    BY <1>1, FS_Subset
<1> QED BY <1>2, FS_CardinalityType DEF SecondsOn

LEMMA TotalExtends ==
    ASSUME NEW n \in Nat, NEW a, NEW b, \A i \in 1 .. n : a[i] \in Nat /\ b[i] = a[i],
           b[n + 1] \in Nat
    PROVE  /\ Total(a, 1 .. n) \in Nat
           /\ Total(b, 1 .. n + 1) = Total(a, 1 .. n) + b[n + 1]
<1>1. IsFiniteSet(1 .. n) /\ IsFiniteSet(1 .. n + 1)
    BY FS_Interval
<1>2. (1 .. n + 1) \ {n + 1} = 1 .. n /\ n + 1 \in 1 .. n + 1
    OBVIOUS
<1>3. \A i \in 1 .. n + 1 : b[i] \in Nat
    <2>1. ASSUME NEW i \in 1 .. n + 1 PROVE b[i] \in Nat
        <3>1. i \in 1 .. n \/ i = n + 1
            OBVIOUS
        <3> QED BY <3>1
    <2> QED BY <2>1
<1>4. Total(b, 1 .. n + 1) = b[n + 1] + Total(b, (1 .. n + 1) \ {n + 1})
    BY <1>1, <1>2, <1>3, TotalRemoves
<1>5. Total(b, 1 .. n) = Total(a, 1 .. n)
    BY <1>1, TotalAgrees
<1>6. Total(a, 1 .. n) \in Nat
    BY <1>1, TotalRemoves
<1>7. Total(b, (1 .. n + 1) \ {n + 1}) = Total(b, 1 .. n)
    BY <1>2, Zenon
<1> QED BY <1>4, <1>5, <1>6, <1>7

LEMMA EntryTyped ==
    ASSUME NEW e \in Entry
    PROVE  /\ e.rule \in Rules /\ e.date \in Dates /\ e.date \in Nat /\ e.at \in Nat
           /\ e.hour \in Nat /\ e.length \in Nat \ {0} /\ e.bytes \in Nat /\ e.revision \in Nat
           /\ e.version \in Nat /\ e.action \in Nat
           /\ Start(e.date, e) \in Nat /\ End(e.date, e) \in Nat
           /\ \A day : SecondsOn(day, e.date, e) \in Nat
<1>1. /\ e.rule \in Rules /\ e.date \in Dates /\ e.date \in Nat /\ e.at \in Nat
      /\ e.hour \in Nat /\ e.length \in Nat \ {0} /\ e.bytes \in Nat /\ e.revision \in Nat
      /\ e.version \in Nat /\ e.action \in Nat
    BY SchedulesAssumption DEF Entry
<1> QED BY <1>1, WindowTyped, SecondsTyped

\* The sums over a ledger with one more entry.
LEMMA SumsAppend ==
    ASSUME NEW ledger \in Seq(Entry), NEW e \in Entry
    PROVE  /\ TotalSeconds(ledger) \in Nat
           /\ TotalSeconds(Append(ledger, e)) = TotalSeconds(ledger) + e.length
           /\ TotalBytes(ledger) \in Nat
           /\ TotalBytes(Append(ledger, e)) = TotalBytes(ledger) + e.bytes
           /\ \A day : /\ DaySeconds(ledger, day) \in Nat
                       /\ DaySeconds(Append(ledger, e), day)
                            = DaySeconds(ledger, day) + SecondsOn(day, e.date, e)
<1> DEFINE n == Len(ledger)
           more == Append(ledger, e)
<1>1. /\ n \in Nat /\ DOMAIN ledger = 1 .. n /\ DOMAIN more = 1 .. n + 1
      /\ \A i \in 1 .. n : ledger[i] \in Entry /\ more[i] = ledger[i]
      /\ more[n + 1] = e
    OBVIOUS
<1> HIDE DEF n, more
<1>2. /\ TotalSeconds(ledger) \in Nat
      /\ TotalSeconds(more) = TotalSeconds(ledger) + e.length
    <2> DEFINE a == [i \in 1 .. n |-> ledger[i].length]
               b == [i \in 1 .. n + 1 |-> more[i].length]
    <2>1. \A i \in 1 .. n : a[i] \in Nat /\ b[i] = a[i]
        BY <1>1, EntryTyped, SMTT(30)
    <2>2. b[n + 1] = e.length /\ e.length \in Nat
        BY <1>1, EntryTyped
    <2>3. TotalSeconds(ledger) = Total(a, 1 .. n) /\ TotalSeconds(more) = Total(b, 1 .. n + 1)
        BY <1>1 DEF TotalSeconds
    <2> HIDE DEF a, b
    <2>4. b[n + 1] \in Nat
        BY <2>2
    <2>5. Total(a, 1 .. n) \in Nat /\ Total(b, 1 .. n + 1) = Total(a, 1 .. n) + b[n + 1]
        BY <1>1, <2>1, <2>4, TotalExtends
    <2> QED BY <2>2, <2>3, <2>5
<1>3. /\ TotalBytes(ledger) \in Nat
      /\ TotalBytes(more) = TotalBytes(ledger) + e.bytes
    <2> DEFINE a == [i \in 1 .. n |-> ledger[i].bytes]
               b == [i \in 1 .. n + 1 |-> more[i].bytes]
    <2>1. \A i \in 1 .. n : a[i] \in Nat /\ b[i] = a[i]
        BY <1>1, EntryTyped
    <2>2. b[n + 1] = e.bytes /\ e.bytes \in Nat
        BY <1>1, EntryTyped
    <2>3. TotalBytes(ledger) = Total(a, 1 .. n) /\ TotalBytes(more) = Total(b, 1 .. n + 1)
        BY <1>1 DEF TotalBytes
    <2> HIDE DEF a, b
    <2>4. b[n + 1] \in Nat
        BY <2>2
    <2>5. Total(a, 1 .. n) \in Nat /\ Total(b, 1 .. n + 1) = Total(a, 1 .. n) + b[n + 1]
        BY <1>1, <2>1, <2>4, TotalExtends
    <2> QED BY <2>2, <2>3, <2>5
<1>4. ASSUME NEW day
      PROVE  /\ DaySeconds(ledger, day) \in Nat
             /\ DaySeconds(more, day) = DaySeconds(ledger, day) + SecondsOn(day, e.date, e)
    <2>6. \A i \in 1 .. n : SecondsOn(day, ledger[i].date, ledger[i]) \in Nat
        BY <1>1, EntryTyped
    <2>7. SecondsOn(day, e.date, e) \in Nat
        BY EntryTyped
    <2> DEFINE a == [i \in 1 .. n |-> SecondsOn(day, ledger[i].date, ledger[i])]
               b == [i \in 1 .. n + 1 |-> SecondsOn(day, more[i].date, more[i])]
    <2>1. \A i \in 1 .. n : a[i] \in Nat /\ b[i] = a[i]
        BY <1>1, <2>6
    <2>2. b[n + 1] = SecondsOn(day, e.date, e) /\ SecondsOn(day, e.date, e) \in Nat
        BY <1>1, <2>7
    <2>3. DaySeconds(ledger, day) = Total(a, 1 .. n) /\ DaySeconds(more, day) = Total(b, 1 .. n + 1)
        BY <1>1 DEF DaySeconds
    <2> HIDE DEF a, b
    <2>4. b[n + 1] \in Nat
        BY <2>2
    <2>5. Total(a, 1 .. n) \in Nat /\ Total(b, 1 .. n + 1) = Total(a, 1 .. n) + b[n + 1]
        BY <1>1, <2>1, <2>4, TotalExtends
    <2> QED BY <2>2, <2>3, <2>5
<1> QED BY <1>2, <1>3, <1>4 DEF more

(***************************************************************************)
(* What writing a row keeps.                                               *)
(***************************************************************************)
LEMMA RowTypes ==
    ASSUME NEW rows \in AllRows, NEW r \in Rules, NEW date \in Dates
    PROVE  LET row == rows[r][date] IN
           /\ row \in {NoRow} \union Row
           /\ row # NoRow <=> row.state # "none"
           /\ row # NoRow => /\ row \in Row
                             /\ row.hour \in Nat /\ row.length \in Nat \ {0}
                             /\ row.bytes \in Nat /\ row.revision \in Nat
                             /\ row.state \in {"waiting", "missed", "admitted"}
BY DEF AllRows, Row, NoRow

LEMMA RuleTypes ==
    ASSUME NEW rules \in AllRules, NEW r \in Rules, rules[r] # NoRow
    PROVE  /\ rules[r] \in RuleRow /\ rules[r].clock \in Clocks
           /\ rules[r].revision \in Nat /\ rules[r].version \in Nat
BY DEF AllRules, RuleRow

LEMMA ClockTypes ==
    ASSUME NEW clock \in Clocks
    PROVE  /\ clock.dates \subseteq Dates /\ clock.hour \in Nat /\ clock.length \in Nat \ {0}
           /\ clock.bytes \in Nat /\ clock.once \in BOOLEAN
           /\ clock.once => \E date \in Dates : clock.dates = {date}
BY DEF Clocks

\* The table with another row for a rule and a date.
Written(rows, r, date, row) == [rows EXCEPT ![r][date] = row]

LEMMA WrittenRows ==
    ASSUME NEW rows \in AllRows, NEW r \in Rules, NEW date \in Dates, NEW row \in Row
    PROVE  /\ Written(rows, r, date, row) \in AllRows
           /\ Written(rows, r, date, row)[r][date] = row
           /\ \A q \in Rules, d \in Dates :
                 q # r \/ d # date => Written(rows, r, date, row)[q][d] = rows[q][d]
BY DEF AllRows, Written

\* Whether and how rows are admitted.
SameAdmitted(rows, more) ==
    \A r \in Rules, date \in Dates :
        rows[r][date].state = "admitted" \/ more[r][date].state = "admitted"
            => more[r][date] = rows[r][date]

\* The ledger is audited against the admitted rows and the versions of rules.
LEMMA LedgerStands ==
    ASSUME NEW rules, NEW newer, NEW rows, NEW more, NEW ledger \in Seq(Entry),
           TablesKept(rules, rows), LedgerKept(rules, rows, ledger),
           rows \in AllRows, SameAdmitted(rows, more),
           \A r \in Rules : rules[r] # NoRow => newer[r].version = rules[r].version
    PROVE  LedgerKept(newer, more, ledger)
<1>1. ASSUME NEW i \in 1 .. Len(ledger) PROVE EntryKept(newer, more, ledger[i])
    <2> DEFINE e == ledger[i]
    <2>1. e \in Entry /\ e.rule \in Rules /\ e.date \in Dates
        BY EntryTyped
    <2>2. EntryKept(rules, rows, e)
        BY <1>1 DEF LedgerKept
    <2>3. rows[e.rule][e.date].state = "admitted" /\ more[e.rule][e.date] = rows[e.rule][e.date]
        BY <2>1, <2>2 DEF EntryKept, Reserved, SameAdmitted
    <2> HIDE DEF e
    <2>4. rules[e.rule] # NoRow
        <3>1. RowKept(rules, rows, e.rule, e.date)
            BY <2>1 DEF TablesKept
        <3>2. rows[e.rule][e.date] # NoRow
            BY <2>3 DEF NoRow
        <3> QED BY <3>1, <3>2 DEF RowKept
    <2>5. newer[e.rule].version = rules[e.rule].version
        BY <2>1, <2>4
    <2>6. EntryKept(newer, more, e)
        BY <2>2, <2>3, <2>5 DEF EntryKept
    <2> QED BY <2>6 DEF e
<1>2. ASSUME NEW r \in Rules, NEW date \in Dates, Owner[r] # "user", more[r][date].state = "admitted"
      PROVE  \E i \in 1 .. Len(ledger) : ledger[i].rule = r /\ ledger[i].date = date
    <2>1. rows[r][date].state = "admitted"
        BY <1>2 DEF SameAdmitted
    <2> QED BY <1>2, <2>1 DEF LedgerKept
<1> QED BY <1>1, <1>2 DEF LedgerKept

\* A refusal stands as long as a row of its revision keeps its plan, is not
\* dropped, and no row is made of an earlier revision.
LEMMA RefusalStands ==
    ASSUME NEW rules, NEW rows \in AllRows, NEW more \in AllRows, NEW ledger,
           NEW f \in Refusal, RefusalKept(rules, rows, ledger, f),
           LET row == rows[f.rule][f.date]
               now == more[f.rule][f.date]
           IN \/ now = row
              \/ row # NoRow /\ now # NoRow /\ now.revision = row.revision
                 /\ now.hour = row.hour /\ now.length = row.length /\ now.bytes = row.bytes
              \/ row = NoRow /\ now.revision = rules[f.rule].revision
    PROVE  RefusalKept(rules, more, ledger, f)
<1> DEFINE row == rows[f.rule][f.date]
           now == more[f.rule][f.date]
<1>1. f.rule \in Rules /\ f.date \in Dates
    BY DEF Refusal
<1>2. CASE now = row
    BY <1>2 DEF RefusalKept
<1>3. CASE row # NoRow /\ now # NoRow /\ now.revision = row.revision
           /\ now.hour = row.hour /\ now.length = row.length /\ now.bytes = row.bytes
    <2>1. Refuses(f.why, ledger, f.rule, f.date, row) = Refuses(f.why, ledger, f.rule, f.date, now)
        <3>1. /\ Days(f.date, row) = Days(f.date, now)
              /\ \A day : SecondsOn(day, f.date, row) = SecondsOn(day, f.date, now)
            BY <1>3, SameWindow
        <3> HIDE DEF row, now
        <3> QED BY <1>3, <3>1 DEF Refuses
    <2> QED BY <1>3, <2>1 DEF RefusalKept
<1>4. CASE row = NoRow /\ now.revision = rules[f.rule].revision
    <2>1. now.revision # f.revision
        BY <1>4 DEF RefusalKept
    <2> QED BY <1>4, <2>1 DEF RefusalKept
<1> QED BY <1>2, <1>3, <1>4

\* The next slot of a rule is of its clock, nothing waits then, and the row
\* that has the date is not taken by the clock.
LEMMA NextSlot ==
    ASSUME NEW rules \in AllRules, NEW rows \in AllRows, NEW r \in Rules, rules[r] # NoRow, NEW now,
           Materializes(rows, r, rules[r], now) # {}
    PROVE  LET date == Min(Materializes(rows, r, rules[r], now)) IN
           /\ date \in Materializes(rows, r, rules[r], now)
           /\ date \in Dates /\ date \in rules[r].clock.dates
           /\ ~Taken(rows, r, rules[r].clock, date)
           /\ \A d \in Dates : rows[r][d].state # "waiting"
<1> DEFINE dates == Materializes(rows, r, rules[r], now)
           next == NextDates(rows, r, rules[r].clock, now)
<1>1. Rows(rows, r, "waiting") = {} /\ dates \subseteq next
    BY DEF Materializes
<1>2. next \subseteq {d \in rules[r].clock.dates : ~Taken(rows, r, rules[r].clock, d)}
    BY DEF NextDates
<1>3. rules[r].clock.dates \subseteq Dates /\ Dates \subseteq Nat
    BY RuleTypes, ClockTypes, SchedulesAssumption
<1>4. dates \in SUBSET Nat
    BY <1>1, <1>2, <1>3
<1> HIDE DEF dates, next
<1>5. dates # {}
    BY DEF dates
<1>6. Min(dates) \in dates
    BY <1>4, <1>5, SmallestIn
<1>7. \A d \in Dates : rows[r][d].state # "waiting"
    BY <1>1 DEF Rows
<1>8. Min(dates) \in rules[r].clock.dates /\ ~Taken(rows, r, rules[r].clock, Min(dates))
    BY <1>1, <1>2, <1>6
<1> QED BY <1>3, <1>6, <1>7, <1>8 DEF dates

LEMMA SlotTypes ==
    ASSUME NEW rules \in AllRules, NEW r \in Rules, rules[r] # NoRow, NEW date, NEW now
    PROVE  LET row == Slot(rules[r], date, now)
               plan == rules[r]
           IN /\ row \in Row /\ row # NoRow /\ row.state \in {"waiting", "missed"}
              /\ row.hour = plan.clock.hour /\ row.length = plan.clock.length
              /\ row.bytes = plan.clock.bytes /\ row.revision = plan.revision
BY RuleTypes, ClockTypes DEF Slot, Row, NoRow

\* A row of the present revision may be written where there is none, for a
\* date of the rule's clock.
LEMMA InsertKeeps ==
    ASSUME NEW rules \in AllRules, NEW rows \in AllRows, NEW ledger \in Seq(Entry),
           NEW refused \in SUBSET Refusal, Kept(rules, rows, ledger, refused),
           NEW r \in Rules, rules[r] # NoRow, NEW now,
           Inserts(rows, r, Materializes(rows, r, rules[r], now))
    PROVE  /\ Materialized(rows, r, rules[r], now) \in AllRows
           /\ Kept(rules, Materialized(rows, r, rules[r], now), ledger, refused)
<1> DEFINE dates == Materializes(rows, r, rules[r], now)
           date == Min(dates)
           row == Slot(rules[r], date, now)
           more == Written(rows, r, date, row)
<1>1. CASE dates = {}
    BY <1>1 DEF Materialized, Inserted
<1>2. CASE dates # {}
    <2>1. /\ date \in dates /\ date \in Dates /\ date \in rules[r].clock.dates
          /\ \A d \in Dates : rows[r][d].state # "waiting"
        BY <1>2, NextSlot
    <2>2. Materialized(rows, r, rules[r], now) = more
        BY <1>2 DEF Materialized, Inserted, Written
    <2>3. rows[r][date] = NoRow
        BY <2>1 DEF Inserts
    <2>4. /\ row \in Row /\ row # NoRow /\ row.state \in {"waiting", "missed"}
          /\ row.hour = rules[r].clock.hour /\ row.length = rules[r].clock.length
          /\ row.bytes = rules[r].clock.bytes /\ row.revision = rules[r].revision
        BY SlotTypes
    <2> HIDE DEF dates, date, row, more
    <2>5. /\ more \in AllRows /\ more[r][date] = row
          /\ \A q \in Rules, d \in Dates : q # r \/ d # date => more[q][d] = rows[q][d]
        BY <2>1, <2>4, WrittenRows DEF more
    <2>6. ASSUME NEW q \in Rules
          PROVE  /\ RuleKept(rules, q) /\ OneWaits(more, q) /\ TaskRows(rules, more, q)
                 /\ \A d \in Dates : RowKept(rules, more, q, d)
        <3>1. /\ RuleKept(rules, q) /\ OneWaits(rows, q) /\ TaskRows(rules, rows, q)
              /\ \A d \in Dates : RowKept(rules, rows, q, d)
            BY DEF Kept, TablesKept
        <3>2. CASE q # r
            BY <2>5, <3>1, <3>2 DEF OneWaits, TaskRows, RowKept
        <3>3. CASE q = r
            <4>1. OneWaits(more, r)
                BY <2>1, <2>5 DEF OneWaits
            <4>2. TaskRows(rules, more, r)
                BY <2>1, <2>4, <2>5, <3>1, <3>3 DEF TaskRows
            <4>3. RowKept(rules, more, r, date)
                <5>1. rules[r].clock \in Drafts[r] /\ rules[r].revision \in Nat
                    BY <3>1, <3>3, RuleTypes DEF RuleKept
                <5> QED BY <2>4, <2>5, <5>1 DEF RowKept
            <4>4. ASSUME NEW d \in Dates, d # date PROVE RowKept(rules, more, r, d)
                <5>1. more[r][d] = rows[r][d] /\ RowKept(rules, rows, r, d)
                    BY <2>5, <3>1, <3>3, <4>4
                <5> QED BY <5>1 DEF RowKept
            <4> QED BY <3>1, <3>3, <4>1, <4>2, <4>3, <4>4
        <3> QED BY <3>2, <3>3
    <2>7. LedgerKept(rules, more, ledger)
        <3>1. SameAdmitted(rows, more)
            <4>1. ASSUME NEW q \in Rules, NEW d \in Dates
                  PROVE  rows[q][d].state = "admitted" \/ more[q][d].state = "admitted"
                            => more[q][d] = rows[q][d]
                <5>1. CASE q = r /\ d = date
                    BY <2>3, <2>4, <2>5, <5>1 DEF NoRow
                <5> QED BY <2>5, <5>1
            <4> QED BY <4>1 DEF SameAdmitted
        <3>2. TablesKept(rules, rows) /\ LedgerKept(rules, rows, ledger)
            BY DEF Kept
        <3> QED BY <3>1, <3>2, LedgerStands
    <2>8. RefusalsKept(rules, more, ledger, refused)
        <3>1. ASSUME NEW f \in refused PROVE RefusalKept(rules, more, ledger, f)
            <4>1. f \in Refusal /\ f.rule \in Rules /\ f.date \in Dates /\ RefusalKept(rules, rows, ledger, f)
                BY DEF Kept, RefusalsKept, Refusal
            <4>2. CASE f.rule = r /\ f.date = date
                <5>1. rows[f.rule][f.date] = NoRow /\ more[f.rule][f.date].revision = rules[f.rule].revision
                    BY <2>3, <2>4, <2>5, <4>2
                <5> QED BY <2>5, <4>1, <5>1, RefusalStands
            <4>3. CASE ~(f.rule = r /\ f.date = date)
                <5>1. more[f.rule][f.date] = rows[f.rule][f.date]
                    BY <2>5, <4>1, <4>3
                <5> QED BY <2>5, <4>1, <5>1, RefusalStands
            <4> QED BY <4>2, <4>3
        <3> QED BY <3>1 DEF RefusalsKept
    <2>9. TablesKept(rules, more)
        BY <2>6 DEF TablesKept
    <2> QED BY <2>2, <2>5, <2>7, <2>8, <2>9 DEF Kept
<1> QED BY <1>1, <1>2

\* What waits and has ended may be marked as missed.
LEMMA MissKeeps ==
    ASSUME NEW rules \in AllRules, NEW rows \in AllRows, NEW ledger \in Seq(Entry),
           NEW refused \in SUBSET Refusal, Kept(rules, rows, ledger, refused),
           NEW r \in Rules, NEW now
    PROVE  LET more == MarkedMissed(rows, r, Waiting(rows, r, now, "ended")) IN
           more \in AllRows /\ Kept(rules, more, ledger, refused)
<1> DEFINE ended == Waiting(rows, r, now, "ended")
           date == Min(ended)
           row == [rows[r][date] EXCEPT !.state = "missed"]
           more == Written(rows, r, date, row)
<1>1. CASE ended = {}
    BY <1>1 DEF MarkedMissed
<1>2. CASE ended # {}
    <2>1. date \in ended /\ date \in Dates /\ rows[r][date].state = "waiting"
        <3>1. ended \subseteq Dates /\ ended \in SUBSET Nat
            BY SchedulesAssumption DEF Waiting, Rows
        <3>2. date \in ended
            BY <1>2, <3>1, SmallestIn
        <3> QED BY <3>1, <3>2 DEF Waiting, Rows
    <2>2. MarkedMissed(rows, r, ended) = more
        BY <1>2 DEF MarkedMissed, Written, AllRows
    <2> HIDE DEF ended, date
    <2>3. /\ rows[r][date] \in Row /\ rows[r][date] # NoRow
        BY <2>1, RowTypes DEF NoRow
    <2>4. /\ row \in Row /\ row # NoRow /\ row.state = "missed"
          /\ row.hour = rows[r][date].hour /\ row.length = rows[r][date].length
          /\ row.bytes = rows[r][date].bytes /\ row.revision = rows[r][date].revision
        BY <2>3 DEF Row, NoRow
    <2> HIDE DEF row, more
    <2>5. /\ more \in AllRows /\ more[r][date] = row
          /\ \A q \in Rules, d \in Dates : q # r \/ d # date => more[q][d] = rows[q][d]
        BY <2>1, <2>4, WrittenRows DEF more
    <2>6. ASSUME NEW q \in Rules
          PROVE  /\ RuleKept(rules, q) /\ OneWaits(more, q) /\ TaskRows(rules, more, q)
                 /\ \A d \in Dates : RowKept(rules, more, q, d)
        <3>1. /\ RuleKept(rules, q) /\ OneWaits(rows, q) /\ TaskRows(rules, rows, q)
              /\ \A d \in Dates : RowKept(rules, rows, q, d)
            BY DEF Kept, TablesKept
        <3>2. CASE q # r
            <4>1. \A d \in Dates : more[q][d] = rows[q][d]
                BY <2>5, <3>2
            <4>2. OneWaits(more, q) /\ TaskRows(rules, more, q)
                BY <3>1, <4>1 DEF OneWaits, TaskRows
            <4>3. ASSUME NEW d \in Dates PROVE RowKept(rules, more, q, d)
                <5>1. more[q][d] = rows[q][d] /\ RowKept(rules, rows, q, d)
                    BY <3>1, <4>1
                <5> QED BY <5>1 DEF RowKept
            <4> QED BY <3>1, <4>2, <4>3
        <3>3. CASE q = r
            <4>1. OneWaits(more, r)
                BY <2>4, <2>5, <3>1, <3>3 DEF OneWaits
            <4>2. TaskRows(rules, more, r)
                BY <2>3, <2>4, <2>5, <3>1, <3>3 DEF TaskRows
            <4>3. RowKept(rules, more, r, date)
                <5>1. RowKept(rules, rows, r, date)
                    BY <2>1, <3>1, <3>3
                <5> QED BY <2>3, <2>4, <2>5, <5>1 DEF RowKept
            <4>4. ASSUME NEW d \in Dates, d # date PROVE RowKept(rules, more, r, d)
                <5>1. more[r][d] = rows[r][d] /\ RowKept(rules, rows, r, d)
                    BY <2>5, <3>1, <3>3, <4>4
                <5> QED BY <5>1 DEF RowKept
            <4> QED BY <3>1, <3>3, <4>1, <4>2, <4>3, <4>4
        <3> QED BY <3>2, <3>3
    <2>7. LedgerKept(rules, more, ledger)
        <3>1. SameAdmitted(rows, more)
            <4>1. ASSUME NEW q \in Rules, NEW d \in Dates
                  PROVE  rows[q][d].state = "admitted" \/ more[q][d].state = "admitted"
                            => more[q][d] = rows[q][d]
                <5>1. CASE q = r /\ d = date
                    BY <2>1, <2>4, <2>5, <5>1
                <5> QED BY <2>5, <5>1
            <4> QED BY <4>1 DEF SameAdmitted
        <3>2. TablesKept(rules, rows) /\ LedgerKept(rules, rows, ledger)
            BY DEF Kept
        <3> QED BY <3>1, <3>2, LedgerStands
    <2>8. RefusalsKept(rules, more, ledger, refused)
        <3>1. ASSUME NEW f \in refused PROVE RefusalKept(rules, more, ledger, f)
            <4>1. f \in Refusal /\ f.rule \in Rules /\ f.date \in Dates /\ RefusalKept(rules, rows, ledger, f)
                BY DEF Kept, RefusalsKept, Refusal
            <4>2. CASE f.rule = r /\ f.date = date
                <5> DEFINE was == rows[f.rule][f.date]
                           is == more[f.rule][f.date]
                <5>1. was # NoRow /\ is # NoRow /\ is.revision = was.revision
                      /\ is.hour = was.hour /\ is.length = was.length /\ is.bytes = was.bytes
                    BY <2>3, <2>4, <2>5, <4>2
                <5> QED BY <2>5, <4>1, <5>1, RefusalStands
            <4>3. CASE ~(f.rule = r /\ f.date = date)
                <5>1. more[f.rule][f.date] = rows[f.rule][f.date]
                    BY <2>5, <4>1, <4>3
                <5> QED BY <2>5, <4>1, <5>1, RefusalStands
            <4> QED BY <4>2, <4>3
        <3> QED BY <3>1 DEF RefusalsKept
    <2>9. TablesKept(rules, more)
        BY <2>6 DEF TablesKept
    <2> QED BY <2>2, <2>5, <2>7, <2>8, <2>9 DEF Kept, ended
<1> QED BY <1>1, <1>2

\* An occurrence that was admitted or missed keeps its row.
RowsFinal(rows, more) ==
    \A r \in Rules, date \in Dates :
        rows[r][date].state \in {"missed", "admitted"} => more[r][date] = rows[r][date]

\* The next slot has no row yet, and what waits may be missed.
LEMMA InsertFinal ==
    ASSUME NEW rules \in AllRules, NEW rows \in AllRows, NEW r \in Rules, rules[r] # NoRow, NEW now,
           Inserts(rows, r, Materializes(rows, r, rules[r], now))
    PROVE  RowsFinal(rows, Materialized(rows, r, rules[r], now))
<1> DEFINE dates == Materializes(rows, r, rules[r], now)
           date == Min(dates)
           row == Slot(rules[r], date, now)
           more == Written(rows, r, date, row)
<1>1. CASE dates = {}
    BY <1>1 DEF Materialized, Inserted, RowsFinal
<1>2. CASE dates # {}
    <2>1. date \in dates /\ date \in Dates
        BY <1>2, NextSlot
    <2>2. Materialized(rows, r, rules[r], now) = more
        BY <1>2 DEF Materialized, Inserted, Written
    <2>3. rows[r][date] = NoRow
        BY <2>1 DEF Inserts
    <2>4. row \in Row
        BY SlotTypes
    <2> HIDE DEF dates, date, row
    <2>5. \A q \in Rules, d \in Dates : q # r \/ d # date => more[q][d] = rows[q][d]
        BY <2>1, <2>4, WrittenRows
    <2> HIDE DEF more
    <2>6. ASSUME NEW q \in Rules, NEW d \in Dates, rows[q][d].state \in {"missed", "admitted"}
          PROVE  more[q][d] = rows[q][d]
        <3>1. q # r \/ d # date
            BY <2>3, <2>6 DEF NoRow
        <3> QED BY <2>5, <3>1
    <2> QED BY <2>2, <2>6 DEF RowsFinal
<1> QED BY <1>1, <1>2

LEMMA MissFinal ==
    ASSUME NEW rows \in AllRows, NEW r \in Rules, NEW now
    PROVE  RowsFinal(rows, MarkedMissed(rows, r, Waiting(rows, r, now, "ended")))
<1> DEFINE ended == Waiting(rows, r, now, "ended")
           date == Min(ended)
           row == [rows[r][date] EXCEPT !.state = "missed"]
           more == Written(rows, r, date, row)
<1>1. CASE ended = {}
    BY <1>1 DEF MarkedMissed, RowsFinal
<1>2. CASE ended # {}
    <2>1. date \in Dates /\ rows[r][date].state = "waiting"
        <3>1. ended \subseteq Dates /\ ended \in SUBSET Nat
            BY SchedulesAssumption DEF Waiting, Rows
        <3>2. date \in ended
            BY <1>2, <3>1, SmallestIn
        <3> QED BY <3>1, <3>2 DEF Waiting, Rows
    <2>2. MarkedMissed(rows, r, ended) = more
        BY <1>2 DEF MarkedMissed, Written, AllRows
    <2> HIDE DEF ended, date
    <2>3. rows[r][date] \in Row
        BY <2>1, RowTypes DEF NoRow
    <2>4. row \in Row
        BY <2>3 DEF Row
    <2> HIDE DEF row
    <2>5. \A q \in Rules, d \in Dates : q # r \/ d # date => more[q][d] = rows[q][d]
        BY <2>1, <2>4, WrittenRows
    <2> HIDE DEF more
    <2>6. ASSUME NEW q \in Rules, NEW d \in Dates, rows[q][d].state \in {"missed", "admitted"}
          PROVE  more[q][d] = rows[q][d]
        <3>1. q # r \/ d # date
            BY <2>1, <2>6
        <3> QED BY <2>5, <3>1
    <2>7. RowsFinal(rows, more)
        BY <2>6 DEF RowsFinal
    <2> QED BY <2>2, <2>7 DEF ended
<1> QED BY <1>1, <1>2

(***************************************************************************)
(* A pass. While no rule has been revised, no station is listened to and   *)
(* every occurrence that a client's recording stands in the way of is      *)
(* gone, it has not failed so far. What is gone was missed and stays so.   *)
(***************************************************************************)
Passes(rules) ==
    [rules : {rules}, rows : AllRows, ledger : Seq(Entry), refused : SUBSET Refusal,
     outcome : {"done", "quota", "failed"}, slots : Int, room : Int]

Unrevised(rules) == \A r \in Rules : rules[r] # NoRow => rules[r].revision = 0

Gone(rows, gone) == \A id \in gone : id \in Rules \X Dates /\ rows[id[1]][id[2]].state = "missed"

LEMMA GoneStays ==
    ASSUME NEW rows, NEW more, NEW gone, Gone(rows, gone), RowsFinal(rows, more)
    PROVE  Gone(more, gone)
<1>1. ASSUME NEW id \in gone
      PROVE  id \in Rules \X Dates /\ more[id[1]][id[2]].state = "missed"
    <2>1. id \in Rules \X Dates /\ rows[id[1]][id[2]].state = "missed"
        BY <1>1 DEF Gone
    <2>2. id[1] \in Rules /\ id[2] \in Dates
        BY <2>1
    <2> QED BY <2>1, <2>2 DEF RowsFinal
<1> QED BY <1>1 DEF Gone

Untroubled(rules, c, gone) ==
    /\ c.listening = {} /\ Unrevised(rules)
    /\ \A id \in recorded : rules[id[1]] = NoRow \/ id \in gone

Sound(rules, c, gone) ==
    {pass \in Passes(rules) :
        /\ Kept(rules, pass.rows, pass.ledger, pass.refused) /\ Gone(pass.rows, gone)
        /\ Untroubled(rules, c, gone) => pass.outcome # "failed"}

\* The row of a date belongs to the present clock while the rule is unrevised,
\* so a date that is free has no row.
LEMMA UnrevisedInserts ==
    ASSUME NEW rules \in AllRules, NEW rows \in AllRows, TablesKept(rules, rows), Unrevised(rules),
           NEW r \in Rules, rules[r] # NoRow, NEW now
    PROVE  Inserts(rows, r, Materializes(rows, r, rules[r], now))
<1>1. SUFFICES ASSUME NEW date \in Materializes(rows, r, rules[r], now), rows[r][date] # NoRow
               PROVE  FALSE
    BY DEF Inserts
<1>2. date \in rules[r].clock.dates /\ ~Taken(rows, r, rules[r].clock, date)
    BY <1>1 DEF Materializes, NextDates
<1>3. date \in Dates
    BY <1>2, RuleTypes, ClockTypes
<1>4. RowKept(rules, rows, r, date) /\ rules[r].revision = 0
    BY <1>3 DEF TablesKept, Unrevised
<1>5. rows[r][date].state # "none" /\ rows[r][date].revision \in Nat
    BY <1>1, <1>3, RowTypes
<1>6. rows[r][date].revision = 0
    BY <1>1, <1>4, <1>5 DEF RowKept
<1>7. rows[r][date].hour = rules[r].clock.hour
    BY <1>1, <1>4, <1>6 DEF RowKept
<1> QED BY <1>2, <1>5, <1>7 DEF Taken

LEMMA StoreKeeps ==
    ASSUME NEW rules \in AllRules, NEW c, NEW gone, NEW pass \in Sound(rules, c, gone),
           NEW r \in Rules, rules[r] # NoRow,
           NEW rows \in AllRows, Kept(rules, rows, pass.ledger, pass.refused), Gone(rows, gone), NEW now
    PROVE  /\ StoreAfter(pass, r, rows, now) \in Sound(rules, c, gone)
           /\ StoreAfter(pass, r, rows, now).rules = rules
<1> DEFINE dates == Materializes(rows, r, rules[r], now)
           from == [pass EXCEPT !.rows = rows]
<1>1. pass \in Passes(rules) /\ pass.rules = rules
    BY DEF Sound, Passes
<1>2. /\ from \in Passes(rules) /\ from.rows = rows /\ from.rules = rules
      /\ from.ledger = pass.ledger /\ from.refused = pass.refused /\ from.outcome = pass.outcome
    BY <1>1 DEF Passes
<1>3. StoreAfter(pass, r, rows, now) = StoreNext(from, r, dates, now)
    BY <1>1 DEF StoreAfter
<1> HIDE DEF dates, from
<1>4. CASE Inserts(rows, r, dates)
    <2> DEFINE more == Materialized(rows, r, rules[r], now)
               after == [from EXCEPT !.rows = more]
    <2>1. StoreNext(from, r, dates, now) = after
        BY <1>2, <1>4 DEF StoreNext, Materialized, dates, Passes
    <2>2. more \in AllRows /\ Kept(rules, more, pass.ledger, pass.refused) /\ Gone(more, gone)
        <3>1. pass.ledger \in Seq(Entry) /\ pass.refused \in SUBSET Refusal
            BY <1>1 DEF Passes
        <3>2. Gone(more, gone)
            <4>1. RowsFinal(rows, more)
                BY <1>4, InsertFinal DEF dates
            <4> HIDE DEF more
            <4> QED BY <4>1, GoneStays
        <3> QED BY <1>4, <3>1, <3>2, InsertKeeps DEF dates
    <2> HIDE DEF more
    <2>3. /\ after \in Passes(rules) /\ after.rows = more /\ after.rules = rules
          /\ after.ledger = pass.ledger /\ after.refused = pass.refused /\ after.outcome = pass.outcome
        BY <1>2, <2>2 DEF Passes
    <2> HIDE DEF after
    <2>4. after \in Sound(rules, c, gone)
        BY <2>2, <2>3 DEF Sound
    <2> QED BY <1>3, <2>1, <2>3, <2>4
<1>5. CASE ~Inserts(rows, r, dates)
    <2> DEFINE after == [from EXCEPT !.outcome = "failed"]
    <2>1. StoreNext(from, r, dates, now) = after
        BY <1>2, <1>5 DEF StoreNext
    <2>2. /\ after \in Passes(rules) /\ after.rows = rows /\ after.rules = rules
          /\ after.ledger = pass.ledger /\ after.refused = pass.refused
        BY <1>2 DEF Passes
    <2>3. ~Untroubled(rules, c, gone)
        BY <1>5, UnrevisedInserts DEF Kept, dates, Untroubled
    <2> HIDE DEF after
    <2>4. after \in Sound(rules, c, gone)
        BY <2>2, <2>3 DEF Sound
    <2> QED BY <1>3, <2>1, <2>2, <2>4
<1> QED BY <1>4, <1>5

(***************************************************************************)
(* Admission.                                                              *)
(***************************************************************************)

\* Reservations only add up: what a cap refuses it refuses ever after.
LEMMA RefusesMore ==
    ASSUME Scope, NEW ledger \in Seq(Entry), NEW e \in Entry, NEW why \in ByCap, NEW r \in Rules,
           NEW date \in Dates, NEW row \in Row, Refuses(why, ledger, r, date, row)
    PROVE  Refuses(why, Append(ledger, e), r, date, row)
<1> DEFINE more == Append(ledger, e)
<1>1. /\ TotalSeconds(ledger) \in Nat /\ TotalSeconds(more) \in Nat /\ TotalSeconds(ledger) <= TotalSeconds(more)
      /\ TotalBytes(ledger) \in Nat /\ TotalBytes(more) \in Nat /\ TotalBytes(ledger) <= TotalBytes(more)
    <2>1. e.length \in Nat /\ e.bytes \in Nat
        BY EntryTyped
    <2>2. /\ TotalSeconds(ledger) \in Nat /\ TotalSeconds(more) = TotalSeconds(ledger) + e.length
          /\ TotalBytes(ledger) \in Nat /\ TotalBytes(more) = TotalBytes(ledger) + e.bytes
        BY SumsAppend
    <2> HIDE DEF more
    <2> QED BY <2>1, <2>2
<1>2. ASSUME NEW day
      PROVE  /\ DaySeconds(ledger, day) \in Nat /\ DaySeconds(more, day) \in Nat
             /\ DaySeconds(ledger, day) <= DaySeconds(more, day)
    <2>1. SecondsOn(day, e.date, e) \in Nat
        BY EntryTyped
    <2>2. DaySeconds(ledger, day) \in Nat /\ DaySeconds(more, day) = DaySeconds(ledger, day) + SecondsOn(day, e.date, e)
        BY SumsAppend
    <2> QED BY <2>1, <2>2
<1>3. Latest.total \in Nat /\ Latest.bytes \in Nat /\ Latest.daily \in Nat
    <2>1. Latest \in Policies \union {FirstPolicy}
        BY DEF Scope, Latest, Version
    <2>2. Bounded(Latest)
        BY <2>1, SchedulesAssumption
    <2> QED BY <2>2 DEF Bounded
<1>4. row.length \in Nat /\ row.bytes \in Nat /\ \A day : SecondsOn(day, date, row) \in Nat
    <2>1. row.hour \in Nat /\ row.length \in Nat \ {0} /\ row.bytes \in Nat /\ date \in Nat
        BY SchedulesAssumption DEF Row
    <2> QED BY <2>1, SecondsTyped
<1> HIDE DEF more
<1>5. CASE why = "total-cap"
    <2>1. row.length > Latest.total - TotalSeconds(ledger)
        BY <1>5 DEF Refuses
    <2>2. row.length > Latest.total - TotalSeconds(more)
        BY <1>1, <1>3, <1>4, <2>1
    <2> QED BY <1>5, <2>2 DEF Refuses, more
<1>6. CASE why = "byte-cap"
    <2>1. row.bytes > Latest.bytes - TotalBytes(ledger)
        BY <1>6 DEF Refuses
    <2>2. row.bytes > Latest.bytes - TotalBytes(more)
        BY <1>1, <1>3, <1>4, <2>1
    <2> QED BY <1>6, <2>2 DEF Refuses, more
<1>7. CASE why = "daily-cap"
    <2>1. PICK day \in Days(date, row) : SecondsOn(day, date, row) > Latest.daily - DaySeconds(ledger, day)
        BY <1>7 DEF Refuses
    <2>2. SecondsOn(day, date, row) > Latest.daily - DaySeconds(more, day)
        BY <1>2, <1>3, <1>4, <2>1
    <2> QED BY <1>7, <2>2 DEF Refuses, more
<1> QED BY <1>5, <1>6, <1>7 DEF ByCap

\* What the first refusal is about does refuse, and without one no reason does.
LEMMA FirstRefusal ==
    ASSUME NEW ledger, NEW r, NEW date, NEW row
    PROVE  LET reasons == Refusals(ledger, r, date, row) IN
           /\ reasons # {} => /\ Reasons[Min(reasons)] \in Whys
                              /\ Refuses(Reasons[Min(reasons)], ledger, r, date, row)
           /\ reasons = {} => \A why \in ByCap \union {"capture-disabled"} : ~Refuses(why, ledger, r, date, row)
<1> DEFINE reasons == Refusals(ledger, r, date, row)
<1>1. /\ DOMAIN Reasons = 1 .. 5
      /\ Reasons[1] = "capture-disabled" /\ Reasons[2] = "source-not-followed"
      /\ Reasons[3] = "total-cap" /\ Reasons[4] = "byte-cap" /\ Reasons[5] = "daily-cap"
    BY DEF Reasons
<1>2. reasons \in SUBSET (1 .. 5) /\ \A i \in 1 .. 5 : i \in reasons <=> Refuses(Reasons[i], ledger, r, date, row)
    BY <1>1 DEF Refusals
<1> HIDE DEF reasons
<1>3. ASSUME reasons # {}
      PROVE  Reasons[Min(reasons)] \in Whys /\ Refuses(Reasons[Min(reasons)], ledger, r, date, row)
    <2>1. Min(reasons) \in reasons
        <3>1. reasons \in SUBSET Nat
            BY <1>2
        <3> QED BY <1>3, <3>1, SmallestIn
    <2> DEFINE i == Min(reasons)
    <2>2. i \in 1 .. 5 /\ Refuses(Reasons[i], ledger, r, date, row)
        BY <1>2, <2>1
    <2> HIDE DEF i
    <2>3. Reasons[i] \in Whys
        <3>1. i = 1 \/ i = 2 \/ i = 3 \/ i = 4 \/ i = 5
            BY <2>2
        <3> QED BY <1>1, <3>1 DEF Whys, ByCap
    <2> QED BY <2>2, <2>3 DEF i
<1>4. ASSUME reasons = {}, NEW why \in ByCap \union {"capture-disabled"}
      PROVE  ~Refuses(why, ledger, r, date, row)
    <2>1. PICK i \in 1 .. 5 : why = Reasons[i]
        BY <1>1 DEF ByCap
    <2> QED BY <1>2, <1>4, <2>1
<1> QED BY <1>3, <1>4 DEF reasons

\* A refusal may be written down for a row that waits.
LEMMA DenyKeeps ==
    ASSUME Scope, NEW rules \in AllRules, NEW rows \in AllRows, NEW ledger \in Seq(Entry),
           NEW refused \in SUBSET Refusal, Kept(rules, rows, ledger, refused),
           NEW r \in Rules, NEW date \in Dates, rows[r][date].state = "waiting",
           NEW why \in Whys, Refuses(why, ledger, r, date, rows[r][date])
    PROVE  LET f == [rule |-> r, date |-> date, revision |-> rows[r][date].revision,
                     version |-> Version, why |-> why]
           IN refused \union {f} \in SUBSET Refusal /\ Kept(rules, rows, ledger, refused \union {f})
<1> DEFINE row == rows[r][date]
           f == [rule |-> r, date |-> date, revision |-> row.revision, version |-> Version, why |-> why]
<1>1. row # NoRow /\ row \in Row /\ row.revision \in Nat
    BY RowTypes DEF NoRow
<1>2. Version \in Nat
    BY DEF Scope
<1>3. f \in Refusal
    BY <1>1, <1>2 DEF Refusal
<1>4. f.rule = r /\ f.date = date /\ f.revision = row.revision /\ f.version = Version /\ f.why = why
    OBVIOUS
<1>5. rules[r] # NoRow /\ row.revision = rules[r].revision /\ rules[r].revision \in Nat
    <2>1. RowKept(rules, rows, r, date)
        BY DEF Kept, TablesKept
    <2>2. rules[r] # NoRow /\ row.revision = rules[r].revision
        BY <1>1, <2>1 DEF RowKept
    <2> QED BY <2>2, RuleTypes
<1> HIDE DEF f
<1>6. NotAdmitted(ledger, f)
    <2>1. SUFFICES ASSUME NEW i \in 1 .. Len(ledger), ledger[i].rule = r, ledger[i].date = date PROVE FALSE
        BY <1>4 DEF NotAdmitted
    <2>2. EntryKept(rules, rows, ledger[i])
        BY DEF Kept, LedgerKept
    <2>3. rows[r][date].state = "admitted"
        BY <2>1, <2>2 DEF EntryKept, Reserved
    <2> QED BY <2>3
<1>7. RefusalKept(rules, rows, ledger, f)
    BY <1>1, <1>2, <1>4, <1>5, <1>6 DEF RefusalKept
<1>8. RefusalsKept(rules, rows, ledger, refused \union {f})
    BY <1>7 DEF Kept, RefusalsKept
<1> QED BY <1>3, <1>8 DEF Kept, f

\* The rows after an admission: an open window is one the zone has, and its
\* id was free.
AdmittedRow(row) == [row EXCEPT !.state = "admitted"]
AdmittedRows(rows, r, date) == Written(rows, r, date, AdmittedRow(rows[r][date]))

LEMMA AdmittedRowIs ==
    ASSUME NEW rows \in AllRows, NEW r \in Rules, NEW date \in Dates, rows[r][date].state = "waiting"
    PROVE  LET row == rows[r][date]
               is == AdmittedRow(row)
               more == AdmittedRows(rows, r, date)
           IN /\ row \in Row /\ row # NoRow /\ row.revision \in Nat
              /\ is \in Row /\ is # NoRow /\ is.state = "admitted"
              /\ is.hour = row.hour /\ is.length = row.length /\ is.bytes = row.bytes
              /\ is.revision = row.revision
              /\ more \in AllRows /\ more[r][date] = is
              /\ \A q \in Rules, d \in Dates : q # r \/ d # date => more[q][d] = rows[q][d]
<1> DEFINE row == rows[r][date]
           is == AdmittedRow(row)
           more == AdmittedRows(rows, r, date)
<1>1. row \in Row /\ row # NoRow /\ row.revision \in Nat
    BY RowTypes DEF NoRow
<1>2. /\ is \in Row /\ is # NoRow /\ is.state = "admitted"
      /\ is.hour = row.hour /\ is.length = row.length /\ is.bytes = row.bytes
      /\ is.revision = row.revision
    BY <1>1 DEF Row, NoRow, AdmittedRow
<1> HIDE DEF row, is
<1>3. more = Written(rows, r, date, is)
    BY DEF AdmittedRows, is, row
<1>4. /\ more \in AllRows /\ more[r][date] = is
      /\ \A q \in Rules, d \in Dates : q # r \/ d # date => more[q][d] = rows[q][d]
    BY <1>2, <1>3, WrittenRows
<1> QED BY <1>1, <1>2, <1>4 DEF is, row

LEMMA AdmittedTables ==
    ASSUME NEW rules \in AllRules, NEW rows \in AllRows, TablesKept(rules, rows),
           NEW r \in Rules, NEW date \in Dates, rows[r][date].state = "waiting",
           <<r, date>> \notin recorded,
           NEW now \in Nat, Timing(date, rows[r][date], now) = "open"
    PROVE  TablesKept(rules, AdmittedRows(rows, r, date))
<1> DEFINE row == rows[r][date]
           is == AdmittedRow(row)
           more == AdmittedRows(rows, r, date)
<1>1. /\ row \in Row /\ row # NoRow /\ row.revision \in Nat
      /\ is \in Row /\ is # NoRow /\ is.state = "admitted"
      /\ is.hour = row.hour /\ is.length = row.length /\ is.bytes = row.bytes
      /\ is.revision = row.revision
      /\ more \in AllRows /\ more[r][date] = is
      /\ \A q \in Rules, d \in Dates : q # r \/ d # date => more[q][d] = rows[q][d]
    BY AdmittedRowIs
<1>2. <<date, row.hour>> \notin Springs
    <2>1. ~(now < Start(date, row)) /\ ~(now >= End(date, row))
        BY DEF Timing
    <2>2. Start(date, row) \in Nat /\ End(date, row) \in Nat
        <3>1. date \in Nat /\ row.hour \in Nat /\ row.length \in Nat \ {0}
            BY <1>1, SchedulesAssumption DEF Row
        <3> QED BY <3>1, WindowTyped
    <2>3. End(date, row) # Start(date, row)
        BY <2>1, <2>2
    <2> QED BY <2>2, <2>3 DEF End
<1> HIDE DEF row, is, more
<1>3. ASSUME NEW q \in Rules
      PROVE  /\ RuleKept(rules, q) /\ OneWaits(more, q) /\ TaskRows(rules, more, q)
             /\ \A d \in Dates : RowKept(rules, more, q, d)
    <2>1. /\ RuleKept(rules, q) /\ OneWaits(rows, q) /\ TaskRows(rules, rows, q)
          /\ \A d \in Dates : RowKept(rules, rows, q, d)
        BY DEF TablesKept
    <2>2. CASE q # r
        BY <1>1, <2>1, <2>2 DEF OneWaits, TaskRows, RowKept
    <2>3. CASE q = r
        <3>1. OneWaits(more, r)
            BY <1>1, <2>1, <2>3 DEF OneWaits
        <3>2. TaskRows(rules, more, r)
            BY <1>1, <2>1, <2>3 DEF TaskRows, row
        <3>3. RowKept(rules, more, r, date)
            <4>1. RowKept(rules, rows, r, date)
                BY <2>1, <2>3
            <4> QED BY <1>1, <1>2, <4>1 DEF RowKept, row
        <3>4. ASSUME NEW d \in Dates, d # date PROVE RowKept(rules, more, r, d)
            <4>1. more[r][d] = rows[r][d] /\ RowKept(rules, rows, r, d)
                BY <1>1, <2>1, <2>3, <3>4
            <4> QED BY <4>1 DEF RowKept
        <3> QED BY <2>1, <2>3, <3>1, <3>2, <3>3, <3>4
    <2> QED BY <2>2, <2>3
<1> QED BY <1>3 DEF TablesKept, more

\* No entry is of a row that waits.
LEMMA WaitingUnreserved ==
    ASSUME NEW rules, NEW rows, NEW ledger \in Seq(Entry), LedgerKept(rules, rows, ledger),
           NEW r, NEW date, rows[r][date].state = "waiting"
    PROVE  \A i \in 1 .. Len(ledger) : ledger[i].rule # r \/ ledger[i].date # date
<1>1. SUFFICES ASSUME NEW i \in 1 .. Len(ledger), ledger[i].rule = r, ledger[i].date = date PROVE FALSE
    OBVIOUS
<1>2. rows[r][date] = Reserved(ledger[i])
    BY <1>1 DEF LedgerKept, EntryKept
<1> QED BY <1>2 DEF Reserved

\* The refusals after an admission into a ledger that has grown or not.
LEMMA AdmittedRefusals ==
    ASSUME NEW rules \in AllRules, NEW rows \in AllRows, NEW ledger, NEW f \in Refusal,
           RefusalKept(rules, rows, ledger, f),
           NEW r \in Rules, NEW date \in Dates, rows[r][date].state = "waiting"
    PROVE  RefusalKept(rules, AdmittedRows(rows, r, date), ledger, f)
<1> DEFINE row == rows[r][date]
           is == AdmittedRow(row)
           more == AdmittedRows(rows, r, date)
<1>1. /\ row # NoRow /\ is # NoRow /\ is.hour = row.hour /\ is.length = row.length /\ is.bytes = row.bytes
      /\ is.revision = row.revision
      /\ more \in AllRows /\ more[r][date] = is
      /\ \A q \in Rules, d \in Dates : q # r \/ d # date => more[q][d] = rows[q][d]
    BY AdmittedRowIs
<1>2. f.rule \in Rules /\ f.date \in Dates
    BY DEF Refusal
<1> HIDE DEF row, is, more
<1>3. CASE f.rule = r /\ f.date = date
    <2> DEFINE was == rows[f.rule][f.date]
               later == more[f.rule][f.date]
    <2>1. was # NoRow /\ later # NoRow /\ later.revision = was.revision
          /\ later.hour = was.hour /\ later.length = was.length /\ later.bytes = was.bytes
        BY <1>1, <1>3 DEF row
    <2>2. RefusalKept(rules, more, ledger, f)
        BY <1>1, <2>1, RefusalStands
    <2> QED BY <2>2 DEF more
<1>4. CASE ~(f.rule = r /\ f.date = date)
    <2>1. more[f.rule][f.date] = rows[f.rule][f.date]
        BY <1>1, <1>2, <1>4
    <2>2. RefusalKept(rules, more, ledger, f)
        BY <1>1, <2>1, RefusalStands
    <2> QED BY <2>2 DEF more
<1> QED BY <1>3, <1>4

\* A user's window is admitted without a reservation.
LEMMA UserAdmitKeeps ==
    ASSUME NEW rules \in AllRules, NEW rows \in AllRows, NEW ledger \in Seq(Entry),
           NEW refused \in SUBSET Refusal, Kept(rules, rows, ledger, refused),
           NEW r \in Rules, NEW date \in Dates, rows[r][date].state = "waiting", Owner[r] = "user",
           <<r, date>> \notin recorded, NEW now \in Nat, Timing(date, rows[r][date], now) = "open"
    PROVE  Kept(rules, AdmittedRows(rows, r, date), ledger, refused)
<1> DEFINE more == AdmittedRows(rows, r, date)
<1>1. \A q \in Rules, d \in Dates : q # r \/ d # date => more[q][d] = rows[q][d]
    BY AdmittedRowIs
<1>2. TablesKept(rules, more)
    BY AdmittedTables DEF Kept
<1>3. RefusalsKept(rules, more, ledger, refused)
    BY AdmittedRefusals DEF Kept, RefusalsKept
<1> HIDE DEF more
<1>4. ASSUME NEW i \in 1 .. Len(ledger) PROVE EntryKept(rules, more, ledger[i])
    <2> DEFINE e == ledger[i]
    <2>1. EntryKept(rules, rows, e) /\ e.rule \in Rules /\ e.date \in Dates
        BY EntryTyped DEF Kept, LedgerKept
    <2> HIDE DEF e
    <2>2. more[e.rule][e.date] = rows[e.rule][e.date]
        BY <1>1, <2>1 DEF EntryKept
    <2>3. EntryKept(rules, more, e)
        BY <2>1, <2>2 DEF EntryKept
    <2> QED BY <2>3 DEF e
<1>5. LedgerKept(rules, more, ledger)
    <2>1. ASSUME NEW q \in Rules, NEW d \in Dates, Owner[q] # "user", more[q][d].state = "admitted"
          PROVE  \E i \in 1 .. Len(ledger) : ledger[i].rule = q /\ ledger[i].date = d
        <3>1. rows[q][d].state = "admitted"
            BY <1>1, <2>1
        <3> QED BY <2>1, <3>1 DEF Kept, LedgerKept
    <2> QED BY <1>4, <2>1 DEF Kept, LedgerKept
<1> QED BY <1>2, <1>3, <1>5 DEF Kept, more

\* What admission reserves for an owned rule.
Reservation(rows, r, date, now) ==
    LET row == rows[r][date] IN
    [rule |-> r, date |-> date, at |-> now, hour |-> row.hour, length |-> row.length,
     bytes |-> row.bytes, revision |-> row.revision, version |-> Version, action |-> actions]

LEMMA ReservationIs ==
    ASSUME Scope, NEW rows \in AllRows, NEW r \in Rules, NEW date \in Dates,
           rows[r][date].state = "waiting", NEW now \in Nat
    PROVE  LET row == rows[r][date]
               e == Reservation(rows, r, date, now)
           IN /\ e \in Entry /\ e.rule = r /\ e.date = date /\ e.at = now
              /\ e.hour = row.hour /\ e.length = row.length /\ e.bytes = row.bytes
              /\ e.revision = row.revision /\ e.version = Version /\ e.action = actions
              /\ AdmittedRow(row) = Reserved(e)
<1>1. rows[r][date] \in Row
    BY RowTypes DEF NoRow
<1>2. Version \in Nat /\ actions \in Nat
    BY DEF Scope
<1> DEFINE row == rows[r][date]
           e == Reservation(rows, r, date, now)
<1>3. /\ row.hour \in Nat /\ row.length \in Nat \ {0} /\ row.bytes \in Nat /\ row.revision \in Nat
    BY <1>1 DEF Row
<1>4. /\ e \in Entry /\ e.rule = r /\ e.date = date /\ e.at = now
      /\ e.hour = row.hour /\ e.length = row.length /\ e.bytes = row.bytes
      /\ e.revision = row.revision /\ e.version = Version /\ e.action = actions
    BY <1>2, <1>3 DEF Reservation, Entry
<1> HIDE DEF e
<1>5. AdmittedRow(row) = Reserved(e)
    BY <1>1, <1>4 DEF AdmittedRow, Reserved, Row
<1> QED BY <1>4, <1>5 DEF e

\* A task's rule is admitted under its scope, after its grant and what was
\* admitted for it before.
TaskAdmits(r, now) ==
    Owner[r] \in Tasks =>
        LET t == task[Owner[r]] IN
        /\ t.state = "granted" /\ t.version = Version /\ t.actions = actions /\ now >= t.granted

\* The sums with a reservation that nothing refuses are inside the caps.
LEMMA ReservationInCaps ==
    ASSUME Scope, NEW rows \in AllRows, NEW ledger \in Seq(Entry),
           NEW r \in Rules, NEW date \in Dates, rows[r][date].state = "waiting", NEW now \in Nat,
           Refusals(ledger, r, date, rows[r][date]) = {}
    PROVE  LET e == Reservation(rows, r, date, now) IN
           InCaps(Append(ledger, e), e) /\ policy[e.version].capture
<1> DEFINE row == rows[r][date]
           e == Reservation(rows, r, date, now)
           more == Append(ledger, e)
<1>1. /\ e \in Entry /\ e.date = date /\ e.version = Version
      /\ e.hour = row.hour /\ e.length = row.length /\ e.bytes = row.bytes
    BY ReservationIs
<1>2. Latest.total \in Nat /\ Latest.bytes \in Nat /\ Latest.daily \in Nat /\ Latest.capture \in BOOLEAN
    <2>1. Latest \in Policies \union {FirstPolicy}
        BY DEF Scope, Latest, Version
    <2>2. Bounded(Latest)
        BY <2>1, SchedulesAssumption
    <2> QED BY <2>2 DEF Bounded
<1>3. policy[e.version] = Latest
    BY <1>1 DEF Latest
<1> HIDE DEF e
<1>4. \A why \in ByCap \union {"capture-disabled"} : ~Refuses(why, ledger, r, date, row)
    BY FirstRefusal
<1>5. Latest.capture
    BY <1>4 DEF Refuses
<1>6. /\ TotalSeconds(ledger) \in Nat /\ TotalSeconds(more) = TotalSeconds(ledger) + e.length
      /\ TotalBytes(ledger) \in Nat /\ TotalBytes(more) = TotalBytes(ledger) + e.bytes
    BY <1>1, SumsAppend
<1>7. e.length \in Nat /\ e.bytes \in Nat
    BY <1>1, EntryTyped
<1>8. TotalSeconds(more) <= Latest.total
    <2>1. ~(row.length > Latest.total - TotalSeconds(ledger))
        BY <1>4 DEF Refuses, ByCap
    <2> HIDE DEF row, more
    <2> QED BY <1>1, <1>2, <1>6, <1>7, <2>1
<1>9. TotalBytes(more) <= Latest.bytes
    <2>1. ~(row.bytes > Latest.bytes - TotalBytes(ledger))
        BY <1>4 DEF Refuses, ByCap
    <2> HIDE DEF row, more
    <2> QED BY <1>1, <1>2, <1>6, <1>7, <2>1
<1>10. ASSUME NEW day \in Days(e.date, e) PROVE DaySeconds(more, day) <= Latest.daily
    <2>1. day \in Days(date, row) /\ SecondsOn(day, date, row) = SecondsOn(day, e.date, e)
        <3> HIDE DEF row
        <3>1. Days(e.date, e) = Days(e.date, row) /\ SecondsOn(day, e.date, e) = SecondsOn(day, e.date, row)
            BY <1>1, SameWindow
        <3> QED BY <1>1, <1>10, <3>1
    <2>2. ~(SecondsOn(day, date, row) > Latest.daily - DaySeconds(ledger, day))
        BY <1>4, <2>1 DEF Refuses, ByCap
    <2>3. DaySeconds(ledger, day) \in Nat /\ DaySeconds(more, day) = DaySeconds(ledger, day) + SecondsOn(day, e.date, e)
        BY <1>1, SumsAppend
    <2>4. SecondsOn(day, e.date, e) \in Nat
        BY <1>1, EntryTyped
    <2> HIDE DEF row, more
    <2> QED BY <1>2, <2>1, <2>2, <2>3, <2>4
<1>11. InCaps(more, e)
    BY <1>3, <1>8, <1>9, <1>10 DEF InCaps
<1> QED BY <1>3, <1>5, <1>11 DEF e

\* A ledger and what it was before its last entry.
LEMMA AppendIs ==
    ASSUME NEW ledger \in Seq(Entry), NEW e \in Entry
    PROVE  LET more == Append(ledger, e)
               n == Len(ledger)
           IN /\ n \in Nat /\ more \in Seq(Entry) /\ Len(more) = n + 1 /\ more[n + 1] = e
              /\ \A i \in 1 .. n : more[i] = ledger[i] /\ SubSeq(more, 1, i) = SubSeq(ledger, 1, i)
              /\ SubSeq(more, 1, n + 1) = more
<1> DEFINE more == Append(ledger, e)
           n == Len(ledger)
<1>1. /\ n \in Nat /\ more \in Seq(Entry) /\ Len(more) = n + 1 /\ more[n + 1] = e
      /\ \A i \in 1 .. n : more[i] = ledger[i]
    OBVIOUS
<1>2. ASSUME NEW i \in 1 .. n PROVE SubSeq(more, 1, i) = SubSeq(ledger, 1, i)
    <2> HIDE DEF more, n
    <2>1. SubSeq(more, 1, i) = [k \in 1 .. i |-> more[k]] /\ SubSeq(ledger, 1, i) = [k \in 1 .. i |-> ledger[k]]
        <3>1. i \in 0 .. Len(more) /\ i \in 0 .. Len(ledger)
            BY <1>1 DEF n
        <3> QED BY <1>1, <3>1, SubSeqRestrict DEF Restrict
    <2>2. \A k \in 1 .. i : more[k] = ledger[k]
        BY <1>1
    <2> QED BY <2>1, <2>2
<1>3. SubSeq(more, 1, n + 1) = more
    <2> HIDE DEF more, n
    <2> QED BY <1>1, SubSeqFull
<1> QED BY <1>1, <1>2, <1>3

\* An owned window is admitted with its reservation.
LEMMA OwnedLedger ==
    ASSUME Scope, NEW rules \in AllRules, NEW rows \in AllRows, NEW ledger \in Seq(Entry),
           TablesKept(rules, rows), LedgerKept(rules, rows, ledger),
           NEW r \in Rules, NEW date \in Dates, rows[r][date].state = "waiting", Owner[r] # "user",
           NEW now \in Nat, Timing(date, rows[r][date], now) = "open",
           Refusals(ledger, r, date, rows[r][date]) = {}, TaskAdmits(r, now)
    PROVE  LedgerKept(rules, AdmittedRows(rows, r, date), Append(ledger, Reservation(rows, r, date, now)))
<1> DEFINE row == rows[r][date]
           e == Reservation(rows, r, date, now)
           more == AdmittedRows(rows, r, date)
           longer == Append(ledger, e)
           n == Len(ledger)
<1>1. /\ e \in Entry /\ e.rule = r /\ e.date = date /\ e.at = now
      /\ e.hour = row.hour /\ e.length = row.length /\ e.bytes = row.bytes
      /\ e.revision = row.revision /\ e.version = Version /\ e.action = actions
      /\ AdmittedRow(row) = Reserved(e)
    BY ReservationIs
<1>2. /\ row # NoRow /\ more[r][date] = AdmittedRow(row)
      /\ \A q \in Rules, d \in Dates : q # r \/ d # date => more[q][d] = rows[q][d]
    BY AdmittedRowIs
<1>3. InCaps(longer, e) /\ policy[e.version].capture
    BY ReservationInCaps
<1>4. Version \in Nat /\ Version \in 1 .. Version /\ actions \in Nat
    BY DEF Scope
<1>5. rules[r] # NoRow /\ rules[r].version \in 1 .. Version
    <2>1. RowKept(rules, rows, r, date) /\ RuleKept(rules, r)
        BY DEF TablesKept
    <2>2. rules[r] # NoRow
        BY <1>2, <2>1 DEF RowKept
    <2> QED BY <2>1, <2>2 DEF RuleKept
<1>6. e.at >= Start(e.date, e) /\ e.at < End(e.date, e)
    <2>1. Start(date, e) = Start(date, row) /\ End(date, e) = End(date, row)
        <3> HIDE DEF row, e
        <3> QED BY <1>1, SameWindow
    <2>2. ~(now < Start(date, row)) /\ ~(now >= End(date, row))
        BY DEF Timing
    <2>3. Start(e.date, e) \in Nat /\ End(e.date, e) \in Nat
        BY <1>1, EntryTyped
    <2> HIDE DEF row, e
    <2> QED BY <1>1, <2>1, <2>2, <2>3
<1> HIDE DEF row, e, more
<1>7. EntryKept(rules, more, e)
    <2>1. more[e.rule][e.date] = Reserved(e)
        BY <1>1, <1>2
    <2>2. Owner[e.rule] \in Tasks => TaskEntry(task[Owner[e.rule]], e)
        BY <1>1 DEF TaskAdmits, TaskEntry
    <2>3. e.version >= rules[e.rule].version /\ e.version \in 1 .. Version /\ e.action <= actions
        BY <1>1, <1>4, <1>5
    <2> QED BY <1>1, <1>3, <1>6, <2>1, <2>2, <2>3 DEF EntryKept
<1>8. /\ n \in Nat /\ longer \in Seq(Entry) /\ Len(longer) = n + 1 /\ longer[n + 1] = e
      /\ \A i \in 1 .. n : longer[i] = ledger[i] /\ SubSeq(longer, 1, i) = SubSeq(ledger, 1, i)
      /\ SubSeq(longer, 1, n + 1) = longer
    BY <1>1, AppendIs
<1>9. \A i \in 1 .. n : ledger[i].rule # r \/ ledger[i].date # date
    BY WaitingUnreserved
<1> HIDE DEF longer, n
<1>10. ASSUME NEW i \in 1 .. n
       PROVE  /\ ledger[i] \in Entry /\ EntryKept(rules, rows, ledger[i]) /\ EntryKept(rules, more, ledger[i])
              /\ InCaps(SubSeq(ledger, 1, i), ledger[i])
    <2>1. /\ ledger[i] \in Entry /\ EntryKept(rules, rows, ledger[i])
          /\ InCaps(SubSeq(ledger, 1, i), ledger[i])
        BY DEF LedgerKept, n
    <2> DEFINE a == ledger[i]
    <2>2. more[a.rule][a.date] = rows[a.rule][a.date]
        BY <1>2, <1>9, <2>1, EntryTyped
    <2>3. EntryKept(rules, rows, a)
        BY <2>1
    <2> HIDE DEF a
    <2>4. EntryKept(rules, more, a)
        BY <2>2, <2>3 DEF EntryKept
    <2> QED BY <2>1, <2>4 DEF a
<1>11. ASSUME NEW i \in 1 .. n + 1
       PROVE  EntryKept(rules, more, longer[i]) /\ InCaps(SubSeq(longer, 1, i), longer[i])
    <2>1. CASE i \in 1 .. n
        BY <1>8, <1>10, <2>1
    <2>2. CASE i = n + 1
        BY <1>3, <1>7, <1>8, <2>2
    <2> QED BY <1>8, <2>1, <2>2
<1>12. ASSUME NEW i \in 1 .. n + 1, NEW j \in 1 .. n + 1
       PROVE  /\ i < j => longer[i].version <= longer[j].version /\ longer[i].action <= longer[j].action
              /\ longer[i].rule = longer[j].rule /\ longer[i].date = longer[j].date => i = j
    <2>1. CASE i \in 1 .. n /\ j \in 1 .. n
        <3>1. /\ i < j => ledger[i].version <= ledger[j].version /\ ledger[i].action <= ledger[j].action
              /\ ledger[i].rule = ledger[j].rule /\ ledger[i].date = ledger[j].date => i = j
            BY <2>1 DEF LedgerKept, n
        <3> QED BY <1>8, <2>1, <3>1
    <2>2. CASE i \in 1 .. n /\ j = n + 1
        <3>1. ledger[i].version \in 1 .. Version /\ ledger[i].action <= actions
            BY <1>10, <2>2 DEF EntryKept
        <3>2. ledger[i].version <= Version
            BY <1>4, <3>1
        <3> QED BY <1>1, <1>8, <1>9, <2>2, <3>1, <3>2
    <2>3. CASE i = n + 1 /\ j \in 1 .. n
        BY <1>1, <1>8, <1>9, <2>3
    <2>4. CASE i = n + 1 /\ j = n + 1
        BY <1>8, <2>4
    <2>5. (i \in 1 .. n \/ i = n + 1) /\ (j \in 1 .. n \/ j = n + 1)
        BY <1>8
    <2> QED BY <2>1, <2>2, <2>3, <2>4, <2>5
<1>13. ASSUME NEW q \in Rules, NEW d \in Dates, Owner[q] # "user", more[q][d].state = "admitted"
       PROVE  \E i \in 1 .. n + 1 : longer[i].rule = q /\ longer[i].date = d
    <2>1. CASE q = r /\ d = date
        <3>1. longer[n + 1].rule = q /\ longer[n + 1].date = d /\ n + 1 \in 1 .. n + 1
            BY <1>1, <1>8, <2>1
        <3> QED BY <3>1
    <2>2. CASE ~(q = r /\ d = date)
        <3>1. rows[q][d].state = "admitted"
            BY <1>2, <1>13, <2>2
        <3>2. PICK i \in 1 .. n : ledger[i].rule = q /\ ledger[i].date = d
            BY <1>13, <3>1 DEF LedgerKept, n
        <3> QED BY <1>8, <3>2
    <2> QED BY <2>1, <2>2
<1>14. ASSUME NEW t \in Tasks, task[t].state = "cancelled", NEW q \in task[t].mask
       PROVE  Owner[q] = t /\ \E i \in 1 .. n + 1 : longer[i].rule = q
    <2>1. PICK i \in 1 .. n : ledger[i].rule = q
        BY <1>14 DEF LedgerKept, n
    <2>2. Owner[q] = t
        BY <1>14 DEF LedgerKept
    <2>3. i \in 1 .. n + 1 /\ longer[i].rule = q
        BY <1>8, <2>1
    <2> QED BY <2>2, <2>3
<1>15. LedgerKept(rules, more, longer)
    BY <1>8, <1>11, <1>12, <1>13, <1>14 DEF LedgerKept
<1> QED BY <1>15 DEF more, longer, e

LEMMA OwnedRefusals ==
    ASSUME Scope, NEW rules \in AllRules, NEW rows \in AllRows, NEW ledger \in Seq(Entry),
           NEW f \in Refusal, RefusalKept(rules, rows, ledger, f),
           NEW r \in Rules, NEW date \in Dates, rows[r][date].state = "waiting", NEW now \in Nat,
           Refusals(ledger, r, date, rows[r][date]) = {}
    PROVE  RefusalKept(rules, AdmittedRows(rows, r, date), Append(ledger, Reservation(rows, r, date, now)), f)
<1> DEFINE row == rows[r][date]
           e == Reservation(rows, r, date, now)
           more == AdmittedRows(rows, r, date)
           longer == Append(ledger, e)
           n == Len(ledger)
           is == more[f.rule][f.date]
<1>1. /\ e \in Entry /\ e.rule = r /\ e.date = date /\ e.revision = row.revision /\ e.version = Version
    BY ReservationIs
<1>2. RefusalKept(rules, more, ledger, f)
    BY AdmittedRefusals
<1>3. more \in AllRows /\ row # NoRow
    BY AdmittedRowIs
<1>4. f.rule \in Rules /\ f.date \in Dates
    BY DEF Refusal
<1>5. /\ n \in Nat /\ Len(longer) = n + 1 /\ longer[n + 1] = e
      /\ \A i \in 1 .. n : longer[i] = ledger[i]
    <2> HIDE DEF e
    <2> QED BY <1>1, AppendIs
<1>6. \A why \in ByCap : ~Refuses(why, ledger, r, date, row)
    BY FirstRefusal
<1> HIDE DEF e, more, n, row
<1>7. ASSUME f.why \in ByCap
      PROVE  NotAdmitted(longer, f)
    <2>1. SUFFICES ASSUME NEW i \in 1 .. n + 1,
                          /\ longer[i].rule = f.rule /\ longer[i].date = f.date
                          /\ longer[i].revision = f.revision /\ longer[i].version = f.version
                   PROVE  FALSE
        BY <1>5 DEF NotAdmitted
    <2>2. CASE i \in 1 .. n
        <3>1. NotAdmitted(ledger, f)
            BY <1>2, <1>7 DEF RefusalKept
        <3> QED BY <1>5, <2>1, <2>2, <3>1 DEF NotAdmitted, n
    <2>3. CASE i = n + 1
        <3>1. f.rule = r /\ f.date = date /\ f.revision = row.revision /\ f.version = Version
            BY <1>1, <1>5, <2>1, <2>3
        <3>2. Refuses(f.why, ledger, r, date, row)
            BY <1>3, <1>7, <3>1 DEF RefusalKept, row
        <3> QED BY <1>6, <1>7, <3>2
    <2> QED BY <1>5, <2>2, <2>3
<1>8. ASSUME f.why \in ByCap, f.version = Version, is # NoRow, is.revision = f.revision
      PROVE  Refuses(f.why, longer, f.rule, f.date, is)
    <2>1. Refuses(f.why, ledger, f.rule, f.date, is)
        BY <1>2, <1>8 DEF RefusalKept
    <2>2. is \in Row
        BY <1>3, <1>4, <1>8, RowTypes
    <2> HIDE DEF is
    <2> QED BY <1>1, <1>4, <1>8, <2>1, <2>2, RefusesMore
<1>9. RefusalKept(rules, more, longer, f)
    BY <1>2, <1>7, <1>8 DEF RefusalKept
<1> QED BY <1>9 DEF more, e

(***************************************************************************)
(* The turn of a rule, a batch and a pass.                                 *)
(***************************************************************************)
LEMMA SoundIs ==
    ASSUME NEW rules, NEW c, NEW gone, NEW pass \in Sound(rules, c, gone)
    PROVE  /\ pass \in Passes(rules) /\ pass.rules = rules /\ pass.rows \in AllRows
           /\ pass.ledger \in Seq(Entry) /\ pass.refused \in SUBSET Refusal
           /\ pass.outcome \in {"done", "quota", "failed"} /\ pass.slots \in Int /\ pass.room \in Int
           /\ Kept(rules, pass.rows, pass.ledger, pass.refused) /\ Gone(pass.rows, gone)
           /\ Untroubled(rules, c, gone) => pass.outcome # "failed"
BY DEF Sound, Passes

\* Another outcome: a failure only when something was revised or listened to.
LEMMA OutcomeKeeps ==
    ASSUME NEW rules, NEW c, NEW gone, NEW pass \in Sound(rules, c, gone),
           NEW outcome \in {"done", "quota", "failed"},
           Untroubled(rules, c, gone) => outcome # "failed"
    PROVE  [pass EXCEPT !.outcome = outcome] \in Sound(rules, c, gone)
<1> DEFINE after == [pass EXCEPT !.outcome = outcome]
<1>1. /\ after \in Passes(rules) /\ after.rows = pass.rows /\ after.ledger = pass.ledger
      /\ after.refused = pass.refused /\ after.outcome = outcome
    BY DEF Sound, Passes
<1>2. Kept(rules, pass.rows, pass.ledger, pass.refused) /\ Gone(pass.rows, gone)
    BY SoundIs
<1> HIDE DEF after
<1>3. after \in Sound(rules, c, gone)
    BY <1>1, <1>2 DEF Sound
<1> QED BY <1>3 DEF after

LEMMA DeniedSound ==
    ASSUME Scope, NEW rules \in AllRules, NEW c, NEW gone, NEW pass \in Sound(rules, c, gone), NEW r \in Rules,
           NEW date \in Dates, pass.rows[r][date].state = "waiting",
           NEW why \in Whys, Refuses(why, pass.ledger, r, date, pass.rows[r][date])
    PROVE  Denied(pass, r, date, why) \in Sound(rules, c, gone)
<1> DEFINE f == [rule |-> r, date |-> date, revision |-> pass.rows[r][date].revision,
                 version |-> Version, why |-> why]
           more == pass.refused \union {f}
           after == [pass EXCEPT !.refused = more]
<1>1. Denied(pass, r, date, why) = after
    BY SoundIs DEF Denied, Passes
<1>2. more \in SUBSET Refusal /\ Kept(rules, pass.rows, pass.ledger, more)
    <2>1. /\ pass.rows \in AllRows /\ pass.ledger \in Seq(Entry) /\ pass.refused \in SUBSET Refusal
          /\ Kept(rules, pass.rows, pass.ledger, pass.refused)
        BY SoundIs
    <2> QED BY <2>1, DenyKeeps
<1> HIDE DEF more
<1>3. /\ after \in Passes(rules) /\ after.rows = pass.rows /\ after.ledger = pass.ledger
      /\ after.refused = more /\ after.outcome = pass.outcome
    BY <1>2, SoundIs DEF Passes
<1> HIDE DEF after
<1>4. after \in Sound(rules, c, gone)
    BY <1>2, <1>3, SoundIs DEF Sound
<1> QED BY <1>1, <1>4

LEMMA AdmittedSound ==
    ASSUME Scope, NEW rules \in AllRules, NEW c, NEW gone, NEW pass \in Sound(rules, c, gone), NEW r \in Rules,
           NEW date \in Dates, pass.rows[r][date].state = "waiting",
           NEW now \in Nat, Timing(date, pass.rows[r][date], now) = "open",
           Owner[r] # "user" => Refusals(pass.ledger, r, date, pass.rows[r][date]) = {},
           TaskAdmits(r, now), <<r, date>> \notin recorded
    PROVE  Admitted(pass, r, date, now) \in Sound(rules, c, gone)
<1> DEFINE rows == pass.rows
           row == rows[r][date]
           e == Reservation(rows, r, date, now)
           more == AdmittedRows(rows, r, date)
           longer == IF Owner[r] = "user" THEN pass.ledger ELSE Append(pass.ledger, e)
           after == [pass EXCEPT !.rows = more, !.slots = pass.slots - 1, !.room = pass.room - row.bytes,
                                 !.ledger = longer]
<1>1. /\ rows \in AllRows /\ pass.ledger \in Seq(Entry) /\ pass.refused \in SUBSET Refusal
      /\ pass.slots \in Int /\ pass.room \in Int /\ pass.rules = rules /\ pass \in Passes(rules)
      /\ Kept(rules, rows, pass.ledger, pass.refused)
    BY SoundIs
<1>2. Admitted(pass, r, date, now) = after
    BY <1>1 DEF Admitted, Passes, AdmittedRows, AdmittedRow, Written, AllRows, Reservation
<1>3. more \in AllRows /\ row.bytes \in Int
    <2>1. row \in Row
        BY <1>1, AdmittedRowIs
    <2>2. more \in AllRows
        BY <1>1, AdmittedRowIs
    <2> QED BY <2>1, <2>2 DEF Row
<1>4. e \in Entry
    BY <1>1, ReservationIs
<1>5. longer \in Seq(Entry)
    <2> HIDE DEF e
    <2> QED BY <1>1, <1>4
<1>6. Kept(rules, more, longer, pass.refused)
    <2>1. CASE Owner[r] = "user"
        <3>1. Kept(rules, more, pass.ledger, pass.refused)
            BY <1>1, <2>1, UserAdmitKeeps
        <3> QED BY <2>1, <3>1
    <2>2. CASE Owner[r] # "user"
        <3>1. TablesKept(rules, more)
            BY <1>1, AdmittedTables DEF Kept
        <3>2. LedgerKept(rules, more, Append(pass.ledger, e))
            BY <1>1, <2>2, OwnedLedger DEF Kept
        <3>3. RefusalsKept(rules, more, Append(pass.ledger, e), pass.refused)
            <4>1. ASSUME NEW f \in pass.refused
                  PROVE  RefusalKept(rules, more, Append(pass.ledger, e), f)
                <5>1. f \in Refusal /\ RefusalKept(rules, rows, pass.ledger, f)
                    BY <1>1 DEF Kept, RefusalsKept
                <5> QED BY <1>1, <2>2, <5>1, OwnedRefusals
            <4> QED BY <4>1 DEF RefusalsKept
        <3> HIDE DEF more, e
        <3>4. longer = Append(pass.ledger, e)
            BY <2>2
        <3> QED BY <3>1, <3>2, <3>3, <3>4 DEF Kept
    <2> QED BY <2>1, <2>2
<1>7. Gone(more, gone)
    <2>1. \A q \in Rules, d \in Dates : q # r \/ d # date => more[q][d] = rows[q][d]
        BY <1>1, AdmittedRowIs
    <2>2. Gone(rows, gone)
        BY SoundIs
    <2> HIDE DEF more
    <2>3. RowsFinal(rows, more)
        <3>1. ASSUME NEW q \in Rules, NEW d \in Dates, rows[q][d].state \in {"missed", "admitted"}
              PROVE  more[q][d] = rows[q][d]
            <4>1. q # r \/ d # date
                BY <3>1
            <4> QED BY <2>1, <4>1
        <3> QED BY <3>1 DEF RowsFinal
    <2> HIDE DEF rows
    <2> QED BY <2>2, <2>3, GoneStays
<1> HIDE DEF more, longer, row
<1> DEFINE slots == pass.slots - 1
           room == pass.room - row.bytes
<1>8. slots \in Int /\ room \in Int
    BY <1>1, <1>3
<1> HIDE DEF slots, room
<1>9. /\ after \in Passes(rules) /\ after.rows = more /\ after.ledger = longer
      /\ after.refused = pass.refused /\ after.outcome = pass.outcome
    <2>1. after = [pass EXCEPT !.rows = more, !.slots = slots, !.room = room, !.ledger = longer]
        BY DEF slots, room
    <2> QED BY <1>1, <1>3, <1>5, <1>8, <2>1 DEF Passes
<1> HIDE DEF after
<1>10. after \in Sound(rules, c, gone)
    BY <1>6, <1>9, <1>7, SoundIs DEF Sound
<1> QED BY <1>2, <1>10

LEMMA AdmitSound ==
    ASSUME Scope, NEW rules \in AllRules, NEW c, NEW gone, NEW pass \in Sound(rules, c, gone), NEW r \in Rules,
           NEW date \in Dates, pass.rows[r][date].state = "waiting",
           NEW now \in Nat, Timing(date, pass.rows[r][date], now) = "open"
    PROVE  Admit(pass, r, date, now, c) \in Sound(rules, c, gone)
<1> DEFINE row == pass.rows[r][date]
           reasons == IF Owner[r] = "user" THEN {} ELSE Refusals(pass.ledger, r, date, row)
           held == Owner[r] \in Tasks /\ ~CollectionAdmits(pass.ledger, Owner[r], now, c)
           result == Admit(pass, r, date, now, c)
<1>1. /\ held => result = pass
      /\ ~held /\ reasons # {} => result = Denied(pass, r, date, Reasons[Min(reasons)])
      /\ ~held /\ reasons = {} /\ Conflicts(r, date, c) => result = [pass EXCEPT !.outcome = "failed"]
      /\ ~held /\ reasons = {} /\ ~Conflicts(r, date, c) =>
            \/ result = pass
            \/ result = [pass EXCEPT !.outcome = "quota"]
            \/ result = Admitted(pass, r, date, now)
    BY DEF Admit
<1> HIDE DEF result
<1>2. ASSUME held
      PROVE  result \in Sound(rules, c, gone)
    BY <1>1, <1>2
<1>3. ASSUME ~held, reasons # {}
      PROVE  result \in Sound(rules, c, gone)
    <2>1. reasons = Refusals(pass.ledger, r, date, row)
        BY <1>3
    <2>2. Reasons[Min(reasons)] \in Whys /\ Refuses(Reasons[Min(reasons)], pass.ledger, r, date, row)
        BY <1>3, <2>1, FirstRefusal
    <2> QED BY <1>1, <1>3, <2>2, DeniedSound
<1>4. ASSUME ~held, reasons = {}, Conflicts(r, date, c)
      PROVE  result \in Sound(rules, c, gone)
    <2>1. ~Untroubled(rules, c, gone)
        <3>1. CASE Source[r] \in c.listening
            BY <3>1 DEF Untroubled
        <3>2. CASE <<r, date>> \in recorded
            <4>1. rules[r] # NoRow
                <5>1. pass.rows \in AllRows /\ RowKept(rules, pass.rows, r, date)
                    BY SoundIs DEF Kept, TablesKept
                <5>2. pass.rows[r][date] # NoRow
                    BY <5>1 DEF NoRow
                <5> QED BY <5>1, <5>2 DEF RowKept
            <4>2. <<r, date>> \notin gone
                BY SoundIs DEF Gone
            <4> QED BY <3>2, <4>1, <4>2 DEF Untroubled
        <3> QED BY <1>4, <3>1, <3>2 DEF Conflicts
    <2>2. [pass EXCEPT !.outcome = "failed"] \in Sound(rules, c, gone)
        BY <2>1, OutcomeKeeps
    <2> QED BY <1>1, <1>4, <2>2
<1>5. ASSUME ~held, reasons = {}, ~Conflicts(r, date, c)
      PROVE  result \in Sound(rules, c, gone)
    <2>1. Untroubled(rules, c, gone) => "quota" # "failed"
        OBVIOUS
    <2>2. [pass EXCEPT !.outcome = "quota"] \in Sound(rules, c, gone)
        BY <2>1, OutcomeKeeps
    <2>3. TaskAdmits(r, now)
        BY <1>5 DEF TaskAdmits, CollectionAdmits, ScopeCurrent, InOrder
    <2>4. Owner[r] # "user" => Refusals(pass.ledger, r, date, row) = {}
        BY <1>5
    <2>5. <<r, date>> \notin recorded
        BY <1>5 DEF Conflicts
    <2>6. Admitted(pass, r, date, now) \in Sound(rules, c, gone)
        BY <2>3, <2>4, <2>5, AdmittedSound
    <2> QED BY <1>1, <1>5, <2>2, <2>6
<1>6. result \in Sound(rules, c, gone)
    BY <1>2, <1>3, <1>4, <1>5
<1> QED BY <1>6 DEF result

LEMMA AdmitOpenSound ==
    ASSUME Scope, NEW rules \in AllRules, NEW c, NEW gone, NEW pass \in Sound(rules, c, gone),
           NEW r \in Rules, NEW now \in Nat
    PROVE  AdmitOpen(pass, r, Waiting(pass.rows, r, now, "open"), now, c) \in Sound(rules, c, gone)
<1> DEFINE open == Waiting(pass.rows, r, now, "open")
           date == Min(open)
<1>1. AdmitOpen(pass, r, open, now, c) \in {pass, Admit(pass, r, date, now, c)}
    BY DEF AdmitOpen
<1>2. open = {} => AdmitOpen(pass, r, open, now, c) = pass
    BY DEF AdmitOpen
<1>3. ASSUME open # {}
      PROVE  Admit(pass, r, date, now, c) \in Sound(rules, c, gone)
    <2>1. open \in SUBSET Nat /\ open \subseteq Dates
        BY SchedulesAssumption DEF Waiting, Rows
    <2>2. date \in open
        <3> HIDE DEF open
        <3> QED BY <1>3, <2>1, SmallestIn
    <2>3. /\ date \in Dates /\ pass.rows[r][date].state = "waiting"
          /\ Timing(date, pass.rows[r][date], now) = "open"
        BY <2>2 DEF Waiting, Rows
    <2> HIDE DEF date
    <2> QED BY <2>3, AdmitSound
<1> HIDE DEF open, date
<1> QED BY <1>1, <1>2, <1>3 DEF open

LEMMA ReconcileSound ==
    ASSUME Scope, NEW rules \in AllRules, NEW c, NEW gone, NEW pass \in Sound(rules, c, gone), NEW r \in Rules,
           rules[r] # NoRow, NEW now \in Nat, NEW admit
    PROVE  ReconcileRule(pass, r, now, c, admit) \in Sound(rules, c, gone)
<1> DEFINE ended == Waiting(pass.rows, r, now, "ended")
           rows == MarkedMissed(pass.rows, r, ended)
           stored == StoreAfter(pass, r, rows, now)
           opened == AdmitOpen(stored, r, Waiting(stored.rows, r, now, "open"), now, c)
<1>1. ReconcileRule(pass, r, now, c, admit) \in {stored, opened}
    BY DEF ReconcileRule
<1>2. rows \in AllRows /\ Kept(rules, rows, pass.ledger, pass.refused) /\ Gone(rows, gone)
    <2>1. /\ pass.rows \in AllRows /\ pass.ledger \in Seq(Entry) /\ pass.refused \in SUBSET Refusal
          /\ Kept(rules, pass.rows, pass.ledger, pass.refused) /\ Gone(pass.rows, gone)
        BY SoundIs
    <2>2. RowsFinal(pass.rows, rows)
        BY <2>1, MissFinal
    <2>3. rows \in AllRows /\ Kept(rules, rows, pass.ledger, pass.refused)
        BY <2>1, MissKeeps
    <2> HIDE DEF rows
    <2> QED BY <2>1, <2>2, <2>3, GoneStays
<1> HIDE DEF rows
<1>3. stored \in Sound(rules, c, gone)
    BY <1>2, StoreKeeps
<1> HIDE DEF stored
<1>4. opened \in Sound(rules, c, gone)
    BY <1>3, AdmitOpenSound
<1> QED BY <1>1, <1>3, <1>4

LEMMA TurnSound ==
    ASSUME Scope, NEW rules \in AllRules, NEW c, NEW gone, NEW pass \in Sound(rules, c, gone), NEW r \in Rules,
           NEW now \in Nat, NEW admit
    PROVE  RuleTurn(pass, r, now, c, admit) \in Sound(rules, c, gone)
<1> DEFINE after == ReconcileRule(pass, r, now, c, admit)
<1>1. CASE pass.outcome # "done" \/ pass.rules[r] = NoRow
    BY <1>1 DEF RuleTurn
<1>2. CASE ~(pass.outcome # "done" \/ pass.rules[r] = NoRow)
    <2>1. rules[r] # NoRow
        BY <1>2, SoundIs
    <2>2. after \in Sound(rules, c, gone)
        BY <2>1, ReconcileSound
    <2>3. RuleTurn(pass, r, now, c, admit) = Savepoint(pass, after)
        BY <1>2 DEF RuleTurn
    <2> HIDE DEF after
    <2>4. /\ after.outcome \in {"done", "quota", "failed"}
          /\ Untroubled(rules, c, gone) => after.outcome # "failed"
        BY <2>2, SoundIs
    <2>5. [pass EXCEPT !.outcome = after.outcome] \in Sound(rules, c, gone)
        BY <2>4, OutcomeKeeps
    <2>6. Savepoint(pass, after) \in Sound(rules, c, gone)
        BY <2>2, <2>5 DEF Savepoint
    <2> QED BY <2>3, <2>6
<1> QED BY <1>1, <1>2

LEMMA ReconciledSound ==
    ASSUME Scope, NEW rules \in AllRules, NEW c, NEW gone, NEW pass \in Sound(rules, c, gone),
           NEW now \in Nat, NEW admit
    PROVE  Reconciled(pass, now, c, admit) \in Sound(rules, c, gone)
<1> DEFINE last == Batch(pass, now, c, admit)[Rules]
           Good == Sound(rules, c, gone)
<1>1. \A p \in Good, r \in Rules : RuleTurn(p, r, now, c, admit) \in Good
    BY TurnSound
<1>2. pass \in Good
    OBVIOUS
<1> HIDE DEF Good
<1>3. last \in Good
    BY <1>1, <1>2, BatchKeeps
<1>4. last \in Sound(rules, c, gone)
    BY <1>3 DEF Good
<1> HIDE DEF last
<1>5. Closed(pass, last) \in Sound(rules, c, gone)
    <2>1. CASE last.outcome = "failed"
        <3>1. Untroubled(rules, c, gone) => "failed" # "failed"
            BY <1>4, <2>1, SoundIs
        <3>2. [pass EXCEPT !.outcome = "failed"] \in Sound(rules, c, gone)
            BY <3>1, OutcomeKeeps
        <3> QED BY <2>1, <3>2 DEF Closed
    <2>2. CASE last.outcome # "failed"
        BY <1>4, <2>2 DEF Closed
    <2> QED BY <2>1, <2>2
<1>6. Reconciled(pass, now, c, admit) = Closed(pass, last)
    BY ReconciledIsBatch DEF last
<1> QED BY <1>5, <1>6

\* A whole pass may also fail because no space can be reclaimed.
Settled(rules, c, gone) ==
    {pass \in Passes(rules) :
        /\ Kept(rules, pass.rows, pass.ledger, pass.refused) /\ Gone(pass.rows, gone)
        /\ Untroubled(rules, c, gone) /\ c.reclaimed > 0 => pass.outcome # "failed"}

LEMMA SoundSettles ==
    ASSUME NEW rules, NEW c, NEW gone, NEW pass \in Sound(rules, c, gone)
    PROVE  pass \in Settled(rules, c, gone)
BY DEF Sound, Settled

\* What the second batch begins with.
Again(first, c) == [first EXCEPT !.outcome = "done", !.room = c.reclaimed]

\* A pass is its first batch, or that with a failure or a second one after it.
LEMMA PassCases ==
    ASSUME NEW c \in Conditions, NEW pass, NEW now
    PROVE  LET first == Reconciled(pass, now, c, c.admit)
           IN \/ first.outcome # "quota" /\ Pass(pass, now, c) = first
              \/ c.reclaimed = 0 /\ Pass(pass, now, c) = [first EXCEPT !.outcome = "failed"]
              \/ /\ c.reclaimed > 0
                 /\ Pass(pass, now, c) = Reconciled(Again(first, c), now, c, TRUE)
<1> DEFINE first == Reconciled(pass, now, c, c.admit)
           second == Reconciled(Again(first, c), now, c, TRUE)
<1>1. Pass(pass, now, c) = Retried(first, now, c)
    BY DEF Pass
<1>2. c.reclaimed \in Nat
    BY SchedulesAssumption DEF Found
<1> HIDE DEF first
<1>3. c.reclaimed # 0 => c.reclaimed > 0
    BY <1>2
<1>4. ASSUME first.outcome # "quota" PROVE Retried(first, now, c) = first
    BY <1>4 DEF Retried
<1>5. ASSUME first.outcome = "quota", c.reclaimed = 0
      PROVE  Retried(first, now, c) = [first EXCEPT !.outcome = "failed"]
    BY <1>5 DEF Retried
<1>6. ASSUME first.outcome = "quota", c.reclaimed # 0 PROVE Retried(first, now, c) = second
    BY <1>3, <1>6 DEF Retried, Again
<1> HIDE DEF second
<1>7. \/ first.outcome # "quota" /\ Pass(pass, now, c) = first
      \/ c.reclaimed = 0 /\ Pass(pass, now, c) = [first EXCEPT !.outcome = "failed"]
      \/ c.reclaimed > 0 /\ Pass(pass, now, c) = second
    BY <1>1, <1>3, <1>4, <1>5, <1>6
<1> QED BY <1>7 DEF first, second

LEMMA AgainSound ==
    ASSUME NEW rules, NEW c \in Conditions, NEW gone, NEW first \in Sound(rules, c, gone)
    PROVE  /\ Again(first, c) \in Sound(rules, c, gone) /\ Again(first, c).rows = first.rows
           /\ Again(first, c).ledger = first.ledger /\ Again(first, c).refused = first.refused
<1> DEFINE room == c.reclaimed
           again == [first EXCEPT !.outcome = "done", !.room = room]
<1>1. room \in Int
    BY SchedulesAssumption DEF Found
<1> HIDE DEF room
<1>2. first \in Passes(rules)
    BY SoundIs
<1>3. /\ again \in Passes(rules) /\ again.rows = first.rows /\ again.ledger = first.ledger
      /\ again.refused = first.refused /\ again.outcome = "done"
    BY <1>1, <1>2 DEF Passes
<1>4. Kept(rules, first.rows, first.ledger, first.refused) /\ Gone(first.rows, gone)
    BY SoundIs
<1> HIDE DEF again
<1>5. again \in Sound(rules, c, gone)
    BY <1>3, <1>4 DEF Sound
<1>6. again = Again(first, c)
    BY DEF again, room, Again
<1> QED BY <1>3, <1>5, <1>6

LEMMA PassSettles ==
    ASSUME Scope, NEW rules \in AllRules, NEW c \in Conditions, NEW gone, NEW pass \in Sound(rules, c, gone),
           NEW now \in Nat
    PROVE  Pass(pass, now, c) \in Settled(rules, c, gone)
<1> DEFINE first == Reconciled(pass, now, c, c.admit)
           again == Again(first, c)
           second == Reconciled(again, now, c, TRUE)
           none == [first EXCEPT !.outcome = "failed"]
<1>1. first \in Sound(rules, c, gone)
    BY ReconciledSound
<1>2. \/ Pass(pass, now, c) = first
      \/ c.reclaimed = 0 /\ Pass(pass, now, c) = none
      \/ Pass(pass, now, c) = second
    BY PassCases
<1> HIDE DEF first
<1>3. again \in Sound(rules, c, gone)
    BY <1>1, AgainSound
<1> HIDE DEF again
<1>4. second \in Sound(rules, c, gone)
    BY <1>3, ReconciledSound
<1> HIDE DEF second
<1>5. c.reclaimed = 0 => none \in Settled(rules, c, gone)
    <2>1. /\ none \in Passes(rules) /\ none.rows = first.rows /\ none.ledger = first.ledger
          /\ none.refused = first.refused
        BY <1>1 DEF Sound, Passes
    <2>2. Kept(rules, first.rows, first.ledger, first.refused) /\ Gone(first.rows, gone)
        BY <1>1, SoundIs
    <2> HIDE DEF none
    <2> QED BY <2>1, <2>2 DEF Settled
<1> QED BY <1>1, <1>2, <1>4, <1>5, SoundSettles

LEMMA SettledIs ==
    ASSUME NEW rules, NEW c, NEW gone, NEW pass \in Settled(rules, c, gone)
    PROVE  /\ pass.rules = rules /\ pass.rows \in AllRows
           /\ pass.ledger \in Seq(Entry) /\ pass.refused \in SUBSET Refusal
           /\ Kept(rules, pass.rows, pass.ledger, pass.refused)
           /\ Untroubled(rules, c, gone) /\ c.reclaimed > 0 => pass.outcome # "failed"
BY DEF Settled, Passes

(***************************************************************************)
(* What was decided stays decided. An occurrence that was admitted or      *)
(* missed keeps its row, reservations and refusals are only added: each    *)
(* thing a turn does extends what the pass carries, and so does the batch. *)
(***************************************************************************)
Extended(few, many) ==
    /\ Len(few) <= Len(many)
    /\ \A i \in 1 .. Len(few) : many[i] = few[i]

Onward(rows, ledger, refused, pass) ==
    RowsFinal(rows, pass.rows) /\ Extended(ledger, pass.ledger) /\ refused \subseteq pass.refused

LEMMA ExtendedOnward ==
    ASSUME NEW T, NEW a \in Seq(T), NEW b \in Seq(T), NEW c \in Seq(T), Extended(a, b), Extended(b, c)
    PROVE  Extended(a, a) /\ Extended(a, c)
<1>1. Len(a) \in Nat /\ Len(b) \in Nat /\ Len(c) \in Nat
    OBVIOUS
<1> QED BY <1>1 DEF Extended

LEMMA SameExtended ==
    ASSUME NEW T, NEW a \in Seq(T)
    PROVE  Extended(a, a)
<1>1. Len(a) \in Nat
    OBVIOUS
<1> QED BY <1>1 DEF Extended

\* A chain of such changes is one.
LEMMA OnwardOn ==
    ASSUME NEW rows, NEW ledger \in Seq(Entry), NEW refused,
           NEW rules, NEW c, NEW gone, NEW pass \in Sound(rules, c, gone), NEW after \in Sound(rules, c, gone),
           Onward(rows, ledger, refused, pass),
           Onward(pass.rows, pass.ledger, pass.refused, after)
    PROVE  Onward(rows, ledger, refused, after)
<1>1. pass.ledger \in Seq(Entry) /\ after.ledger \in Seq(Entry)
    BY SoundIs
<1>2. Extended(ledger, after.ledger)
    BY <1>1, ExtendedOnward DEF Onward
<1>3. RowsFinal(rows, after.rows)
    <2>1. ASSUME NEW r \in Rules, NEW date \in Dates, rows[r][date].state \in {"missed", "admitted"}
          PROVE  after.rows[r][date] = rows[r][date]
        BY <2>1 DEF Onward, RowsFinal
    <2> QED BY <2>1 DEF RowsFinal
<1> QED BY <1>2, <1>3 DEF Onward

LEMMA OnwardSame ==
    ASSUME NEW rules, NEW c, NEW gone, NEW pass \in Sound(rules, c, gone), NEW after,
           after.rows = pass.rows, after.ledger = pass.ledger, pass.refused \subseteq after.refused
    PROVE  Onward(pass.rows, pass.ledger, pass.refused, after)
<1>1. pass.ledger \in Seq(Entry)
    BY SoundIs
<1> QED BY <1>1, SameExtended DEF Onward, RowsFinal

LEMMA OutcomeOnward ==
    ASSUME NEW rules, NEW c, NEW gone, NEW pass \in Sound(rules, c, gone), NEW outcome
    PROVE  Onward(pass.rows, pass.ledger, pass.refused, [pass EXCEPT !.outcome = outcome])
<1> DEFINE after == [pass EXCEPT !.outcome = outcome]
<1>1. after.rows = pass.rows /\ after.ledger = pass.ledger /\ after.refused = pass.refused
    BY DEF Sound, Passes
<1> HIDE DEF after
<1>2. Onward(pass.rows, pass.ledger, pass.refused, after)
    BY <1>1, OnwardSame
<1> QED BY <1>2 DEF after

LEMMA DeniedOnward ==
    ASSUME NEW rules, NEW c, NEW gone, NEW pass \in Sound(rules, c, gone), NEW r, NEW date, NEW why
    PROVE  Onward(pass.rows, pass.ledger, pass.refused, Denied(pass, r, date, why))
<1> DEFINE after == Denied(pass, r, date, why)
<1>1. after.rows = pass.rows /\ after.ledger = pass.ledger /\ pass.refused \subseteq after.refused
    BY DEF Denied, Sound, Passes
<1> HIDE DEF after
<1>2. Onward(pass.rows, pass.ledger, pass.refused, after)
    BY <1>1, OnwardSame
<1> QED BY <1>2 DEF after

LEMMA AdmittedOnward ==
    ASSUME Scope, NEW rules, NEW c, NEW gone, NEW pass \in Sound(rules, c, gone), NEW r \in Rules,
           NEW date \in Dates, pass.rows[r][date].state = "waiting", NEW now \in Nat
    PROVE  Onward(pass.rows, pass.ledger, pass.refused, Admitted(pass, r, date, now))
<1> DEFINE rows == pass.rows
           e == Reservation(rows, r, date, now)
           more == AdmittedRows(rows, r, date)
           longer == IF Owner[r] = "user" THEN pass.ledger ELSE Append(pass.ledger, e)
           after == Admitted(pass, r, date, now)
<1>1. rows \in AllRows /\ pass.ledger \in Seq(Entry) /\ pass \in Passes(rules)
    BY SoundIs
<1>2. after.rows = more /\ after.ledger = longer /\ after.refused = pass.refused
    BY <1>1 DEF Admitted, Passes, AdmittedRows, AdmittedRow, Written, AllRows, Reservation
<1> HIDE DEF after
<1>3. \A q \in Rules, d \in Dates : q # r \/ d # date => more[q][d] = rows[q][d]
    BY <1>1, AdmittedRowIs
<1>4. e \in Entry
    BY <1>1, ReservationIs
<1> HIDE DEF e, more
<1>5. Extended(pass.ledger, longer)
    <2>1. Extended(pass.ledger, pass.ledger)
        BY <1>1, SameExtended
    <2>2. Extended(pass.ledger, Append(pass.ledger, e))
        BY <1>1, <1>4, AppendIs DEF Extended
    <2> QED BY <2>1, <2>2
<1>6. RowsFinal(rows, more)
    <2>1. ASSUME NEW q \in Rules, NEW d \in Dates, rows[q][d].state \in {"missed", "admitted"}
          PROVE  more[q][d] = rows[q][d]
        <3>1. q # r \/ d # date
            BY <2>1
        <3> QED BY <1>3, <3>1
    <2> QED BY <2>1 DEF RowsFinal
<1>7. Onward(rows, pass.ledger, pass.refused, after)
    BY <1>2, <1>5, <1>6 DEF Onward
<1> QED BY <1>7 DEF after

LEMMA AdmitOnward ==
    ASSUME Scope, NEW rules, NEW c, NEW gone, NEW pass \in Sound(rules, c, gone), NEW r \in Rules,
           NEW date \in Dates, pass.rows[r][date].state = "waiting", NEW now \in Nat
    PROVE  Onward(pass.rows, pass.ledger, pass.refused, Admit(pass, r, date, now, c))
<1> DEFINE result == Admit(pass, r, date, now, c)
<1>1. \/ result = pass
      \/ \E why : result = Denied(pass, r, date, why)
      \/ \E outcome : result = [pass EXCEPT !.outcome = outcome]
      \/ result = Admitted(pass, r, date, now)
    BY DEF Admit
<1> HIDE DEF result
<1>2. ASSUME result = pass PROVE Onward(pass.rows, pass.ledger, pass.refused, result)
    BY <1>2, OnwardSame
<1>3. ASSUME NEW why, result = Denied(pass, r, date, why)
      PROVE  Onward(pass.rows, pass.ledger, pass.refused, result)
    BY <1>3, DeniedOnward
<1>4. ASSUME NEW outcome, result = [pass EXCEPT !.outcome = outcome]
      PROVE  Onward(pass.rows, pass.ledger, pass.refused, result)
    BY <1>4, OutcomeOnward
<1>5. ASSUME result = Admitted(pass, r, date, now)
      PROVE  Onward(pass.rows, pass.ledger, pass.refused, result)
    BY <1>5, AdmittedOnward
<1>6. Onward(pass.rows, pass.ledger, pass.refused, result)
    BY <1>1, <1>2, <1>3, <1>4, <1>5
<1> QED BY <1>6 DEF result

LEMMA FinalOn ==
    ASSUME NEW rows, NEW more, NEW most, RowsFinal(rows, more), RowsFinal(more, most)
    PROVE  RowsFinal(rows, most)
<1>1. ASSUME NEW r \in Rules, NEW date \in Dates, rows[r][date].state \in {"missed", "admitted"}
      PROVE  most[r][date] = rows[r][date]
    BY <1>1 DEF RowsFinal
<1> QED BY <1>1 DEF RowsFinal

LEMMA StoreOnward ==
    ASSUME NEW rules \in AllRules, NEW c, NEW gone, NEW pass \in Sound(rules, c, gone),
           NEW r \in Rules, rules[r] # NoRow,
           NEW rows \in AllRows, RowsFinal(pass.rows, rows), NEW now
    PROVE  Onward(pass.rows, pass.ledger, pass.refused, StoreAfter(pass, r, rows, now))
<1> DEFINE dates == Materializes(rows, r, rules[r], now)
           more == Materialized(rows, r, rules[r], now)
           after == StoreAfter(pass, r, rows, now)
<1>1. pass \in Passes(rules) /\ pass.rules = rules /\ pass.ledger \in Seq(Entry)
    BY SoundIs
<1>2. /\ after.ledger = pass.ledger /\ after.refused = pass.refused
      /\ Inserts(rows, r, dates) => after.rows = more
      /\ ~Inserts(rows, r, dates) => after.rows = rows
    BY <1>1 DEF StoreAfter, StoreNext, Materialized, Passes
<1>3. Inserts(rows, r, dates) => RowsFinal(rows, more)
    BY InsertFinal
<1> HIDE DEF after, more, dates
<1>4. RowsFinal(pass.rows, after.rows)
    BY <1>2, <1>3, FinalOn
<1>5. Extended(pass.ledger, after.ledger)
    BY <1>1, <1>2, SameExtended
<1>6. Onward(pass.rows, pass.ledger, pass.refused, after)
    BY <1>2, <1>4, <1>5 DEF Onward
<1> QED BY <1>6 DEF after

LEMMA ReconcileOnward ==
    ASSUME Scope, NEW rules \in AllRules, NEW c, NEW gone, NEW pass \in Sound(rules, c, gone), NEW r \in Rules,
           rules[r] # NoRow, NEW now \in Nat, NEW admit
    PROVE  Onward(pass.rows, pass.ledger, pass.refused, ReconcileRule(pass, r, now, c, admit))
<1> DEFINE ended == Waiting(pass.rows, r, now, "ended")
           rows == MarkedMissed(pass.rows, r, ended)
           stored == StoreAfter(pass, r, rows, now)
           open == Waiting(stored.rows, r, now, "open")
           date == Min(open)
           opened == AdmitOpen(stored, r, open, now, c)
<1>1. ReconcileRule(pass, r, now, c, admit) \in {stored, opened}
    BY DEF ReconcileRule
<1>2. /\ rows \in AllRows /\ Kept(rules, rows, pass.ledger, pass.refused) /\ RowsFinal(pass.rows, rows)
      /\ pass.ledger \in Seq(Entry) /\ Gone(rows, gone)
    <2>1. /\ pass.rows \in AllRows /\ pass.ledger \in Seq(Entry) /\ pass.refused \in SUBSET Refusal
          /\ Kept(rules, pass.rows, pass.ledger, pass.refused) /\ Gone(pass.rows, gone)
        BY SoundIs
    <2>2. rows \in AllRows /\ Kept(rules, rows, pass.ledger, pass.refused)
        BY <2>1, MissKeeps
    <2>3. RowsFinal(pass.rows, rows)
        BY <2>1, MissFinal
    <2> HIDE DEF rows
    <2> QED BY <2>1, <2>2, <2>3, GoneStays
<1> HIDE DEF rows
<1>3. stored \in Sound(rules, c, gone) /\ Onward(pass.rows, pass.ledger, pass.refused, stored)
    BY <1>2, StoreKeeps, StoreOnward
<1> HIDE DEF stored
<1>4. opened \in Sound(rules, c, gone)
    BY <1>3, AdmitOpenSound
<1>5. Onward(stored.rows, stored.ledger, stored.refused, opened)
    <2>1. CASE stored.outcome # "done" \/ open = {}
        <3>1. opened = stored
            BY <2>1 DEF AdmitOpen
        <3> QED BY <1>3, <3>1, OnwardSame
    <2>2. CASE ~(stored.outcome # "done" \/ open = {})
        <3>1. opened = Admit(stored, r, date, now, c)
            BY <2>2 DEF AdmitOpen
        <3>2. open \in SUBSET Nat /\ open \subseteq Dates
            BY SchedulesAssumption DEF Waiting, Rows
        <3>3. date \in open
            <4> HIDE DEF open
            <4> QED BY <2>2, <3>2, SmallestIn
        <3>4. date \in Dates /\ stored.rows[r][date].state = "waiting"
            BY <3>3 DEF Waiting, Rows
        <3> HIDE DEF date, open, opened
        <3> QED BY <1>3, <3>1, <3>4, AdmitOnward
    <2> QED BY <2>1, <2>2
<1> HIDE DEF opened
<1>6. Onward(pass.rows, pass.ledger, pass.refused, opened)
    BY <1>2, <1>3, <1>4, <1>5, OnwardOn
<1> QED BY <1>1, <1>3, <1>6

LEMMA TurnOnward ==
    ASSUME Scope, NEW rules \in AllRules, NEW c, NEW gone, NEW pass \in Sound(rules, c, gone), NEW r \in Rules,
           NEW now \in Nat, NEW admit
    PROVE  Onward(pass.rows, pass.ledger, pass.refused, RuleTurn(pass, r, now, c, admit))
<1> DEFINE after == ReconcileRule(pass, r, now, c, admit)
           result == RuleTurn(pass, r, now, c, admit)
<1>1. \/ result = pass
      \/ result = [pass EXCEPT !.outcome = after.outcome]
      \/ result = after /\ pass.rules[r] # NoRow
    BY DEF RuleTurn, Savepoint
<1>2. rules[r] # NoRow => Onward(pass.rows, pass.ledger, pass.refused, after)
    BY ReconcileOnward
<1>3. pass.rules = rules
    BY SoundIs
<1> HIDE DEF after, result
<1>4. Onward(pass.rows, pass.ledger, pass.refused, result)
    BY <1>1, <1>2, <1>3, OnwardSame, OutcomeOnward
<1> QED BY <1>4 DEF result

LEMMA ReconciledOnward ==
    ASSUME Scope, NEW rules \in AllRules, NEW c, NEW gone, NEW pass \in Sound(rules, c, gone),
           NEW now \in Nat, NEW admit
    PROVE  Onward(pass.rows, pass.ledger, pass.refused, Reconciled(pass, now, c, admit))
<1> DEFINE last == Batch(pass, now, c, admit)[Rules]
           Good == {p \in Sound(rules, c, gone) : Onward(pass.rows, pass.ledger, pass.refused, p)}
<1>1. pass.ledger \in Seq(Entry)
    BY SoundIs
<1>2. ASSUME NEW p \in Good, NEW r \in Rules PROVE RuleTurn(p, r, now, c, admit) \in Good
    <2>1. p \in Sound(rules, c, gone) /\ RuleTurn(p, r, now, c, admit) \in Sound(rules, c, gone)
        BY TurnSound
    <2>2. Onward(p.rows, p.ledger, p.refused, RuleTurn(p, r, now, c, admit))
        BY TurnOnward
    <2>3. Onward(pass.rows, pass.ledger, pass.refused, RuleTurn(p, r, now, c, admit))
        BY <1>1, <2>1, <2>2, OnwardOn
    <2> QED BY <2>1, <2>3
<1>3. pass \in Good
    BY OnwardSame
<1>4. \A p \in Good, r \in Rules : RuleTurn(p, r, now, c, admit) \in Good
    BY <1>2
<1> HIDE DEF Good
<1>5. last \in Good
    BY <1>3, <1>4, BatchKeeps
<1>6. Onward(pass.rows, pass.ledger, pass.refused, last)
    BY <1>5 DEF Good
<1>7. Onward(pass.rows, pass.ledger, pass.refused, [pass EXCEPT !.outcome = "failed"])
    BY OutcomeOnward
<1> HIDE DEF last
<1>8. Closed(pass, last) \in {last, [pass EXCEPT !.outcome = "failed"]}
    BY DEF Closed
<1>9. Reconciled(pass, now, c, admit) = Closed(pass, last)
    BY ReconciledIsBatch DEF last
<1> QED BY <1>6, <1>7, <1>8, <1>9

LEMMA PassOnward ==
    ASSUME Scope, NEW rules \in AllRules, NEW c \in Conditions, NEW gone, NEW pass \in Sound(rules, c, gone),
           NEW now \in Nat
    PROVE  Onward(pass.rows, pass.ledger, pass.refused, Pass(pass, now, c))
<1> DEFINE first == Reconciled(pass, now, c, c.admit)
           again == Again(first, c)
           second == Reconciled(again, now, c, TRUE)
           none == [first EXCEPT !.outcome = "failed"]
           result == Pass(pass, now, c)
<1>1. first \in Sound(rules, c, gone) /\ Onward(pass.rows, pass.ledger, pass.refused, first)
    BY ReconciledSound, ReconciledOnward
<1>2. \/ result = first
      \/ result = none
      \/ result = second /\ c.reclaimed > 0
    BY PassCases
<1>3. pass.ledger \in Seq(Entry)
    BY SoundIs
<1> HIDE DEF first, result
<1>4. /\ none.rows = first.rows /\ none.ledger = first.ledger /\ none.refused = first.refused
    BY <1>1 DEF Sound, Passes
<1>5. again \in Sound(rules, c, gone) /\ Onward(first.rows, first.ledger, first.refused, again)
    <2>1. /\ again \in Sound(rules, c, gone) /\ again.rows = first.rows /\ again.ledger = first.ledger
          /\ again.refused = first.refused
        BY <1>1, AgainSound
    <2> HIDE DEF again
    <2> QED BY <1>1, <2>1, OnwardSame
<1> HIDE DEF again, none
<1>6. second \in Sound(rules, c, gone) /\ Onward(again.rows, again.ledger, again.refused, second)
    BY <1>5, ReconciledSound, ReconciledOnward
<1> HIDE DEF second
<1>7. Onward(pass.rows, pass.ledger, pass.refused, none)
    BY <1>1, <1>4 DEF Onward
<1>8. Onward(pass.rows, pass.ledger, pass.refused, second)
    <2>1. Onward(pass.rows, pass.ledger, pass.refused, again)
        BY <1>1, <1>3, <1>5, OnwardOn
    <2> QED BY <1>3, <1>5, <1>6, <2>1, OnwardOn
<1>9. Onward(pass.rows, pass.ledger, pass.refused, result)
    BY <1>1, <1>2, <1>7, <1>8
<1> QED BY <1>9 DEF result

\* A rule keeps its version and never an earlier revision.
RulesStay(rules) ==
    \A r \in Rules : rule[r] # NoRow => /\ rules[r] # NoRow /\ rules[r].version = rule[r].version
                                         /\ rule[r].revision <= rules[r].revision

\* What a step may never undo.
Final ==
    /\ RowsFinal(occurrence, occurrence') /\ Extended(admission, admission')
    /\ refusal \subseteq refusal' /\ Extended(policy, policy') /\ RulesStay(rule')

\* No step changes an occurrence that was admitted or missed, takes back a
\* reservation, a refusal or a version of the monitor, or forgets a rule
\* (schedules.rs, monitors/capture.rs).
DecisionsFinal == [][Final]_vars

LEMMA SameFinal ==
    ASSUME IInv, UNCHANGED <<rule, occurrence, admission, refusal>>, policy' = policy \/ Extended(policy, policy')
    PROVE  Final
<1>1. admission \in Seq(Entry) /\ policy \in Seq(Policies \union {FirstPolicy}) /\ rule \in AllRules
    BY DEF IInv, Tables, Scope
<1>2. Extended(admission, admission') /\ Extended(policy, policy')
    BY <1>1, SameExtended
<1>3. RowsFinal(occurrence, occurrence')
    BY DEF RowsFinal
<1>4. RulesStay(rule')
    <2>1. ASSUME NEW r \in Rules, rule[r] # NoRow PROVE rule[r].revision <= rule[r].revision
        <3>1. rule[r].revision \in Nat
            BY <1>1, <2>1, RuleTypes
        <3> QED BY <3>1
    <2> QED BY <2>1 DEF RulesStay
<1> QED BY <1>2, <1>3, <1>4 DEF Final

(***************************************************************************)
(* Steps. An operation that runs a pass hands it tables that are kept.     *)
(***************************************************************************)
\* What a pass begins with, and the same with tables an operation has written.
BeginningTables ==
    [rules : {rule}, rows : {occurrence}, ledger : {admission}, refused : {refusal},
     outcome : {"done"}, slots : Int, room : Int]

LEMMA BeginningIs ==
    ASSUME NEW c \in Conditions
    PROVE  Beginning(c) \in BeginningTables
<1> DEFINE slots == c.slots
           room == c.room
<1>1. slots \in Int /\ room \in Int
    BY SchedulesAssumption DEF Found
<1>2. Beginning(c) = [rules |-> rule, rows |-> occurrence, ledger |-> admission, refused |-> refusal,
                      outcome |-> "done", slots |-> slots, room |-> room]
    BY DEF Beginning
<1> HIDE DEF slots, room
<1> QED BY <1>1, <1>2 DEF BeginningTables

LEMMA BeginningSame ==
    ASSUME NEW c \in Conditions
    PROVE  Beginning(c) = [Beginning(c) EXCEPT !.rules = rule, !.rows = occurrence]
<1> DEFINE b == Beginning(c)
<1>1. b \in BeginningTables
    BY BeginningIs
<1> HIDE DEF b
<1>2. b = [b EXCEPT !.rules = rule, !.rows = occurrence]
    BY <1>1 DEF BeginningTables
<1> QED BY <1>2 DEF b

LEMMA StartSound ==
    ASSUME Tables, NEW rules \in AllRules, NEW rows \in AllRows, NEW c \in Conditions, NEW gone,
           Kept(rules, rows, admission, refusal), Gone(rows, gone)
    PROVE  [Beginning(c) EXCEPT !.rules = rules, !.rows = rows] \in Sound(rules, c, gone)
<1> DEFINE b == Beginning(c)
           from == [b EXCEPT !.rules = rules, !.rows = rows]
<1>1. b \in BeginningTables
    BY BeginningIs
<1> HIDE DEF b
<1>2. /\ from \in Passes(rules) /\ from.rows = rows /\ from.ledger = admission
      /\ from.refused = refusal /\ from.outcome = "done"
    BY <1>1 DEF BeginningTables, Passes, Tables
<1> HIDE DEF from
<1>3. from \in Sound(rules, c, gone)
    BY <1>2 DEF Sound
<1> QED BY <1>3 DEF from, b

\* No predicate of the tables reads the service.
LEMMA KeptFrame ==
    ASSUME UNCHANGED <<recorded, monitor, task>>, Kept(rule', occurrence', admission', refusal')
    PROVE  Kept(rule, occurrence, admission, refusal)'
<1>1. /\ policy' = policy /\ actions' = actions /\ followed' = followed /\ task' = task
      /\ recorded' = recorded /\ Version' = Version /\ Latest' = Latest
    BY DEF monitor, Version, Latest
<1>2. TablesKept(rule, occurrence)'
    BY <1>1 DEF Kept, TablesKept, RuleKept, OneWaits, TaskRows, RowKept
<1>3. LedgerKept(rule, occurrence, admission)'
    <2>1. LedgerKept(rule', occurrence', admission')
        BY DEF Kept
    <2>2. ASSUME NEW i \in 1 .. Len(admission')
          PROVE  EntryKept(rule, occurrence, admission[i])' /\ InCaps(SubSeq(admission, 1, i), admission[i])'
        <3>1. EntryKept(rule', occurrence', admission'[i]) /\ InCaps(SubSeq(admission', 1, i), admission'[i])
            BY <2>1, <2>2 DEF LedgerKept
        <3>2. EntryKept(rule, occurrence, admission[i])'
            BY <1>1, <3>1 DEF EntryKept, TaskEntry
        <3>3. InCaps(SubSeq(admission, 1, i), admission[i])'
            BY <1>1, <3>1 DEF InCaps
        <3> QED BY <3>2, <3>3
    <2> QED BY <1>1, <2>1, <2>2 DEF LedgerKept
<1>4. RefusalsKept(rule, occurrence, admission, refusal)'
    <2>1. ASSUME NEW f \in refusal' PROVE RefusalKept(rule, occurrence, admission, f)'
        <3>1. RefusalKept(rule', occurrence', admission', f)
            BY <2>1 DEF Kept, RefusalsKept
        <3> QED BY <1>1, <3>1 DEF RefusalKept, Refuses, Followed
    <2> QED BY <2>1 DEF RefusalsKept
<1> QED BY <1>2, <1>3, <1>4 DEF Kept

LEMMA CommitKeeps ==
    ASSUME IInv, NEW rules \in AllRules, NEW rows \in AllRows, NEW c \in Conditions, NEW now \in Times,
           Kept(rules, rows, admission, refusal), RowsFinal(occurrence, rows), RulesStay(rules),
           Commit(Pass([Beginning(c) EXCEPT !.rules = rules, !.rows = rows], now, c)),
           UNCHANGED <<recorded, monitor, task>>, service' \in {"up", "stopped"}
    PROVE  IInv' /\ Final
<1> DEFINE from == [Beginning(c) EXCEPT !.rules = rules, !.rows = rows]
           pass == Pass(from, now, c)
<1>1. now \in Nat
    BY SchedulesAssumption
<1>2. from \in Sound(rules, c, {}) /\ from.rows = rows /\ from.ledger = admission /\ from.refused = refusal
    <2>1. from \in Sound(rules, c, {})
        BY StartSound DEF IInv, Gone
    <2>2. from.rows = rows /\ from.ledger = admission /\ from.refused = refusal
        BY DEF Beginning
    <2> QED BY <2>1, <2>2
<1> HIDE DEF from
<1>3. pass \in Settled(rules, c, {}) /\ Onward(from.rows, from.ledger, from.refused, pass)
    <2>1. Scope
        BY DEF IInv
    <2> QED BY <1>1, <1>2, <2>1, PassSettles, PassOnward
<1>4. rule' = pass.rules /\ occurrence' = pass.rows /\ admission' = pass.ledger /\ refusal' = pass.refused
    BY DEF Commit, from
<1> HIDE DEF pass
<1>5. /\ rule' \in AllRules /\ occurrence' \in AllRows /\ admission' \in Seq(Entry)
      /\ refusal' \in SUBSET Refusal /\ Kept(rule', occurrence', admission', refusal') /\ rule' = rules
    BY <1>3, <1>4, SettledIs
<1>6. Tables'
    BY <1>5 DEF Tables
<1>7. Scope'
    BY DEF IInv, Scope, monitor, Version
<1>8. Kept(rule, occurrence, admission, refusal)'
    BY <1>5, KeptFrame
<1>9. Final
    <2>1. RowsFinal(rows, occurrence') /\ Extended(admission, admission') /\ refusal \subseteq refusal'
        BY <1>2, <1>3, <1>4 DEF Onward
    <2>2. RowsFinal(occurrence, occurrence')
        BY <2>1, FinalOn
    <2>3. Extended(policy, policy')
        <3>1. policy \in Seq(Policies \union {FirstPolicy}) /\ policy' = policy
            BY DEF IInv, Scope, monitor
        <3> QED BY <3>1, SameExtended
    <2> QED BY <1>5, <2>1, <2>2, <2>3 DEF Final
<1> QED BY <1>6, <1>7, <1>8, <1>9 DEF IInv

LEMMA ServeKeeps ==
    ASSUME IInv, NEW c \in Conditions, NEW now \in Times, Serve(now, c) \/ Boot(now, c)
    PROVE  IInv' /\ Final
<1>1. /\ Commit(Pass(Beginning(c), now, c)) /\ UNCHANGED <<recorded, monitor, task>>
      /\ service' \in {"up", "stopped"}
    BY DEF Serve, Boot
<1>2. Commit(Pass([Beginning(c) EXCEPT !.rules = rule, !.rows = occurrence], now, c))
    BY <1>1, BeginningSame
<1>3. rule \in AllRules /\ occurrence \in AllRows /\ Kept(rule, occurrence, admission, refusal)
    BY DEF IInv, Tables
<1>4. RowsFinal(occurrence, occurrence) /\ RulesStay(rule)
    <2>1. \A r \in Rules : rule[r] # NoRow => rule[r].revision \in Nat
        BY <1>3, RuleTypes
    <2> QED BY <2>1 DEF RowsFinal, RulesStay
<1> QED BY <1>1, <1>2, <1>3, <1>4, CommitKeeps

\* A rule without a row in the table of rules has no occurrences.
LEMMA NoRuleNoRows ==
    ASSUME NEW rules, NEW rows, TablesKept(rules, rows), NEW r \in Rules, rules[r] = NoRow
    PROVE  \A date \in Dates : rows[r][date] = NoRow
BY DEF TablesKept, RowKept

LEMMA CreateKeeps ==
    ASSUME IInv, NEW r \in Rules, NEW clock \in Drafts[r], NEW c \in Conditions, NEW now \in Times,
           Create(r, clock, now, c)
    PROVE  IInv' /\ Final
<1> DEFINE plan == NewRule(clock)
           rules == [rule EXCEPT ![r] = plan]
           dates == Materializes(occurrence, r, plan, now)
           rows == Materialized(occurrence, r, plan, now)
           b == Beginning(c)
<1>1. /\ rule \in AllRules /\ occurrence \in AllRows /\ admission \in Seq(Entry)
      /\ refusal \in SUBSET Refusal /\ Kept(rule, occurrence, admission, refusal)
    BY DEF IInv, Tables
<1>2. rule[r] = NoRow /\ Owner[r] \notin Tasks /\ UNCHANGED <<recorded, monitor, task, service>>
    BY DEF Create
<1>3. clock \in Clocks /\ Version \in 1 .. MaxVersions /\ MaxRevisions \in Nat
    BY SchedulesAssumption DEF IInv, Scope
<1>4. plan \in RuleRow /\ plan # NoRow
      /\ plan.clock = clock /\ plan.revision = 0 /\ plan.version = Version
    BY <1>3 DEF NewRule, RuleRow, NoRow
<1>5. \A date \in Dates : occurrence[r][date] = NoRow
    BY <1>1, <1>2, NoRuleNoRows DEF Kept
<1>6. Commit(Pass([b EXCEPT !.rules = rules, !.rows = rows], now, c))
    <2>1. b \in BeginningTables
        BY BeginningIs
    <2>2. b.rows = occurrence
        BY <2>1 DEF BeginningTables
    <2>3. Commit(Pass([b EXCEPT !.rules[r] = plan, !.rows = Materialized(b.rows, r, plan, now)], now, c))
        BY DEF Create
    <2> HIDE DEF b, plan
    <2>4. [b EXCEPT !.rules[r] = plan, !.rows = rows] = [b EXCEPT !.rules = rules, !.rows = rows]
        BY <2>1 DEF BeginningTables
    <2> QED BY <2>2, <2>3, <2>4
<1> HIDE DEF plan
<1>7. rules \in AllRules /\ rules[r] = plan /\ \A q \in Rules : q # r => rules[q] = rule[q]
    BY <1>1, <1>4 DEF AllRules
<1> HIDE DEF rules
<1>8. ASSUME NEW q \in Rules
      PROVE  /\ RuleKept(rules, q) /\ OneWaits(occurrence, q) /\ TaskRows(rules, occurrence, q)
             /\ \A date \in Dates : RowKept(rules, occurrence, q, date)
    <2>1. /\ RuleKept(rule, q) /\ OneWaits(occurrence, q) /\ TaskRows(rule, occurrence, q)
          /\ \A date \in Dates : RowKept(rule, occurrence, q, date)
        BY <1>1 DEF Kept, TablesKept
    <2>2. CASE q # r
        BY <1>7, <2>1, <2>2 DEF RuleKept, TaskRows, RowKept
    <2>3. CASE q = r
        <3>1. RuleKept(rules, r)
            BY <1>2, <1>3, <1>4, <1>7 DEF RuleKept
        <3>2. \A date \in Dates : RowKept(rules, occurrence, r, date)
            BY <1>5 DEF RowKept
        <3> QED BY <1>2, <2>1, <2>3, <3>1, <3>2 DEF TaskRows
    <2> QED BY <2>2, <2>3
<1>9. TablesKept(rules, occurrence)
    BY <1>8 DEF TablesKept
<1>10. LedgerKept(rules, occurrence, admission)
    <2>1. SameAdmitted(occurrence, occurrence)
        BY DEF SameAdmitted
    <2>2. \A q \in Rules : rule[q] # NoRow => rules[q].version = rule[q].version
        BY <1>2, <1>7
    <2>3. TablesKept(rule, occurrence) /\ LedgerKept(rule, occurrence, admission)
        BY <1>1 DEF Kept
    <2> QED BY <1>1, <2>1, <2>2, <2>3, LedgerStands
<1>11. RefusalsKept(rules, occurrence, admission, refusal)
    <2>1. ASSUME NEW f \in refusal PROVE RefusalKept(rules, occurrence, admission, f)
        <3>1. RefusalKept(rule, occurrence, admission, f) /\ f.rule \in Rules
            BY <1>1 DEF Kept, RefusalsKept, Refusal
        <3>2. rules[f.rule] = rule[f.rule]
            BY <1>2, <1>7, <3>1 DEF RefusalKept
        <3> QED BY <3>1, <3>2 DEF RefusalKept
    <2> QED BY <2>1 DEF RefusalsKept
<1>12. Kept(rules, occurrence, admission, refusal)
    BY <1>9, <1>10, <1>11 DEF Kept
<1>13. Inserts(occurrence, r, dates)
    <2>1. dates \subseteq Dates
        BY <1>3, <1>4, ClockTypes DEF Materializes, NextDates
    <2> HIDE DEF dates
    <2> QED BY <1>5, <2>1 DEF Inserts
<1>14. rows \in AllRows /\ Kept(rules, rows, admission, refusal)
    <2>1. rules[r] # NoRow /\ rules[r] = plan
        BY <1>4, <1>7
    <2> QED BY <1>1, <1>7, <1>12, <1>13, <2>1, InsertKeeps
<1>15. service' \in {"up", "stopped"} /\ UNCHANGED <<recorded, monitor, task>>
    BY <1>2 DEF IInv, Scope
<1>16. RowsFinal(occurrence, rows)
    <2>1. rules[r] # NoRow /\ rules[r] = plan
        BY <1>4, <1>7
    <2> QED BY <1>1, <1>7, <1>13, <2>1, InsertFinal
<1>17. RulesStay(rules)
    <2>1. \A q \in Rules : rule[q] # NoRow => rules[q] = rule[q] /\ rule[q].revision \in Nat
        BY <1>1, <1>2, <1>7, RuleTypes
    <2> QED BY <2>1 DEF RulesStay
<1> HIDE DEF rows
<1> QED BY <1>6, <1>7, <1>14, <1>15, <1>16, <1>17, CommitKeeps

LEMMA WithoutWaitingIs ==
    ASSUME NEW rows \in AllRows, NEW r \in Rules
    PROVE  /\ WithoutWaiting(rows, r) \in AllRows
           /\ \A q \in Rules, date \in Dates :
                 WithoutWaiting(rows, r)[q][date]
                   = IF q = r /\ rows[r][date].state = "waiting" THEN NoRow ELSE rows[q][date]
BY DEF WithoutWaiting, AllRows

LEMMA ReviseKeeps ==
    ASSUME IInv, NEW r \in Rules, NEW clock \in Drafts[r], NEW c \in Conditions, NEW now \in Times,
           Revise(r, clock, now, c)
    PROVE  IInv' /\ Final
<1> DEFINE plan == [rule[r] EXCEPT !.clock = clock, !.revision = @ + 1]
           rules == [rule EXCEPT ![r] = plan]
           without == WithoutWaiting(occurrence, r)
           rows == Materialized(without, r, plan, now)
           b == Beginning(c)
<1>1. /\ rule \in AllRules /\ occurrence \in AllRows /\ admission \in Seq(Entry)
      /\ refusal \in SUBSET Refusal /\ Kept(rule, occurrence, admission, refusal)
    BY DEF IInv, Tables
<1>2. /\ rule[r] # NoRow /\ Owner[r] \notin Tasks /\ rule[r].revision < MaxRevisions
      /\ UNCHANGED <<recorded, monitor, task, service>>
      /\ Inserts(without, r, Materializes(without, r, plan, now))
    BY DEF Revise
<1>3. clock \in Clocks /\ MaxRevisions \in Nat
    BY SchedulesAssumption
<1>4. /\ plan \in RuleRow /\ plan # NoRow /\ plan.clock = clock
      /\ plan.revision = rule[r].revision + 1 /\ plan.version = rule[r].version
      /\ rule[r].revision \in Nat
    <2>1. rule[r] \in RuleRow /\ rule[r].revision \in Nat
        BY <1>1, <1>2, RuleTypes
    <2> DEFINE next == rule[r].revision + 1
    <2>2. next \in Nat
        BY <2>1
    <2> HIDE DEF next
    <2>3. plan = [rule[r] EXCEPT !.clock = clock, !.revision = next]
        BY DEF next
    <2>4. /\ plan \in RuleRow /\ plan.clock = clock /\ plan.revision = next
          /\ plan.version = rule[r].version /\ plan.state = "rule"
        BY <1>3, <2>1, <2>2, <2>3 DEF RuleRow
    <2> QED BY <2>1, <2>4 DEF next, NoRow
<1>5. Commit(Pass([b EXCEPT !.rules = rules, !.rows = rows], now, c))
    <2>1. b \in BeginningTables
        BY BeginningIs
    <2>2. Commit(Pass([b EXCEPT !.rules[r] = plan, !.rows = rows], now, c))
        BY DEF Revise
    <2> HIDE DEF b, plan
    <2>3. [b EXCEPT !.rules[r] = plan, !.rows = rows] = [b EXCEPT !.rules = rules, !.rows = rows]
        BY <2>1 DEF BeginningTables
    <2> QED BY <2>2, <2>3
<1> HIDE DEF plan
<1>6. rules \in AllRules /\ rules[r] = plan /\ \A q \in Rules : q # r => rules[q] = rule[q]
    BY <1>1, <1>4 DEF AllRules
<1>7. /\ without \in AllRows
      /\ \A q \in Rules, date \in Dates :
            without[q][date]
              = IF q = r /\ occurrence[r][date].state = "waiting" THEN NoRow ELSE occurrence[q][date]
    BY <1>1, WithoutWaitingIs
<1> HIDE DEF rules, without
<1>8. ASSUME NEW q \in Rules
      PROVE  /\ RuleKept(rules, q) /\ OneWaits(without, q) /\ TaskRows(rules, without, q)
             /\ \A date \in Dates : RowKept(rules, without, q, date)
    <2>1. /\ RuleKept(rule, q) /\ OneWaits(occurrence, q) /\ TaskRows(rule, occurrence, q)
          /\ \A date \in Dates : RowKept(rule, occurrence, q, date)
        BY <1>1 DEF Kept, TablesKept
    <2>2. CASE q # r
        BY <1>6, <1>7, <2>1, <2>2 DEF RuleKept, OneWaits, TaskRows, RowKept
    <2>3. CASE q = r
        <3>1. RuleKept(rules, r)
            BY <1>2, <1>3, <1>4, <1>6, <2>1, <2>3 DEF RuleKept
        <3>2. ASSUME NEW date \in Dates, without[r][date] # NoRow
              PROVE  RowKept(rules, without, r, date) /\ without[r][date].state # "waiting"
            <4>1. without[r][date] = occurrence[r][date] /\ occurrence[r][date].state # "waiting"
                BY <1>7, <3>2
            <4>2. RowKept(rule, occurrence, r, date) /\ occurrence[r][date].revision \in Nat
                BY <1>1, <2>1, <2>3, <3>2, <4>1, RowTypes
            <4> QED BY <1>4, <1>6, <4>1, <4>2 DEF RowKept
        <3>3. \A date \in Dates : RowKept(rules, without, r, date) /\ without[r][date].state # "waiting"
            BY <3>2 DEF RowKept, NoRow
        <3>4. OneWaits(without, r)
            BY <3>3 DEF OneWaits
        <3> QED BY <1>2, <2>3, <3>1, <3>3, <3>4 DEF TaskRows
    <2> QED BY <2>2, <2>3
<1>9. TablesKept(rules, without)
    BY <1>8 DEF TablesKept
<1>10. LedgerKept(rules, without, admission)
    <2>1. SameAdmitted(occurrence, without)
        <3>1. ASSUME NEW q \in Rules, NEW date \in Dates
              PROVE  occurrence[q][date].state = "admitted" \/ without[q][date].state = "admitted"
                        => without[q][date] = occurrence[q][date]
            BY <1>7 DEF NoRow
        <3> QED BY <3>1 DEF SameAdmitted
    <2>2. \A q \in Rules : rule[q] # NoRow => rules[q].version = rule[q].version
        BY <1>4, <1>6
    <2>3. TablesKept(rule, occurrence) /\ LedgerKept(rule, occurrence, admission)
        BY <1>1 DEF Kept
    <2> QED BY <1>1, <2>1, <2>2, <2>3, LedgerStands
<1>11. RefusalsKept(rules, without, admission, refusal)
    <2>1. ASSUME NEW f \in refusal PROVE RefusalKept(rules, without, admission, f)
        <3>1. /\ RefusalKept(rule, occurrence, admission, f) /\ f.rule \in Rules /\ f.date \in Dates
              /\ f.revision \in Nat
            BY <1>1 DEF Kept, RefusalsKept, Refusal
        <3>2. CASE f.rule # r
            <4>1. rules[f.rule] = rule[f.rule] /\ without[f.rule][f.date] = occurrence[f.rule][f.date]
                BY <1>6, <1>7, <3>1, <3>2
            <4> QED BY <3>1, <4>1 DEF RefusalKept
        <3>3. CASE f.rule = r
            <4>1. rules[r].revision = rule[r].revision + 1 /\ rules[r] # NoRow
                BY <1>4, <1>6
            <4>2. without[r][f.date] = NoRow \/ without[r][f.date] = occurrence[r][f.date]
                BY <1>7, <3>1
            <4> QED BY <1>4, <3>1, <3>3, <4>1, <4>2 DEF RefusalKept
        <3> QED BY <3>2, <3>3
    <2> QED BY <2>1 DEF RefusalsKept
<1>12. Kept(rules, without, admission, refusal)
    BY <1>9, <1>10, <1>11 DEF Kept
<1>13. rows \in AllRows /\ Kept(rules, rows, admission, refusal)
    <2>1. rules[r] # NoRow /\ rules[r] = plan
        BY <1>4, <1>6
    <2> QED BY <1>1, <1>2, <1>6, <1>7, <1>12, <2>1, InsertKeeps
<1>14. service' \in {"up", "stopped"} /\ UNCHANGED <<recorded, monitor, task>>
    BY <1>2 DEF IInv, Scope
<1>15. RowsFinal(occurrence, rows)
    <2>1. rules[r] # NoRow /\ rules[r] = plan
        BY <1>4, <1>6
    <2>2. RowsFinal(without, rows)
        BY <1>2, <1>6, <1>7, <2>1, InsertFinal
    <2>3. RowsFinal(occurrence, without)
        BY <1>7 DEF RowsFinal
    <2> HIDE DEF rows
    <2> QED BY <2>2, <2>3, FinalOn
<1>16. RulesStay(rules)
    <2>1. ASSUME NEW q \in Rules, rule[q] # NoRow
          PROVE  /\ rules[q] # NoRow /\ rules[q].version = rule[q].version
                 /\ rule[q].revision <= rules[q].revision
        <3>1. rule[q].revision \in Nat
            BY <1>1, <2>1, RuleTypes
        <3> QED BY <1>4, <1>6, <2>1, <3>1
    <2> QED BY <2>1 DEF RulesStay
<1> HIDE DEF rows
<1> QED BY <1>5, <1>6, <1>13, <1>14, <1>15, <1>16, CommitKeeps

(***************************************************************************)
(* The monitor. A later version leaves the earlier ones as they are, and   *)
(* no cap of a version is read from what a proposal changes.               *)
(***************************************************************************)
LEMMA ReviseMonitorKeeps ==
    ASSUME IInv, NEW p \in Policies, ReviseMonitor(p)
    PROVE  IInv'
<1>1. /\ policy' = Append(policy, p) /\ followed' = p.sources /\ actions' = actions /\ task' = task
      /\ rule' = rule /\ occurrence' = occurrence /\ admission' = admission /\ refusal' = refusal
      /\ service' = service /\ recorded' = recorded /\ Version < MaxVersions
    BY DEF ReviseMonitor
<1>2. policy \in Seq(Policies \union {FirstPolicy}) /\ Version \in 1 .. MaxVersions /\ MaxVersions \in Nat
    BY SchedulesAssumption DEF IInv, Scope
<1>3. /\ policy' \in Seq(Policies \union {FirstPolicy}) /\ Version' = Version + 1
      /\ \A v \in 1 .. Version : policy'[v] = policy[v]
    BY <1>1, <1>2, AppendIs DEF Version
<1>4. Scope'
    <2>1. Version' \in 1 .. MaxVersions
        BY <1>1, <1>2, <1>3
    <2>2. followed' \subseteq UNION {q.sources \union q.candidates : q \in Policies \union {FirstPolicy}}
        BY <1>1
    <2> QED BY <1>1, <1>3, <2>1, <2>2 DEF IInv, Scope
<1>5. Tables'
    BY <1>1 DEF IInv, Tables
<1>6. TablesKept(rule, occurrence)'
    <2>1. ASSUME NEW r \in Rules
          PROVE  /\ RuleKept(rule, r)' /\ OneWaits(occurrence, r)' /\ TaskRows(rule, occurrence, r)'
                 /\ \A date \in Dates : RowKept(rule, occurrence, r, date)'
        <3>1. /\ RuleKept(rule, r) /\ OneWaits(occurrence, r) /\ TaskRows(rule, occurrence, r)
              /\ \A date \in Dates : RowKept(rule, occurrence, r, date)
            BY DEF IInv, Kept, TablesKept
        <3>2. RuleKept(rule, r)'
            BY <1>1, <1>2, <1>3, <3>1 DEF RuleKept
        <3> QED BY <1>1, <3>1, <3>2 DEF OneWaits, TaskRows, RowKept
    <2> QED BY <2>1 DEF TablesKept
<1>7. LedgerKept(rule, occurrence, admission)'
    <2>1. LedgerKept(rule, occurrence, admission)
        BY DEF IInv, Kept
    <2>2. ASSUME NEW i \in 1 .. Len(admission)
          PROVE  EntryKept(rule, occurrence, admission[i])' /\ InCaps(SubSeq(admission, 1, i), admission[i])'
        <3> DEFINE e == admission[i]
        <3>1. EntryKept(rule, occurrence, e) /\ InCaps(SubSeq(admission, 1, i), e)
            BY <2>1, <2>2 DEF LedgerKept
        <3>2. /\ policy'[e.version] = policy[e.version] /\ e.version \in 1 .. Version
              /\ e.version \in 1 .. Version'
            BY <1>2, <1>3, <3>1 DEF EntryKept
        <3>3. EntryKept(rule, occurrence, e)'
            BY <1>1, <3>1, <3>2 DEF EntryKept, TaskEntry
        <3>4. InCaps(SubSeq(admission, 1, i), e)'
            BY <1>1, <3>1, <3>2 DEF InCaps
        <3> QED BY <3>3, <3>4
    <2> QED BY <1>1, <2>1, <2>2 DEF LedgerKept
<1>8. RefusalsKept(rule, occurrence, admission, refusal)'
    <2>1. ASSUME NEW f \in refusal PROVE RefusalKept(rule, occurrence, admission, f)'
        <3>1. RefusalKept(rule, occurrence, admission, f) /\ f.version \in Nat
            BY DEF IInv, Kept, RefusalsKept, Tables, Refusal
        <3>2. f.version <= Version' /\ f.version # Version'
            BY <1>2, <1>3, <3>1 DEF RefusalKept
        <3> QED BY <1>1, <3>1, <3>2 DEF RefusalKept, NotAdmitted
    <2> QED BY <1>1, <2>1 DEF RefusalsKept
<1> QED BY <1>4, <1>5, <1>6, <1>7, <1>8 DEF IInv, Kept

LEMMA ProposeKeeps ==
    ASSUME IInv, Propose
    PROVE  IInv'
<1>1. /\ actions' = actions + 1 /\ actions < MaxActions /\ followed' \in Decided
      /\ policy' = policy /\ task' = task /\ service' = service /\ recorded' = recorded
      /\ rule' = rule /\ occurrence' = occurrence /\ admission' = admission /\ refusal' = refusal
    BY DEF Propose
<1>2. Version' = Version /\ Latest' = Latest
    BY <1>1 DEF Version, Latest
<1>3. actions \in 0 .. MaxActions /\ MaxActions \in Nat
    BY SchedulesAssumption DEF IInv, Scope
<1>4. Scope'
    <2>1. Latest \in Policies \union {FirstPolicy}
        BY DEF IInv, Scope, Latest, Version
    <2>2. followed' \subseteq followed \union Latest.sources \union Latest.candidates
        BY <1>1 DEF Decided
    <2> DEFINE all == UNION {p.sources \union p.candidates : p \in Policies \union {FirstPolicy}}
    <2>3. followed \subseteq all
        BY DEF IInv, Scope
    <2>4. Latest.sources \union Latest.candidates \subseteq all
        BY <2>1
    <2> HIDE DEF all
    <2>5. followed' \subseteq all
        BY <2>2, <2>3, <2>4
    <2>6. actions' \in 0 .. MaxActions
        BY <1>1, <1>3
    <2> QED BY <1>1, <1>2, <2>5, <2>6 DEF IInv, Scope, all
<1>5. Tables'
    BY <1>1 DEF IInv, Tables
<1>6. TablesKept(rule, occurrence)'
    BY <1>1, <1>2 DEF IInv, Kept, TablesKept, RuleKept, OneWaits, TaskRows, RowKept
<1>7. LedgerKept(rule, occurrence, admission)'
    <2>1. LedgerKept(rule, occurrence, admission) /\ admission \in Seq(Entry)
        BY DEF IInv, Kept, Tables
    <2>2. ASSUME NEW i \in 1 .. Len(admission)
          PROVE  EntryKept(rule, occurrence, admission[i])' /\ InCaps(SubSeq(admission, 1, i), admission[i])'
        <3> DEFINE e == admission[i]
        <3>1. EntryKept(rule, occurrence, e) /\ InCaps(SubSeq(admission, 1, i), e)
            BY <2>1, <2>2 DEF LedgerKept
        <3>2. e.action <= actions'
            <4>1. e.action \in Nat /\ e.action <= actions
                <5>1. e \in Entry
                    BY <2>1, <2>2, EntryTyped
                <5> HIDE DEF e
                <5> QED BY <3>1, <5>1 DEF Entry, EntryKept
            <4> QED BY <1>1, <1>3, <4>1
        <3>3. EntryKept(rule, occurrence, e)'
            BY <1>1, <1>2, <3>1, <3>2 DEF EntryKept, TaskEntry
        <3>4. InCaps(SubSeq(admission, 1, i), e)'
            BY <1>1, <3>1 DEF InCaps
        <3> QED BY <3>3, <3>4
    <2> QED BY <1>1, <2>1, <2>2 DEF LedgerKept
<1>8. RefusalsKept(rule, occurrence, admission, refusal)'
    <2>1. ASSUME NEW f \in refusal PROVE RefusalKept(rule, occurrence, admission, f)'
        <3> DEFINE row == occurrence[f.rule][f.date]
        <3>1. RefusalKept(rule, occurrence, admission, f)
            BY DEF IInv, Kept, RefusalsKept
        <3>2. ASSUME f.why \in ByCap, Refuses(f.why, admission, f.rule, f.date, row)
              PROVE  Refuses(f.why, admission, f.rule, f.date, row)'
            <4>1. f.why # "capture-disabled" /\ f.why # "source-not-followed"
                BY <3>2 DEF ByCap
            <4> QED BY <1>1, <1>2, <3>2, <4>1 DEF Refuses
        <3> QED BY <1>1, <1>2, <3>1, <3>2 DEF RefusalKept, NotAdmitted
    <2> QED BY <1>1, <2>1 DEF RefusalsKept
<1> QED BY <1>4, <1>5, <1>6, <1>7, <1>8 DEF IInv, Kept

(***************************************************************************)
(* A client's recording takes the id of an occurrence that is not admitted *)
(* and touches nothing else.                                               *)
(***************************************************************************)
LEMMA RecordStartKeeps ==
    ASSUME IInv, NEW id \in ClientIds, RecordStart(id)
    PROVE  IInv'
<1>1. /\ rule' = rule /\ occurrence' = occurrence /\ admission' = admission /\ refusal' = refusal
      /\ policy' = policy /\ actions' = actions /\ followed' = followed /\ task' = task
      /\ service' = service /\ Version' = Version /\ Latest' = Latest
      /\ recorded' = recorded \union {id} /\ occurrence[id[1]][id[2]].state # "admitted"
    BY DEF RecordStart, monitor, Version, Latest
<1>2. Scope' /\ Tables'
    BY <1>1 DEF IInv, Scope, Tables
<1>3. TablesKept(rule, occurrence)'
    <2>1. ASSUME NEW r \in Rules
          PROVE  /\ RuleKept(rule, r)' /\ OneWaits(occurrence, r)' /\ TaskRows(rule, occurrence, r)'
                 /\ \A date \in Dates : RowKept(rule, occurrence, r, date)'
        <3>1. /\ RuleKept(rule, r) /\ OneWaits(occurrence, r) /\ TaskRows(rule, occurrence, r)
              /\ \A date \in Dates : RowKept(rule, occurrence, r, date)
            BY DEF IInv, Kept, TablesKept
        <3>2. ASSUME NEW date \in Dates PROVE RowKept(rule, occurrence, r, date)'
            <4>1. occurrence[r][date].state = "admitted" => <<r, date>> # id
                BY <1>1
            <4> QED BY <1>1, <3>1, <4>1 DEF RowKept
        <3> QED BY <1>1, <3>1, <3>2 DEF RuleKept, OneWaits, TaskRows
    <2> QED BY <2>1 DEF TablesKept
<1>4. LedgerKept(rule, occurrence, admission)'
    <2>1. LedgerKept(rule, occurrence, admission)
        BY DEF IInv, Kept
    <2>2. ASSUME NEW i \in 1 .. Len(admission)
          PROVE  EntryKept(rule, occurrence, admission[i])' /\ InCaps(SubSeq(admission, 1, i), admission[i])'
        <3>1. EntryKept(rule, occurrence, admission[i]) /\ InCaps(SubSeq(admission, 1, i), admission[i])
            BY <2>1, <2>2 DEF LedgerKept
        <3>2. EntryKept(rule, occurrence, admission[i])'
            BY <1>1, <3>1 DEF EntryKept, TaskEntry
        <3>3. InCaps(SubSeq(admission, 1, i), admission[i])'
            BY <1>1, <3>1 DEF InCaps
        <3> QED BY <3>2, <3>3
    <2> QED BY <1>1, <2>1, <2>2 DEF LedgerKept
<1>5. RefusalsKept(rule, occurrence, admission, refusal)'
    <2>1. ASSUME NEW f \in refusal PROVE RefusalKept(rule, occurrence, admission, f)'
        <3>1. RefusalKept(rule, occurrence, admission, f)
            BY DEF IInv, Kept, RefusalsKept
        <3> QED BY <1>1, <3>1 DEF RefusalKept, NotAdmitted, Refuses, Followed
    <2> QED BY <1>1, <2>1 DEF RefusalsKept
<1> QED BY <1>2, <1>3, <1>4, <1>5 DEF IInv, Kept

(***************************************************************************)
(* The tasks. A task that is created or cancelled changes no table: the    *)
(* rules and the entries of the others are as they were.                   *)
(***************************************************************************)
TaskRules(t, was, is) ==
    /\ is.state \in {"granted", "cancelled"} <=> was.state \in {"granted", "cancelled"}
    /\ was.state \in {"granted", "cancelled"} => is.version = was.version

LEMMA TaskChanged ==
    ASSUME IInv, NEW t \in Tasks, NEW to \in TaskRow, task' = [task EXCEPT ![t] = to],
           UNCHANGED <<rule, occurrence, recorded, admission, refusal, monitor, service>>,
           TaskRules(t, task[t], to),
           \A i \in 1 .. Len(admission) :
               Owner[admission[i].rule] = t /\ TaskEntry(task[t], admission[i]) => TaskEntry(to, admission[i]),
           to.state = "cancelled" =>
               \A r \in to.mask : Owner[r] = t /\ \E i \in 1 .. Len(admission) : admission[i].rule = r
    PROVE  IInv'
<1>1. /\ rule' = rule /\ occurrence' = occurrence /\ admission' = admission /\ refusal' = refusal
      /\ policy' = policy /\ actions' = actions /\ followed' = followed /\ service' = service
      /\ recorded' = recorded
      /\ Version' = Version /\ Latest' = Latest
    BY DEF monitor, Version, Latest
<1>2. /\ task \in [Tasks -> TaskRow] /\ task' \in [Tasks -> TaskRow] /\ task'[t] = to
      /\ \A u \in Tasks : u # t => task'[u] = task[u]
    BY DEF IInv, Scope
<1>3. Scope'
    BY <1>1, <1>2 DEF IInv, Scope
<1>4. Tables'
    BY <1>1 DEF IInv, Tables
<1>5. TablesKept(rule, occurrence)'
    <2>1. ASSUME NEW r \in Rules
          PROVE  /\ RuleKept(rule, r)' /\ OneWaits(occurrence, r)' /\ TaskRows(rule, occurrence, r)'
                 /\ \A date \in Dates : RowKept(rule, occurrence, r, date)'
        <3>1. /\ RuleKept(rule, r) /\ OneWaits(occurrence, r) /\ TaskRows(rule, occurrence, r)
              /\ \A date \in Dates : RowKept(rule, occurrence, r, date)
            BY DEF IInv, Kept, TablesKept
        <3>2. RuleKept(rule, r)'
            <4>1. CASE Owner[r] = t
                BY <1>1, <1>2, <3>1, <4>1 DEF RuleKept, TaskRules
            <4>2. CASE Owner[r] # t
                BY <1>1, <1>2, <3>1, <4>2 DEF RuleKept
            <4> QED BY <4>1, <4>2
        <3> QED BY <1>1, <3>1, <3>2 DEF OneWaits, TaskRows, RowKept
    <2> QED BY <2>1 DEF TablesKept
<1>6. LedgerKept(rule, occurrence, admission)'
    <2>1. LedgerKept(rule, occurrence, admission)
        BY DEF IInv, Kept
    <2>2. ASSUME NEW i \in 1 .. Len(admission)
          PROVE  EntryKept(rule, occurrence, admission[i])' /\ InCaps(SubSeq(admission, 1, i), admission[i])'
        <3> DEFINE e == admission[i]
        <3>1. EntryKept(rule, occurrence, e) /\ InCaps(SubSeq(admission, 1, i), e)
            BY <2>1, <2>2 DEF LedgerKept
        <3>2. Owner[e.rule] = t /\ TaskEntry(task[t], e) => TaskEntry(to, e)
            BY <2>2
        <3>3. EntryKept(rule, occurrence, e)'
            <4> HIDE DEF e
            <4>1. Owner[e.rule] \in Tasks => TaskEntry(task'[Owner[e.rule]], e)
                BY <1>2, <3>1, <3>2 DEF EntryKept
            <4>2. e' = e
                BY <1>1 DEF e
            <4> QED BY <1>1, <3>1, <4>1, <4>2 DEF EntryKept, TaskEntry
        <3>4. InCaps(SubSeq(admission, 1, i), e)'
            BY <1>1, <3>1 DEF InCaps
        <3> QED BY <3>3, <3>4
    <2>3. ASSUME NEW u \in Tasks, task'[u].state = "cancelled", NEW r \in task'[u].mask
          PROVE  Owner[r] = u /\ \E i \in 1 .. Len(admission) : admission[i].rule = r
        BY <1>2, <2>1, <2>3 DEF LedgerKept
    <2> QED BY <1>1, <2>1, <2>2, <2>3 DEF LedgerKept
<1>7. RefusalsKept(rule, occurrence, admission, refusal)'
    <2>1. ASSUME NEW f \in refusal PROVE RefusalKept(rule, occurrence, admission, f)'
        <3>1. RefusalKept(rule, occurrence, admission, f)
            BY DEF IInv, Kept, RefusalsKept
        <3> QED BY <1>1, <3>1 DEF RefusalKept, NotAdmitted, Refuses, Followed
    <2> QED BY <1>1, <2>1 DEF RefusalsKept
<1> QED BY <1>3, <1>4, <1>5, <1>6, <1>7 DEF IInv, Kept

LEMMA CreateTaskKeeps ==
    ASSUME IInv, NEW t \in Tasks, CreateTask(t)
    PROVE  IInv'
<1> DEFINE to == [state |-> "created", version |-> Version, actions |-> actions]
<1>1. /\ task[t].state = "none" /\ task' = [task EXCEPT ![t] = to]
      /\ UNCHANGED <<rule, occurrence, recorded, admission, refusal, monitor, service>>
    BY DEF CreateTask
<1>2. Version \in Nat /\ actions \in Nat
    BY SchedulesAssumption DEF IInv, Scope
<1>3. to \in TaskRow /\ to.state = "created"
    BY <1>2 DEF TaskRow
<1> HIDE DEF to
<1>4. TaskRules(t, task[t], to)
    BY <1>1, <1>3 DEF TaskRules
<1>5. \A i \in 1 .. Len(admission) : ~TaskEntry(task[t], admission[i])
    BY <1>1 DEF TaskEntry
<1> QED BY <1>1, <1>3, <1>4, <1>5, TaskChanged

LEMMA CancelCollectionKeeps ==
    ASSUME IInv, NEW t \in Tasks, NEW now \in Times, CancelCollection(t, now)
    PROVE  IInv'
<1> DEFINE mask == AdmittedRules(admission, t)
           to == [task[t] EXCEPT !.state = "cancelled", !.ended = now, !.mask = mask]
<1>1. admission \in Seq(Entry) /\ DOMAIN admission = 1 .. Len(admission)
    BY DEF IInv, Tables
<1>2. task[t].state = "granted" /\ task[t] \in TaskRow /\ task \in [Tasks -> TaskRow]
    BY DEF CancelCollection, IInv, Scope
<1>3. /\ UNCHANGED <<rule, occurrence, recorded, admission, refusal, monitor, service>>
      /\ \A i \in Admissions(admission, t) : now >= admission[i].at
    BY DEF CancelCollection, InOrder
<1>4. task' = [task EXCEPT ![t] = to]
    BY <1>2 DEF CancelCollection
<1>5. now \in Nat
    BY SchedulesAssumption
<1>6. /\ mask \in SUBSET Rules
      /\ \A r \in mask : Owner[r] = t /\ \E i \in 1 .. Len(admission) : admission[i].rule = r
      /\ \A i \in 1 .. Len(admission) : Owner[admission[i].rule] = t => admission[i].rule \in mask
    <2>1. \A i \in 1 .. Len(admission) : admission[i].rule \in Rules
        BY <1>1, EntryTyped
    <2> QED BY <1>1, <2>1 DEF AdmittedRules, Admissions
<1> HIDE DEF mask
<1>7. /\ to \in TaskRow /\ to.state = "cancelled" /\ to.version = task[t].version
      /\ to.actions = task[t].actions /\ to.granted = task[t].granted /\ to.ended = now /\ to.mask = mask
    <2> DEFINE Held == [state : {"granted", "cancelled"}, version : Nat, actions : Nat, granted : Nat,
                        ended : Nat, mask : SUBSET Rules]
    <2>1. task[t] \in Held
        BY <1>2 DEF TaskRow
    <2>2. /\ to \in Held /\ to.state = "cancelled" /\ to.version = task[t].version
          /\ to.actions = task[t].actions /\ to.granted = task[t].granted /\ to.ended = now /\ to.mask = mask
        BY <1>5, <1>6, <2>1
    <2>3. Held \subseteq TaskRow
        BY DEF TaskRow
    <2> HIDE DEF Held, to
    <2> QED BY <2>2, <2>3
<1> HIDE DEF to
<1>8. TaskRules(t, task[t], to)
    BY <1>2, <1>7 DEF TaskRules
<1>9. ASSUME NEW i \in 1 .. Len(admission), Owner[admission[i].rule] = t, TaskEntry(task[t], admission[i])
      PROVE  TaskEntry(to, admission[i])
    <2>1. i \in Admissions(admission, t)
        BY <1>1, <1>9 DEF Admissions
    <2>2. admission[i].at \in Nat /\ now >= admission[i].at
        <3>1. admission[i] \in Entry
            BY <1>1, <1>9
        <3>2. now >= admission[i].at
            BY <1>3, <2>1
        <3> QED BY <3>1, <3>2 DEF Entry
    <2>3. admission[i].at <= now /\ admission[i].rule \in mask
        BY <1>5, <1>6, <1>9, <2>2
    <2> QED BY <1>7, <1>9, <2>3 DEF TaskEntry
<1> QED BY <1>3, <1>4, <1>6, <1>7, <1>8, <1>9, TaskChanged

\* The one occurrence of a rule that a collection makes: the one date of its
\* clock, waiting or missed.
LEMMA OnlyDate ==
    ASSUME NEW rows \in AllRows, NEW r \in Rules, \A d \in Dates : rows[r][d] = NoRow,
           NEW plan \in RuleRow, plan.clock.once, NEW now
    PROVE  \E date \in Dates :
              /\ plan.clock.dates = {date}
              /\ Materialized(rows, r, plan, now) = Written(rows, r, date, Slot(plan, date, now))
<1>1. plan.clock \in Clocks
    BY DEF RuleRow
<1>2. PICK date \in Dates : plan.clock.dates = {date}
    BY <1>1, ClockTypes
<1>3. \A d \in Dates : rows[r][d].state = "none"
    BY DEF NoRow
<1>4. Rows(rows, r, "waiting") = {} /\ ~OpenAdmission(rows, r, now)
    BY <1>3 DEF Rows, OpenAdmission
<1>5. NextDates(rows, r, plan.clock, now) = {date}
    BY <1>2, <1>3 DEF NextDates, Taken
<1>6. date \in Nat
    BY <1>2, SchedulesAssumption
<1>7. Materializes(rows, r, plan, now) = {date}
    BY <1>4, <1>5, <1>6 DEF Materializes
<1>8. Min({date}) = date
    <2>1. {date} \in SUBSET Nat
        BY <1>6
    <2>2. Min({date}) \in {date}
        BY <2>1, SmallestIn
    <2> QED BY <2>2
<1>9. Materialized(rows, r, plan, now) = Written(rows, r, date, Slot(plan, date, now))
    BY <1>7, <1>8 DEF Materialized, Inserted, Written
<1> QED BY <1>2, <1>9

LEMMA StartCollectionKeeps ==
    ASSUME IInv, NEW t \in Tasks, NEW now \in Times, NEW plan,
           \A r \in RulesOf(t) : plan[r] \in Drafts[r],
           StartCollection(t, plan, now)
    PROVE  IInv'
<1> DEFINE of == RulesOf(t)
           to == [state |-> "granted", version |-> Version, actions |-> actions, granted |-> now,
                  ended |-> now, mask |-> {}]
           Slotted(r, date) == Slot(NewRule(plan[r]), date, now)
<1>1. /\ rule \in AllRules /\ occurrence \in AllRows /\ admission \in Seq(Entry)
      /\ refusal \in SUBSET Refusal /\ Kept(rule, occurrence, admission, refusal) /\ Scope
    BY DEF IInv, Tables
<1>2. /\ task[t].state = "created" /\ task' = [task EXCEPT ![t] = to]
      /\ admission' = admission /\ refusal' = refusal
      /\ policy' = policy /\ actions' = actions /\ followed' = followed /\ service' = service
      /\ recorded' = recorded
      /\ Version' = Version /\ Latest' = Latest
    BY DEF StartCollection, monitor, Version, Latest
<1>3. /\ rule' = [r \in Rules |-> IF r \in of THEN NewRule(plan[r]) ELSE rule[r]]
      /\ occurrence' = [r \in Rules |->
           IF r \in of THEN Materialized(occurrence, r, NewRule(plan[r]), now)[r] ELSE occurrence[r]]
    BY DEF StartCollection
<1>4. now \in Nat /\ Version \in 1 .. MaxVersions /\ Version \in Nat /\ actions \in Nat /\ MaxRevisions \in Nat
    BY <1>1, SchedulesAssumption DEF Scope
<1>5. /\ task \in [Tasks -> TaskRow] /\ to \in TaskRow /\ task' \in [Tasks -> TaskRow] /\ task'[t] = to
      /\ \A u \in Tasks : u # t => task'[u] = task[u]
    <2>1. task \in [Tasks -> TaskRow]
        BY <1>1 DEF Scope
    <2>2. to \in TaskRow
        BY <1>4 DEF TaskRow
    <2> HIDE DEF to
    <2> QED BY <1>2, <2>1, <2>2
<1>6. ASSUME NEW r \in of
      PROVE  /\ r \in Rules /\ Owner[r] = t /\ rule[r] = NoRow
             /\ \A d \in Dates : occurrence[r][d] = NoRow
             /\ plan[r] \in Clocks /\ plan[r].once /\ plan[r] \in Drafts[r]
             /\ \A date \in plan[r].dates : <<date, plan[r].hour>> \notin Springs
    <2>1. r \in Rules /\ Owner[r] = t
        BY <1>6 DEF RulesOf
    <2>2. RuleKept(rule, r)
        BY <1>1, <2>1 DEF Kept, TablesKept
    <2>3. rule[r] = NoRow
        BY <1>2, <2>1, <2>2 DEF RuleKept
    <2>4. \A d \in Dates : occurrence[r][d] = NoRow
        BY <1>1, <2>1, <2>3, NoRuleNoRows DEF Kept
    <2>5. plan[r] \in Drafts[r]
        BY <1>6
    <2>6. Drafts[r] \subseteq Clocks
        BY <2>1, SchedulesAssumption
    <2>7. plan[r].once /\ \A date \in plan[r].dates : <<date, plan[r].hour>> \notin Springs
        BY <2>1, <2>5, SchedulesAssumption
    <2> QED BY <2>1, <2>3, <2>4, <2>5, <2>6, <2>7
<1>7. ASSUME NEW r \in of
      PROVE  /\ rule'[r] \in RuleRow /\ rule'[r] # NoRow /\ rule'[r].clock = plan[r]
             /\ rule'[r].revision = 0 /\ rule'[r].version = Version
             /\ rule'[r] = NewRule(plan[r])
    <2>1. rule'[r] = NewRule(plan[r])
        BY <1>3, <1>6, <1>7
    <2> QED BY <1>4, <1>6, <1>7, <2>1 DEF NewRule, RuleRow, NoRow
<1>8. ASSUME NEW r \in of
      PROVE  \E date \in Dates :
                /\ plan[r].dates = {date}
                /\ occurrence'[r] \in [Dates -> {NoRow} \union Row]
                /\ \A d \in Dates : occurrence'[r][d] = IF d = date THEN Slotted(r, date) ELSE NoRow
                /\ Slotted(r, date) \in Row /\ Slotted(r, date) # NoRow
                /\ Slotted(r, date).state \in {"waiting", "missed"}
                /\ Slotted(r, date).hour = plan[r].hour /\ Slotted(r, date).length = plan[r].length
                /\ Slotted(r, date).bytes = plan[r].bytes /\ Slotted(r, date).revision = 0
    <2> DEFINE new == NewRule(plan[r])
    <2>1. new \in RuleRow /\ new.clock = plan[r] /\ new.revision = 0
        BY <1>7, <1>8
    <2>2. r \in Rules
        BY <1>6, <1>8
    <2>3. \A d \in Dates : occurrence[r][d] = NoRow
        BY <1>6, <1>8
    <2>4. new.clock.once
        BY <1>6, <1>8, <2>1
    <2> HIDE DEF new
    <2>5. PICK date \in Dates : /\ new.clock.dates = {date}
                                /\ Materialized(occurrence, r, new, now)
                                     = Written(occurrence, r, date, Slot(new, date, now))
        BY <1>1, <2>1, <2>2, <2>3, <2>4, OnlyDate
    <2> DEFINE row == Slot(new, date, now)
    <2>6. /\ row \in Row /\ row # NoRow /\ row.state \in {"waiting", "missed"}
          /\ row.hour = plan[r].hour /\ row.length = plan[r].length
          /\ row.bytes = plan[r].bytes /\ row.revision = 0
        BY <2>1, ClockTypes DEF Slot, Row, NoRow, RuleRow
    <2> HIDE DEF row
    <2>7. occurrence'[r] = Written(occurrence, r, date, row)[r]
        BY <1>3, <1>8, <2>2, <2>5 DEF new, row
    <2>8. /\ Written(occurrence, r, date, row) \in AllRows
          /\ Written(occurrence, r, date, row)[r][date] = row
          /\ \A d \in Dates : d # date => Written(occurrence, r, date, row)[r][d] = NoRow
        BY <1>1, <2>2, <2>3, <2>5, <2>6, WrittenRows
    <2>9. occurrence'[r] \in [Dates -> {NoRow} \union Row]
        BY <2>2, <2>7, <2>8 DEF AllRows
    <2>10. Slotted(r, date) = row
        BY DEF row, new
    <2> HIDE DEF Slotted
    <2> QED BY <2>1, <2>5, <2>6, <2>7, <2>8, <2>9, <2>10
<1> HIDE DEF to, Slotted
<1>9. \A r \in Rules : r \notin of => rule'[r] = rule[r] /\ occurrence'[r] = occurrence[r]
    BY <1>3
<1>10. rule' \in AllRules /\ occurrence' \in AllRows
    <2>1. \A r \in Rules : rule'[r] \in {NoRow} \union RuleRow
        BY <1>1, <1>7, <1>9 DEF AllRules
    <2>2. \A r \in Rules : occurrence'[r] \in [Dates -> {NoRow} \union Row]
        BY <1>1, <1>8, <1>9 DEF AllRows
    <2>3. rule' = [r \in Rules |-> rule'[r]] /\ occurrence' = [r \in Rules |-> occurrence'[r]]
        BY <1>3
    <2> QED BY <2>1, <2>2, <2>3 DEF AllRules, AllRows
<1>11. \A r \in Rules : r \notin of => Owner[r] # t
    BY DEF RulesOf
<1>12. to.state = "granted" /\ to.version = Version
    BY DEF to
<1>13. ASSUME NEW r \in Rules
       PROVE  /\ RuleKept(rule, r)' /\ OneWaits(occurrence, r)' /\ TaskRows(rule, occurrence, r)'
              /\ \A date \in Dates : RowKept(rule, occurrence, r, date)'
    <2>1. /\ RuleKept(rule, r) /\ OneWaits(occurrence, r) /\ TaskRows(rule, occurrence, r)
          /\ \A date \in Dates : RowKept(rule, occurrence, r, date)
        BY <1>1 DEF Kept, TablesKept
    <2>2. CASE r \notin of
        <3>1. rule'[r] = rule[r] /\ occurrence'[r] = occurrence[r] /\ Owner[r] # t
            BY <1>9, <1>11, <2>2
        <3> QED BY <1>2, <1>5, <2>1, <3>1 DEF RuleKept, OneWaits, TaskRows, RowKept
    <2>3. CASE r \in of
        <3>1. PICK date \in Dates :
                /\ plan[r].dates = {date}
                /\ \A d \in Dates : occurrence'[r][d] = IF d = date THEN Slotted(r, date) ELSE NoRow
                /\ Slotted(r, date) # NoRow
                /\ Slotted(r, date).state \in {"waiting", "missed"}
                /\ Slotted(r, date).hour = plan[r].hour /\ Slotted(r, date).length = plan[r].length
                /\ Slotted(r, date).bytes = plan[r].bytes /\ Slotted(r, date).revision = 0
            BY <1>8, <2>3
        <3>2. /\ rule'[r] # NoRow /\ rule'[r].clock = plan[r] /\ rule'[r].revision = 0
              /\ rule'[r].version = Version /\ Owner[r] = t /\ plan[r] \in Drafts[r]
            BY <1>6, <1>7, <2>3
        <3>3. RuleKept(rule, r)'
            BY <1>2, <1>4, <1>5, <1>12, <3>2 DEF RuleKept
        <3>4. OneWaits(occurrence, r)'
            BY <3>1 DEF OneWaits, NoRow
        <3>5. TaskRows(rule, occurrence, r)'
            BY <3>1, <3>2 DEF TaskRows
        <3>6. ASSUME NEW d \in Dates PROVE RowKept(rule, occurrence, r, d)'
            BY <3>1, <3>2 DEF RowKept
        <3> QED BY <3>3, <3>4, <3>5, <3>6
    <2> QED BY <2>2, <2>3
<1>14. TablesKept(rule, occurrence)'
    BY <1>13 DEF TablesKept
<1>15. ASSUME NEW i \in 1 .. Len(admission)
       PROVE  EntryKept(rule, occurrence, admission[i])' /\ InCaps(SubSeq(admission, 1, i), admission[i])'
    <2> DEFINE e == admission[i]
    <2>1. EntryKept(rule, occurrence, e) /\ InCaps(SubSeq(admission, 1, i), e)
        BY <1>1, <1>15 DEF Kept, LedgerKept
    <2>2. e \in Entry
        BY <1>1, <1>15
    <2>3. e' = e
        BY <1>2
    <2> HIDE DEF e
    <2>4. e.rule \in Rules
        BY <2>2 DEF Entry
    <2>5. Owner[e.rule] # t
        BY <1>2, <2>1 DEF EntryKept, TaskEntry
    <2>6. rule'[e.rule] = rule[e.rule] /\ occurrence'[e.rule] = occurrence[e.rule]
        BY <1>9, <2>4, <2>5 DEF RulesOf
    <2>7. EntryKept(rule, occurrence, e)'
        BY <1>2, <1>5, <2>1, <2>3, <2>5, <2>6 DEF EntryKept, TaskEntry
    <2>8. InCaps(SubSeq(admission, 1, i), e)'
        BY <1>2, <2>1, <2>3 DEF InCaps
    <2> QED BY <2>7, <2>8 DEF e
<1>16. LedgerKept(rule, occurrence, admission)'
    <2>1. LedgerKept(rule, occurrence, admission)
        BY <1>1 DEF Kept
    <2>2. ASSUME NEW r \in Rules, NEW date \in Dates, Owner[r] # "user", occurrence'[r][date].state = "admitted"
          PROVE  \E i \in 1 .. Len(admission) : admission[i].rule = r /\ admission[i].date = date
        <3>1. CASE r \notin of
            BY <1>9, <2>1, <2>2, <3>1 DEF LedgerKept
        <3>2. CASE r \in of
            <4>1. PICK d \in Dates : /\ occurrence'[r][date] = IF date = d THEN Slotted(r, d) ELSE NoRow
                                     /\ Slotted(r, d).state \in {"waiting", "missed"}
                BY <1>8, <2>2, <3>2
            <4> QED BY <2>2, <4>1 DEF NoRow
        <3> QED BY <3>1, <3>2
    <2>3. ASSUME NEW u \in Tasks, task'[u].state = "cancelled", NEW r \in task'[u].mask
          PROVE  Owner[r] = u /\ \E i \in 1 .. Len(admission) : admission[i].rule = r
        BY <1>5, <1>12, <2>1, <2>3 DEF LedgerKept
    <2> QED BY <1>2, <1>15, <2>1, <2>2, <2>3 DEF LedgerKept
<1>17. RefusalsKept(rule, occurrence, admission, refusal)'
    <2>1. ASSUME NEW f \in refusal PROVE RefusalKept(rule, occurrence, admission, f)'
        <3>1. RefusalKept(rule, occurrence, admission, f) /\ f.rule \in Rules
            BY <1>1 DEF Kept, RefusalsKept, Refusal
        <3>2. f.rule \notin of
            <4>1. rule[f.rule] # NoRow
                BY <3>1 DEF RefusalKept
            <4> HIDE DEF of
            <4> QED BY <1>6, <4>1
        <3>3. rule'[f.rule] = rule[f.rule] /\ occurrence'[f.rule] = occurrence[f.rule]
            BY <1>9, <3>1, <3>2
        <3> QED BY <1>2, <3>1, <3>3 DEF RefusalKept, NotAdmitted, Refuses, Followed
    <2> QED BY <1>2, <2>1 DEF RefusalsKept
<1>18. Scope'
    BY <1>1, <1>2, <1>5 DEF Scope
<1>19. Tables'
    BY <1>1, <1>2, <1>10 DEF Tables
<1> QED BY <1>14, <1>16, <1>17, <1>18, <1>19 DEF IInv, Kept

\* The rules of a task that is granted were not there, and so had no row.
LEMMA OtherStepsFinal ==
    ASSUME IInv,
           \/ Propose
           \/ \E p \in Policies : ReviseMonitor(p)
           \/ \E id \in ClientIds : RecordStart(id)
           \/ \E t \in Tasks : CreateTask(t) \/ \E now \in Times : CancelCollection(t, now)
    PROVE  Final
<1>1. UNCHANGED <<rule, occurrence, admission, refusal>>
    BY DEF Propose, ReviseMonitor, RecordStart, CreateTask, CancelCollection
<1>2. policy' = policy \/ \E p \in Policies : policy' = Append(policy, p)
    BY DEF Propose, ReviseMonitor, RecordStart, CreateTask, CancelCollection, monitor
<1>3. ASSUME NEW p \in Policies, policy' = Append(policy, p) PROVE Extended(policy, policy')
    <2>1. policy \in Seq(Policies \union {FirstPolicy})
        BY DEF IInv, Scope
    <2>2. Len(policy) \in Nat
        BY <2>1
    <2> QED BY <1>3, <2>1, <2>2, AppendIs DEF Extended
<1> QED BY <1>1, <1>2, <1>3, SameFinal

LEMMA StartCollectionFinal ==
    ASSUME IInv, NEW t \in Tasks, NEW now \in Times, NEW plan, StartCollection(t, plan, now)
    PROVE  Final
<1>1. /\ rule \in AllRules /\ admission \in Seq(Entry) /\ policy \in Seq(Policies \union {FirstPolicy})
      /\ TablesKept(rule, occurrence)
    BY DEF IInv, Tables, Scope, Kept
<1>2. task[t].state = "created" /\ UNCHANGED <<admission, refusal, policy>>
    BY DEF StartCollection, monitor
<1>3. ASSUME NEW r \in Rules, r \notin RulesOf(t)
      PROVE  rule'[r] = rule[r] /\ occurrence'[r] = occurrence[r]
    BY <1>3 DEF StartCollection
<1>4. ASSUME NEW r \in RulesOf(t)
      PROVE  rule[r] = NoRow /\ \A date \in Dates : occurrence[r][date] = NoRow
    <2>1. r \in Rules /\ Owner[r] = t
        BY DEF RulesOf
    <2>2. RuleKept(rule, r)
        BY <1>1, <2>1 DEF TablesKept
    <2>3. rule[r] = NoRow
        BY <1>2, <2>1, <2>2 DEF RuleKept
    <2> QED BY <1>1, <2>1, <2>3, NoRuleNoRows
<1>5. RowsFinal(occurrence, occurrence')
    <2>1. ASSUME NEW r \in Rules, NEW date \in Dates, occurrence[r][date].state \in {"missed", "admitted"}
          PROVE  occurrence'[r][date] = occurrence[r][date]
        <3>1. r \notin RulesOf(t)
            BY <1>4, <2>1 DEF NoRow
        <3> QED BY <1>3, <3>1
    <2> QED BY <2>1 DEF RowsFinal
<1>6. RulesStay(rule')
    <2>1. ASSUME NEW r \in Rules, rule[r] # NoRow PROVE rule'[r] = rule[r] /\ rule[r].revision \in Nat
        BY <1>1, <1>3, <1>4, <2>1, RuleTypes
    <2> QED BY <2>1 DEF RulesStay
<1>7. Extended(admission, admission') /\ Extended(policy, policy')
    BY <1>1, <1>2, SameExtended
<1> QED BY <1>2, <1>5, <1>6, <1>7 DEF Final

LEMMA InitKeeps == Init => IInv
<1> SUFFICES ASSUME Init PROVE IInv
    OBVIOUS
<1>1. /\ rule = [r \in Rules |-> NoRow] /\ occurrence = [r \in Rules |-> [date \in Dates |-> NoRow]]
      /\ admission = <<>> /\ refusal = {} /\ policy = <<FirstPolicy>> /\ followed = FirstPolicy.sources
      /\ actions = 0 /\ task = [t \in Tasks |-> [state |-> "none"]] /\ service = "stopped"
      /\ recorded = {}
    BY DEF Init
<1>2. MaxVersions \in Nat \ {0} /\ MaxActions \in Nat
    BY SchedulesAssumption
<1>3. Scope
    <2>1. policy \in Seq(Policies \union {FirstPolicy}) /\ Len(policy) = 1
        BY <1>1
    <2>2. Version \in 1 .. MaxVersions
        BY <1>2, <2>1 DEF Version
    <2>3. task \in [Tasks -> TaskRow]
        BY <1>1 DEF TaskRow
    <2>4. followed \subseteq UNION {p.sources \union p.candidates : p \in Policies \union {FirstPolicy}}
        BY <1>1
    <2> QED BY <1>1, <1>2, <2>1, <2>2, <2>3, <2>4 DEF Scope
<1>4. rule \in AllRules /\ occurrence \in AllRows /\ admission \in Seq(Entry) /\ refusal \in SUBSET Refusal
    BY <1>1 DEF AllRules, AllRows
<1>5. TablesKept(rule, occurrence)
    <2>1. \A r \in Rules : rule[r] = NoRow /\ \A date \in Dates : occurrence[r][date] = NoRow
        BY <1>1
    <2>2. \A t \in Tasks : task[t].state = "none"
        BY <1>1
    <2>3. NoRow.state = "none"
        BY DEF NoRow
    <2> HIDE DEF NoRow
    <2> QED BY <2>1, <2>2, <2>3 DEF TablesKept, RuleKept, RowKept, OneWaits, TaskRows
<1>6. LedgerKept(rule, occurrence, admission)
    <2>1. 1 .. Len(admission) = {}
        BY <1>1
    <2>2. \A r \in Rules, date \in Dates : occurrence[r][date].state = "none"
        BY <1>1 DEF NoRow
    <2>3. \A t \in Tasks : task[t].state = "none"
        BY <1>1
    <2> QED BY <2>1, <2>2, <2>3 DEF LedgerKept
<1>7. RefusalsKept(rule, occurrence, admission, refusal)
    BY <1>1 DEF RefusalsKept
<1> QED BY <1>3, <1>4, <1>5, <1>6, <1>7 DEF IInv, Tables, Kept

LEMMA NextKeeps == IInv /\ [Next]_vars => IInv' /\ Final
<1> SUFFICES ASSUME IInv, [Next]_vars PROVE IInv' /\ Final
    OBVIOUS
<1>1. CASE UNCHANGED vars
    <2>1. UNCHANGED <<recorded, monitor, task>> /\ Kept(rule', occurrence', admission', refusal')
        BY <1>1 DEF vars, monitor, IInv
    <2>2. Kept(rule, occurrence, admission, refusal)'
        BY <2>1, KeptFrame
    <2>3. Scope' /\ Tables'
        BY <1>1 DEF vars, IInv, Scope, Tables, Version
    <2>4. Final
        BY <1>1, SameFinal DEF vars
    <2> QED BY <2>2, <2>3, <2>4 DEF IInv
<1>2. ASSUME NEW now \in Times, NEW c \in Conditions, Serve(now, c) \/ Boot(now, c)
      PROVE  IInv' /\ Final
    BY <1>2, ServeKeeps
<1>3. ASSUME NEW r \in Rules, NEW now \in Times, NEW c \in Conditions, NEW clock \in Drafts[r],
             Create(r, clock, now, c)
      PROVE  IInv' /\ Final
    BY <1>3, CreateKeeps
<1>4. ASSUME NEW r \in Rules, NEW now \in Times, NEW c \in Conditions, NEW clock \in Drafts[r],
             Revise(r, clock, now, c)
      PROVE  IInv' /\ Final
    BY <1>4, ReviseKeeps
<1>5. ASSUME NEW p \in Policies, ReviseMonitor(p)
      PROVE  IInv' /\ Final
    BY <1>5, ReviseMonitorKeeps, OtherStepsFinal
<1>6. CASE Propose
    BY <1>6, ProposeKeeps, OtherStepsFinal
<1>7. ASSUME NEW t \in Tasks, CreateTask(t)
      PROVE  IInv' /\ Final
    BY <1>7, CreateTaskKeeps, OtherStepsFinal
<1>8. ASSUME NEW t \in Tasks, NEW now \in Times, CancelCollection(t, now)
      PROVE  IInv' /\ Final
    BY <1>8, CancelCollectionKeeps, OtherStepsFinal
<1>9. ASSUME NEW t \in Tasks, NEW now \in Times,
             NEW plan \in {p \in [RulesOf(t) -> UNION {Drafts[r] : r \in RulesOf(t)}] :
                               \A r \in RulesOf(t) : p[r] \in Drafts[r]},
             StartCollection(t, plan, now)
      PROVE  IInv' /\ Final
    <2>1. \A r \in RulesOf(t) : plan[r] \in Drafts[r]
        OBVIOUS
    <2> QED BY <1>9, <2>1, StartCollectionKeeps, StartCollectionFinal
<1>10. ASSUME NEW id \in ClientIds, RecordStart(id)
       PROVE  IInv' /\ Final
    BY <1>10, RecordStartKeeps, OtherStepsFinal
<1> QED BY <1>1, <1>2, <1>3, <1>4, <1>5, <1>6, <1>7, <1>8, <1>9, <1>10 DEF Next

\* Every reachable state keeps the tables, the ledger and the refusals: what
\* the readers and the audits of schedules rest on.
THEOREM Invariance == Spec => []IInv
<1>1. Init => IInv
    BY InitKeeps
<1>2. IInv /\ [Next]_vars => IInv'
    BY NextKeeps
<1> QED BY <1>1, <1>2, PTL DEF Spec

(***************************************************************************)
(* What follows of the invariant.                                          *)
(***************************************************************************)

\* A set whose members are all the same.
LEMMA AtMostOne ==
    ASSUME NEW S, \A x, y \in S : x = y
    PROVE  /\ Cardinality(S) \in {0, 1} /\ Cardinality(S) <= 1
           /\ S # {} => Cardinality(S) = 1
           /\ S = {} => Cardinality(S) = 0
<1>1. CASE S = {}
    BY <1>1, FS_EmptySet
<1>2. CASE S # {}
    <2>1. PICK x \in S : S = {x}
        BY <1>2
    <2> QED BY <1>2, <2>1, FS_Singleton
<1> QED BY <1>1, <1>2

LEMMA IInvTypes == IInv => TypeOK
<1> SUFFICES ASSUME IInv PROVE TypeOK
    OBVIOUS
<1>1. rule \in AllRules /\ occurrence \in AllRows /\ Kept(rule, occurrence, admission, refusal)
    BY DEF IInv, Tables
<1>2. ASSUME NEW r \in Rules
      PROVE  /\ rule[r] = NoRow \/ rule[r] \in [state : {"rule"}, clock : Drafts[r],
                                               revision : 0 .. MaxRevisions, version : 1 .. Version]
             /\ \A date \in Dates : occurrence[r][date] # NoRow => RowTyped(r, occurrence[r][date])
             /\ Cardinality(Rows(occurrence, r, "waiting")) <= 1
             /\ \A date \in Rows(occurrence, r, "waiting") :
                  occurrence[r][date].revision = rule[r].revision
             /\ \A date \in Rows(occurrence, r, "admitted") :
                  <<date, occurrence[r][date].hour>> \notin Springs /\ <<r, date>> \notin recorded
    <2>1. /\ RuleKept(rule, r) /\ OneWaits(occurrence, r)
          /\ \A date \in Dates : RowKept(rule, occurrence, r, date)
        BY <1>1 DEF Kept, TablesKept
    <2>2. rule[r] # NoRow => rule[r] \in [state : {"rule"}, clock : Drafts[r],
                                         revision : 0 .. MaxRevisions, version : 1 .. Version]
        BY <1>1, <2>1, RuleTypes DEF RuleRow, RuleKept
    <2>3. ASSUME NEW date \in Dates, occurrence[r][date] # NoRow
          PROVE  RowTyped(r, occurrence[r][date])
        <3>1. /\ rule[r] # NoRow /\ occurrence[r][date].revision <= rule[r].revision
              /\ \E clock \in Drafts[r] :
                    <<occurrence[r][date].hour, occurrence[r][date].length, occurrence[r][date].bytes>>
                      = <<clock.hour, clock.length, clock.bytes>>
            BY <2>1, <2>3 DEF RowKept
        <3>2. occurrence[r][date].revision \in Nat /\ rule[r].revision \in Nat
            BY <1>1, <2>3, <3>1, RowTypes, RuleTypes
        <3>3. occurrence[r][date].state \in {"waiting", "missed", "admitted"}
            BY <1>1, <2>3, RowTypes
        <3>4. occurrence[r][date].revision \in 0 .. rule[r].revision
            BY <3>1, <3>2
        <3> QED BY <3>1, <3>3, <3>4 DEF RowTyped
    <2>4. Cardinality(Rows(occurrence, r, "waiting")) <= 1
        <3>1. \A x, y \in Rows(occurrence, r, "waiting") : x = y
            BY <2>1 DEF Rows, OneWaits
        <3> QED BY <3>1, AtMostOne
    <2>5. ASSUME NEW date \in Dates, occurrence[r][date].state \in {"waiting", "admitted"}
          PROVE  /\ occurrence[r][date].state = "waiting" => occurrence[r][date].revision = rule[r].revision
                 /\ occurrence[r][date].state = "admitted" =>
                       <<date, occurrence[r][date].hour>> \notin Springs /\ <<r, date>> \notin recorded
        <3>1. occurrence[r][date] # NoRow
            BY <2>5 DEF NoRow
        <3> QED BY <2>1, <2>5, <3>1 DEF RowKept
    <2> QED BY <2>2, <2>3, <2>4, <2>5 DEF Rows
<1>3. \A t \in Tasks : task[t].state \in {"none", "created", "granted", "cancelled"}
    BY DEF IInv, Scope, TaskRow
<1> QED BY <1>2, <1>3 DEF IInv, Scope, TypeOK

LEMMA IInvLedger == IInv => LedgerAudits
<1> SUFFICES ASSUME IInv PROVE LedgerAudits
    OBVIOUS
<1>1. /\ admission \in Seq(Entry) /\ DOMAIN admission = 1 .. Len(admission) /\ Len(admission) \in Nat
      /\ LedgerKept(rule, occurrence, admission)
    BY DEF IInv, Tables, Kept
<1>2. \A i \in 1 .. Len(admission) : admission[i] \in Entry
    BY <1>1
<1>3. ASSUME NEW i \in 1 .. Len(admission)
      PROVE  /\ InCaps(SubSeq(admission, 1, i), admission[i])
             /\ admission[i].version >= rule[admission[i].rule].version
             /\ policy[admission[i].version].capture
             /\ i > 1 => /\ admission[i].version >= admission[i - 1].version
                         /\ admission[i].action >= admission[i - 1].action
    <2>1. EntryKept(rule, occurrence, admission[i]) /\ InCaps(SubSeq(admission, 1, i), admission[i])
        BY <1>1, <1>3 DEF LedgerKept
    <2>2. ASSUME i > 1
          PROVE  /\ admission[i].version >= admission[i - 1].version
                 /\ admission[i].action >= admission[i - 1].action
        <3>1. i - 1 \in 1 .. Len(admission) /\ i - 1 < i
            BY <1>1, <1>3, <2>2
        <3>2. /\ admission[i - 1].version <= admission[i].version
              /\ admission[i - 1].action <= admission[i].action
            BY <1>1, <3>1 DEF LedgerKept
        <3>3. /\ admission[i].version \in Nat /\ admission[i].action \in Nat
              /\ admission[i - 1].version \in Nat /\ admission[i - 1].action \in Nat
            BY <1>2, <3>1 DEF Entry
        <3> QED BY <3>2, <3>3
    <2> QED BY <2>1, <2>2 DEF EntryKept
<1>4. ASSUME NEW r \in Rules, NEW date \in Dates
      PROVE  Cardinality({i \in 1 .. Len(admission) : admission[i].rule = r /\ admission[i].date = date})
               = IF Owner[r] # "user" /\ occurrence[r][date].state = "admitted" THEN 1 ELSE 0
    <2> DEFINE S == {i \in 1 .. Len(admission) : admission[i].rule = r /\ admission[i].date = date}
    <2>1. \A x, y \in S : x = y
        BY <1>1 DEF LedgerKept
    <2>2. Owner[r] # "user" /\ occurrence[r][date].state = "admitted" => S # {}
        BY <1>1 DEF LedgerKept
    <2>3. S # {} => Owner[r] # "user" /\ occurrence[r][date].state = "admitted"
        <3>1. ASSUME NEW i \in S PROVE Owner[r] # "user" /\ occurrence[r][date].state = "admitted"
            <4>1. EntryKept(rule, occurrence, admission[i])
                BY <1>1 DEF LedgerKept
            <4> QED BY <4>1 DEF EntryKept, Reserved
        <3> QED BY <3>1
    <2> HIDE DEF S
    <2>4. Cardinality(S) = IF Owner[r] # "user" /\ occurrence[r][date].state = "admitted" THEN 1 ELSE 0
        BY <2>1, <2>2, <2>3, AtMostOne
    <2> QED BY <2>4 DEF S
<1> QED BY <1>1, <1>3, <1>4 DEF LedgerAudits, InCaps

LEMMA IInvCollections == IInv => CollectionsAudit
<1> SUFFICES ASSUME IInv, NEW t \in Tasks, task[t].state \in {"granted", "cancelled"}
             PROVE  /\ \A r \in RulesOf(t) :
                         /\ rule[r] # NoRow /\ rule[r].version = task[t].version
                         /\ Cardinality({date \in Dates : occurrence[r][date] # NoRow}) = 1
                    /\ \A i \in Admissions(admission, t) :
                         LET a == admission[i]
                         IN /\ a.at >= Start(a.date, a) /\ a.at < End(a.date, a)
                            /\ a.at >= task[t].granted
                            /\ a.version = task[t].version /\ a.action = task[t].actions
                            /\ task[t].state = "cancelled" => a.at <= task[t].ended
                    /\ task[t].state = "cancelled" => task[t].mask = AdmittedRules(admission, t)
    BY DEF CollectionsAudit
<1>1. /\ rule \in AllRules /\ DOMAIN admission = 1 .. Len(admission)
      /\ TablesKept(rule, occurrence) /\ LedgerKept(rule, occurrence, admission)
    BY DEF IInv, Tables, Kept
<1>2. ASSUME NEW r \in RulesOf(t)
      PROVE  /\ rule[r] # NoRow /\ rule[r].version = task[t].version
             /\ Cardinality({date \in Dates : occurrence[r][date] # NoRow}) = 1
    <2>1. r \in Rules /\ Owner[r] = t
        BY DEF RulesOf
    <2>2. RuleKept(rule, r) /\ TaskRows(rule, occurrence, r)
        BY <1>1, <2>1 DEF TablesKept
    <2>3. rule[r] # NoRow /\ rule[r].version = task[t].version /\ rule[r].clock \in Drafts[r]
        BY <2>1, <2>2 DEF RuleKept
    <2>4. rule[r].clock \in Clocks /\ rule[r].clock.once
        BY <1>1, <2>1, <2>3, RuleTypes, SchedulesAssumption
    <2>5. PICK date \in Dates : rule[r].clock.dates = {date}
        BY <2>4, ClockTypes
    <2>6. {d \in Dates : occurrence[r][d] # NoRow} = {date}
        BY <2>1, <2>2, <2>3, <2>5 DEF TaskRows
    <2> QED BY <2>3, <2>6, FS_Singleton
<1>3. ASSUME NEW i \in Admissions(admission, t)
      PROVE  /\ admission[i].at >= Start(admission[i].date, admission[i])
             /\ admission[i].at < End(admission[i].date, admission[i])
             /\ TaskEntry(task[t], admission[i])
    <2>1. i \in 1 .. Len(admission) /\ Owner[admission[i].rule] = t
        BY <1>1 DEF Admissions
    <2>2. EntryKept(rule, occurrence, admission[i])
        BY <1>1, <2>1 DEF LedgerKept
    <2> QED BY <2>1, <2>2 DEF EntryKept
<1>4. ASSUME task[t].state = "cancelled"
      PROVE  task[t].mask = AdmittedRules(admission, t)
    <2>1. ASSUME NEW r \in task[t].mask PROVE r \in AdmittedRules(admission, t)
        <3>1. Owner[r] = t /\ \E i \in 1 .. Len(admission) : admission[i].rule = r
            BY <1>1, <1>4 DEF LedgerKept
        <3> QED BY <1>1, <3>1 DEF AdmittedRules, Admissions
    <2>2. ASSUME NEW r \in AdmittedRules(admission, t) PROVE r \in task[t].mask
        BY <1>3, <1>4 DEF AdmittedRules, TaskEntry
    <2> QED BY <2>1, <2>2
<1>5. ASSUME NEW i \in Admissions(admission, t)
      PROVE  /\ admission[i].at >= task[t].granted
             /\ admission[i].version = task[t].version /\ admission[i].action = task[t].actions
             /\ task[t].state = "cancelled" => admission[i].at <= task[t].ended
    BY <1>3 DEF TaskEntry
<1> QED BY <1>2, <1>3, <1>4, <1>5

LEMMA IInvRefusals == IInv => CapRefusalsFinal
<1> SUFFICES ASSUME IInv, NEW f \in refusal, f.why \in {"total-cap", "byte-cap", "daily-cap"},
                    NEW i \in DOMAIN admission,
                    <<admission[i].rule, admission[i].date, admission[i].revision, admission[i].version>>
                      = <<f.rule, f.date, f.revision, f.version>>
             PROVE  FALSE
    BY DEF CapRefusalsFinal
<1>1. DOMAIN admission = 1 .. Len(admission) /\ RefusalKept(rule, occurrence, admission, f)
    BY DEF IInv, Tables, Kept, RefusalsKept
<1>2. NotAdmitted(admission, f)
    BY <1>1 DEF RefusalKept, ByCap
<1> QED BY <1>1, <1>2 DEF NotAdmitted

LEMMA IInvPasses == IInv => UnrevisedRulesPass
<1> SUFFICES ASSUME IInv, \A r \in Rules : rule[r] # NoRow => rule[r].revision = 0, Undisturbed,
                    NEW now \in Times, NEW c \in Conditions, c.listening = {}, c.reclaimed > 0
             PROVE  Pass(Beginning(c), now, c).outcome # "failed"
    BY DEF UnrevisedRulesPass
<1> DEFINE gone == {id \in recorded : occurrence[id[1]][id[2]].state = "missed"}
           pass == Pass(Beginning(c), now, c)
<1>1. rule \in AllRules /\ occurrence \in AllRows /\ Kept(rule, occurrence, admission, refusal) /\ Tables /\ Scope
    BY DEF IInv, Tables
<1>2. Gone(occurrence, gone)
    BY <1>1, SchedulesAssumption DEF Scope, Gone
<1>3. Untroubled(rule, c, gone)
    BY DEF Undisturbed, Untroubled, Unrevised
<1> HIDE DEF gone
<1>4. [Beginning(c) EXCEPT !.rules = rule, !.rows = occurrence] \in Sound(rule, c, gone)
    BY <1>1, <1>2, StartSound
<1>5. Beginning(c) \in Sound(rule, c, gone)
    BY <1>4, BeginningSame
<1>6. now \in Nat
    BY SchedulesAssumption
<1>7. pass \in Settled(rule, c, gone)
    BY <1>1, <1>5, <1>6, PassSettles
<1> HIDE DEF pass
<1>8. pass.outcome # "failed"
    BY <1>7, <1>3, SettledIs
<1> QED BY <1>8 DEF pass

\* Rules keep to their drafts, rows to the clocks of their rules, and a rule
\* has at most one waiting occurrence, of its present revision, although
\* clients revise rules while passes admit and miss; an admitted occurrence
\* never has the id of a client's recording (schedules.rs, dvr.rs).
THEOREM ScheduleTypes == Spec => []TypeOK
BY Invariance, IInvTypes, PTL

\* After each reservation the sums keep the caps of the version that made it,
\* versions and actions never go back, and the reservations are exactly the
\* admitted occurrences of owned rules (monitors/capture.rs, audit.sql).
THEOREM LedgerPassesAudit == Spec => []LedgerAudits
BY Invariance, IInvLedger, PTL

\* A granted or cancelled collection reads back: one occurrence for each rule,
\* admissions inside their windows, after the grant and under its scope, and
\* the receipt of a cancellation names exactly what was admitted
\* (tasks/collection.rs).
THEOREM CollectionsRead == Spec => []CollectionsAudit
BY Invariance, IInvCollections, PTL

\* What a cap of a version refused is never admitted under that version.
THEOREM RefusalsStand == Spec => []CapRefusalsFinal
BY Invariance, IInvRefusals, PTL

\* While no rule has been revised and no client's recording has the id of an
\* occurrence that may still be admitted, no pass over free stations with
\* space to reclaim fails, at any time (schedules.rs, dvr.rs).
THEOREM UnrevisedPasses == Spec => []UnrevisedRulesPass
BY Invariance, IInvPasses, PTL

\* An occurrence that was admitted or missed keeps its row, and reservations,
\* refusals and versions are only added, whatever clients, monitor and passes
\* do (schedules.rs, monitors/capture.rs).
THEOREM DecisionsStand == Spec => DecisionsFinal
<1>1. IInv /\ [Next]_vars => [Final]_vars
    BY NextKeeps
<1> QED BY <1>1, Invariance, PTL DEF Spec, DecisionsFinal
=============================================================================
