------------------------------ MODULE FairProofs ------------------------------
(***************************************************************************)
(* Proofs about FairClaims: how long a claim can be passed over, for every *)
(* value of its constants.                                                 *)
(***************************************************************************)
EXTENDS FairClaims, TotalProofs

\* Successive remainders.
LEMMA NextRemainder ==
    ASSUME NEW p \in Nat \ {0}, NEW n \in Nat, n % p # p - 1
    PROVE  (n + 1) % p = (n % p) + 1
<1>1. n % p \in 0 .. p - 1
    OBVIOUS
<1>2. n = p * (n \div p) + (n % p)
    OBVIOUS
<1>3. n + 1 = p * (n \div p) + ((n % p) + 1) /\ (n % p) + 1 \in 0 .. p - 1
    BY <1>1, <1>2
<1>4. ASSUME NEW q \in Int, NEW a \in Int, NEW r \in 0 .. p - 1, NEW t \in 0 .. p - 1,
             p * q + r = p * a + t
      PROVE  q = a
    <2>1. p * (q - a) = t - r
        BY <1>4
    <2>2. CASE q - a >= 1
        <3>1. p * (q - a) >= p
            BY <2>2
        <3> QED BY <2>1, <3>1
    <2>3. CASE q - a <= -1
        <3>1. p * (a - q) >= p
            BY <2>3
        <3>2. p * (a - q) = r - t
            BY <2>1
        <3> QED BY <3>1, <3>2
    <2> QED BY <2>2, <2>3
<1>5. /\ (n + 1) % p \in 0 .. p - 1 /\ (n + 1) \div p \in Int /\ n \div p \in Int
      /\ n + 1 = p * ((n + 1) \div p) + ((n + 1) % p)
    OBVIOUS
<1>6. (n + 1) \div p = n \div p
    BY <1>3, <1>4, <1>5
<1> QED BY <1>1, <1>3, <1>5, <1>6

-----------------------------------------------------------------------------
(***************************************************************************)
(* What the scheduler chooses is a waiting job.                            *)
(***************************************************************************)

LEMMA KeyTypes ==
    ASSUME TypeOK, NEW j \in Jobs
    PROVE  Key(j)[1] \in Nat /\ Key(j)[2] \in Nat /\ Key(j)[3] = j
BY FairClaimsAssumption DEF FairClaimsAssumption, TypeOK, Key

\* Keys order any set of jobs, so that it has a first one.
LEMMA FirstIn ==
    ASSUME TypeOK, NEW S \in SUBSET Jobs, S # {}
    PROVE  First(S) \in S
<1>1. \A j \in S : /\ j \in Nat /\ Key(j)[1] \in Nat /\ Key(j)[2] \in Nat /\ Key(j)[3] = j
    BY KeyTypes, FairClaimsAssumption DEF FairClaimsAssumption
<1>2. PICK a \in S : \A k \in S : Key(a)[1] <= Key(k)[1]
    <2> DEFINE P == {Key(j)[1] : j \in S}
    <2>1. P \in SUBSET Nat /\ P # {}
        BY <1>1
    <2>2. PICK m \in P : \A p \in P : m <= p
        BY <2>1, Smallest
    <2> QED BY <2>2
<1> DEFINE A == {j \in S : Key(j)[1] = Key(a)[1]}
<1>3. PICK b \in A : \A k \in A : Key(b)[2] <= Key(k)[2]
    <2> DEFINE P == {Key(j)[2] : j \in A}
    <2>1. P \in SUBSET Nat /\ P # {}
        BY <1>1
    <2>2. PICK m \in P : \A p \in P : m <= p
        BY <2>1, Smallest
    <2> QED BY <2>2
<1> DEFINE B == {j \in A : Key(j)[2] = Key(b)[2]}
<1>4. PICK c \in B : \A k \in B : c <= k
    <2>1. B \in SUBSET Nat /\ B # {}
        BY <1>1
    <2> QED BY <2>1, Smallest
<1>5. ASSUME NEW k \in S \ {c} PROVE Before(Key(c), Key(k))
    <2>1. c \in S /\ Key(c)[1] = Key(a)[1] /\ Key(c)[2] = Key(b)[2] /\ Key(c)[3] = c
        BY <1>1
    <2>2. CASE Key(k)[1] # Key(a)[1]
        BY <1>1, <1>2, <2>1, <2>2 DEF Before
    <2>3. CASE Key(k)[1] = Key(a)[1] /\ Key(k)[2] # Key(b)[2]
        BY <1>1, <1>3, <2>1, <2>3 DEF Before
    <2>4. CASE k \in B
        BY <1>1, <1>4, <2>1, <2>4 DEF Before
    <2> QED BY <2>2, <2>3, <2>4
<1>6. \E j \in S : \A k \in S \ {j} : Before(Key(j), Key(k))
    BY <1>5
<1> QED BY <1>6 DEF First

LEMMA CandidatesWait ==
    ASSUME TypeOK, NEW c \in Classes
    PROVE  /\ Candidates(c) \subseteq Jobs /\ Candidates(c) \subseteq waiting
           /\ SourcesWaiting(c) \subseteq Sources /\ SourcesWaiting(c) \subseteq Nat
           /\ Candidates(c) # {} => SourcesWaiting(c) # {}
<1>1. Candidates(c) \subseteq waiting /\ waiting \subseteq Jobs
    BY DEF TypeOK, Candidates
<1>2. /\ \A j \in Jobs : SourceOf[j] \in Sources
      /\ Sources \subseteq Nat
    BY FairClaimsAssumption DEF FairClaimsAssumption
<1>3. SourcesWaiting(c) \subseteq Sources
    BY <1>1, <1>2 DEF SourcesWaiting
<1>4. ASSUME NEW j \in Candidates(c) PROVE SourceOf[j] \in SourcesWaiting(c)
    BY DEF SourcesWaiting
<1> QED BY <1>1, <1>2, <1>3, <1>4

\* The rotation's next source: the first one past the last, or the first.
TurnOf(c) == LET later == {s \in SourcesWaiting(c) : s > cursor.last[c]}
             IN  SmallestOf(IF later = {} THEN SourcesWaiting(c) ELSE later)

LEMMA TurnWaits ==
    ASSUME TypeOK, NEW c \in Classes, Candidates(c) # {}
    PROVE  /\ TurnOf(c) \in SourcesWaiting(c)
           /\ \/ /\ TurnOf(c) > cursor.last[c]
                 /\ \A s \in SourcesWaiting(c) : s > cursor.last[c] => TurnOf(c) <= s
              \/ /\ \A s \in SourcesWaiting(c) : ~(s > cursor.last[c])
                 /\ \A s \in SourcesWaiting(c) : TurnOf(c) <= s
<1> DEFINE later == {s \in SourcesWaiting(c) : s > cursor.last[c]}
           from == IF later = {} THEN SourcesWaiting(c) ELSE later
<1>1. from \in SUBSET Nat /\ from # {}
    BY CandidatesWait
<1>2. \E s \in from : \A r \in from : s <= r
    BY <1>1, Smallest
<1>3. TurnOf(c) = SmallestOf(from)
    BY DEF TurnOf
<1> HIDE DEF from
<1>4. TurnOf(c) \in from /\ \A r \in from : TurnOf(c) <= r
    BY <1>2, <1>3 DEF SmallestOf
<1>5. CASE later = {}
    <2>1. from = SourcesWaiting(c)
        BY <1>5 DEF from
    <2>2. \A s \in SourcesWaiting(c) : ~(s > cursor.last[c])
        BY <1>5
    <2> QED BY <1>4, <2>1, <2>2
<1>6. CASE later # {}
    <2>1. from = later
        BY <1>6 DEF from
    <2> QED BY <1>4, <2>1
<1> QED BY <1>5, <1>6

\* A rotation chooses a candidate of its class, of the next source.
LEMMA RotateIn ==
    ASSUME TypeOK, NEW c \in Classes, Candidates(c) # {}
    PROVE  /\ Rotate(c) \in Candidates(c)
           /\ cursor.last[c] # None => SourceOf[Rotate(c)] = TurnOf(c)
<1> DEFINE mine == {j \in Candidates(c) : SourceOf[j] = TurnOf(c)}
<1>1. mine \in SUBSET Jobs /\ mine # {} /\ Candidates(c) \in SUBSET Jobs
    BY CandidatesWait, TurnWaits DEF SourcesWaiting
<1>2. First(mine) \in mine /\ First(Candidates(c)) \in Candidates(c)
    BY <1>1, FirstIn
<1>3. Rotate(c) = IF cursor.last[c] = None THEN First(Candidates(c)) ELSE First(mine)
    BY DEF Rotate, TurnOf
<1> QED BY <1>2, <1>3

\* Live work is chosen by rotation, batch work never hides in it.
LEMMA ChoiceWaits ==
    ASSUME TypeOK, waiting # {}
    PROVE  /\ Choose \in waiting /\ Choose \in Jobs
           /\ ClassOf(Choose) = "Live" =>
                Candidates("Live") # {} /\ Choose = Rotate("Live")
<1>1. "Live" \in Classes /\ "Batch" \in Classes
    BY DEF Classes
<1>2. ASSUME NEW c \in Classes PROVE \A j \in Candidates(c) : j \in waiting /\ j \in Jobs /\ ClassOf(j) = c
    BY DEF Candidates, TypeOK
<1>3. waiting = Candidates("Live") \union Candidates("Batch")
    BY DEF Candidates, ClassOf
<1>4. Candidates("Batch") # {} => First(Candidates("Batch")) \in Candidates("Batch")
    BY <1>1, FirstIn, CandidatesWait
<1>5. Candidates("Batch") # {} => Rotate("Batch") \in Candidates("Batch")
    BY <1>1, RotateIn
<1>6. Candidates("Live") # {} => Rotate("Live") \in Candidates("Live")
    BY <1>1, RotateIn
<1> QED BY <1>1, <1>2, <1>3, <1>4, <1>5, <1>6 DEF Choose

-----------------------------------------------------------------------------
(***************************************************************************)
(* Every variable keeps its type.                                          *)
(***************************************************************************)

LEMMA InitFairTypes == Init => TypeOK
BY FairClaimsAssumption
   DEF FairClaimsAssumption, Init, TypeOK, NewCursor, Classes, None

\* What a started claim writes.
LEMMA ClaimTypes ==
    ASSUME TypeOK, waiting # {}
    PROVE  /\ Advance(Choose) \in [turn : Nat, last : [Classes -> Sources \union {None}]]
           /\ Passed(Choose) \in [Jobs -> Nat]
           /\ Skipped(Choose) \in [Classes -> [Sources -> Nat]]
<1>1. Choose \in Jobs /\ SourceOf[Choose] \in Sources /\ ClassOf(Choose) \in Classes
    BY ChoiceWaits, FairClaimsAssumption DEF FairClaimsAssumption, ClassOf, Classes
<1>2. Advance(Choose) \in [turn : Nat, last : [Classes -> Sources \union {None}]]
    BY <1>1 DEF Advance, TypeOK
<1>3. Passed(Choose) \in [Jobs -> Nat]
    BY DEF Passed, TypeOK
<1>4. ASSUME NEW c \in Classes
      PROVE  [s \in Sources |-> IF s \in SourcesWaiting(c) /\ s # SourceOf[Choose]
                                THEN skipped[c][s] + 1 ELSE 0] \in [Sources -> Nat]
    BY DEF TypeOK
<1>5. Skipped(Choose) \in [Classes -> [Sources -> Nat]]
    BY <1>1, <1>4 DEF Skipped, TypeOK
<1> QED BY <1>2, <1>3, <1>5

LEMMA NextFairTypes == TypeOK /\ [Next]_vars => TypeOK'
<1> SUFFICES ASSUME TypeOK, [Next]_vars PROVE TypeOK'
    OBVIOUS
<1>1. ASSUME NEW j \in Jobs, Arrive(j) PROVE TypeOK'
    <2>1. now \in Nat \ {0} /\ MaxTime \in Nat
        BY FairClaimsAssumption DEF FairClaimsAssumption, TypeOK
    <2> QED BY <1>1, <2>1 DEF TypeOK, Arrive
<1>2. ASSUME NEW s \in Sources, Follow(s) PROVE TypeOK'
    BY <1>2 DEF TypeOK, Follow
<1>3. CASE Tick
    BY <1>3, FairClaimsAssumption DEF FairClaimsAssumption, TypeOK, Tick
<1>4. CASE ClaimStarts
    <2>1. waiting' \subseteq waiting
        BY <1>4 DEF ClaimStarts
    <2> QED BY <1>4, <2>1, ClaimTypes DEF TypeOK, ClaimStarts
<1>5. CASE ClaimEnds
    BY <1>5 DEF TypeOK, ClaimEnds
<1>6. CASE Restart
    BY <1>6 DEF TypeOK, Restart, NewCursor, Classes, None
<1>7. CASE UNCHANGED vars
    BY <1>7 DEF TypeOK, vars
<1> QED BY <1>1, <1>2, <1>3, <1>4, <1>5, <1>6, <1>7 DEF Next

\* Every variable has its type in every reachable state, whatever the jobs,
\* sources, deadlines and the share period.
THEOREM FairTypes == Spec => []TypeOK
BY InitFairTypes, NextFairTypes, PTL DEF Spec

-----------------------------------------------------------------------------
(***************************************************************************)
(* The share of the oldest batch job.                                      *)
(***************************************************************************)

\* Nobody was passed over more often than claims started since the last
\* reserved one.
PassedSinceReserved == \A j \in Jobs : passed[j] <= cursor.turn % SharePeriod

LEMMA InitShare == Init => PassedSinceReserved
<1> SUFFICES ASSUME Init, NEW j \in Jobs PROVE passed[j] <= cursor.turn % SharePeriod
    BY DEF PassedSinceReserved
<1>1. passed[j] = 0 /\ cursor.turn = 0 /\ SharePeriod \in Nat \ {0}
    BY FairClaimsAssumption DEF FairClaimsAssumption, Init, NewCursor
<1> QED BY <1>1

LEMMA NextShare == TypeOK /\ PassedSinceReserved /\ [Next]_vars => PassedSinceReserved'
<1> SUFFICES ASSUME TypeOK, PassedSinceReserved, [Next]_vars, NEW j \in Jobs
             PROVE  passed'[j] <= cursor'.turn % SharePeriod
    BY DEF PassedSinceReserved
<1>1. /\ SharePeriod \in Nat \ {0} /\ cursor.turn \in Nat /\ passed[j] \in Nat
      /\ passed[j] <= cursor.turn % SharePeriod
    BY FairClaimsAssumption DEF FairClaimsAssumption, TypeOK, PassedSinceReserved
<1>2. CASE ClaimStarts
    <2>1. cursor'.turn = cursor.turn + 1 /\ passed' = Passed(Choose)
        BY <1>2 DEF ClaimStarts, Advance
    <2>2. CASE passed'[j] = 0
        <3>1. cursor'.turn % SharePeriod >= 0
            BY <1>1, <2>1
        <3> QED BY <2>2, <3>1
    <2>3. CASE passed'[j] # 0
        <3>1. /\ passed'[j] = passed[j] + 1 /\ j # Choose
              /\ j = First(Candidates("Batch")) /\ Candidates("Batch") # {}
            BY <2>1, <2>3 DEF Passed
        <3>2. ~Reserved
            BY <3>1 DEF Choose
        <3>3. (cursor.turn + 1) % SharePeriod = (cursor.turn % SharePeriod) + 1
            BY <1>1, <3>2, NextRemainder DEF Reserved
        <3>4. cursor.turn % SharePeriod \in Nat
            BY <1>1
        <3> QED BY <1>1, <2>1, <3>1, <3>3, <3>4
    <2> QED BY <2>2, <2>3
<1>3. CASE Restart
    <2>1. passed'[j] = 0 /\ cursor'.turn = 0
        BY <1>3 DEF Restart, NewCursor
    <2> QED BY <1>1, <2>1
<1>4. ASSUME ~ClaimStarts, ~Restart PROVE passed' = passed /\ cursor' = cursor
    BY <1>4 DEF Next, vars, Arrive, Follow, Tick, ClaimEnds
<1> QED BY <1>1, <1>2, <1>3, <1>4

LEMMA ShareImplies == TypeOK /\ PassedSinceReserved => OldestBatchShare
<1> SUFFICES ASSUME TypeOK, PassedSinceReserved, NEW j \in Jobs PROVE passed[j] < SharePeriod
    BY DEF OldestBatchShare
<1>1. SharePeriod \in Nat \ {0} /\ cursor.turn \in Nat /\ passed[j] \in Nat
    BY FairClaimsAssumption DEF FairClaimsAssumption, TypeOK
<1>2. cursor.turn % SharePeriod \in 0 .. SharePeriod - 1
    BY <1>1
<1> QED BY <1>1, <1>2 DEF PassedSinceReserved

\* However live work keeps arriving and rotating, the oldest waiting batch job
\* is passed over by fewer than SHARE_PERIOD started claims (next_fair).
THEOREM OldestBatchServed == Spec => []OldestBatchShare
BY InitFairTypes, NextFairTypes, InitShare, NextShare, ShareImplies, PTL DEF Spec

-----------------------------------------------------------------------------
(***************************************************************************)
(* The rotation of live sources.                                           *)
(***************************************************************************)

\* The sources strictly between a and s, in name order and round again.
Ahead(a, s) == {x \in Sources : IF a < s THEN a < x /\ x < s ELSE x > a \/ x < s}

\* What a source was passed over and what may still pass it make up at most the
\* other sources: each live claim moves the rotation closer to it.
TurnsAhead ==
    \A s \in Sources :
        IF cursor.last["Live"] = None THEN skipped["Live"][s] = 0
        ELSE skipped["Live"][s] + Cardinality(Ahead(cursor.last["Live"], s))
               < Cardinality(Sources)

LEMMA AheadFinite ==
    ASSUME NEW a \in Sources, NEW s \in Sources
    PROVE  /\ IsFiniteSet(Ahead(a, s)) /\ Cardinality(Ahead(a, s)) \in Nat
           /\ Cardinality(Sources) \in Nat /\ Cardinality(Ahead(a, s)) < Cardinality(Sources)
           /\ a # s => Cardinality(Ahead(a, s)) + 1 < Cardinality(Sources)
<1>1. a \in Nat /\ s \in Nat /\ IsFiniteSet(Sources) /\ Sources \subseteq Nat
    BY FairClaimsAssumption DEF FairClaimsAssumption
<1>2. /\ Ahead(a, s) \in SUBSET (Sources \ {s}) /\ Ahead(a, s) \in SUBSET Sources
      /\ Ahead(a, s) \in SUBSET ((Sources \ {s}) \ {a})
    BY <1>1 DEF Ahead
<1>3. /\ IsFiniteSet(Sources \ {s}) /\ Cardinality(Sources \ {s}) = Cardinality(Sources) - 1
      /\ Cardinality(Sources) \in Nat /\ Cardinality(Sources \ {s}) \in Nat
    BY <1>1, FS_RemoveElement, FS_CardinalityType
<1>4. /\ IsFiniteSet(Ahead(a, s)) /\ Cardinality(Ahead(a, s)) <= Cardinality(Sources \ {s})
      /\ Cardinality(Ahead(a, s)) \in Nat
    BY <1>2, <1>3, FS_Subset, FS_CardinalityType
<1>5. ASSUME a # s PROVE Cardinality(Ahead(a, s)) <= Cardinality(Sources \ {s}) - 1
    <2>1. /\ IsFiniteSet((Sources \ {s}) \ {a})
          /\ Cardinality((Sources \ {s}) \ {a}) = Cardinality(Sources \ {s}) - 1
        BY <1>3, <1>5, FS_RemoveElement
    <2> QED BY <1>2, <2>1, FS_Subset
<1> QED BY <1>3, <1>4, <1>5

\* A turn for another source leaves fewer of them ahead.
LEMMA TurnComesCloser ==
    ASSUME TypeOK, Candidates("Live") # {}, NEW s \in SourcesWaiting("Live"),
           cursor.last["Live"] # None, s # TurnOf("Live")
    PROVE  Cardinality(Ahead(TurnOf("Live"), s)) + 1
             <= Cardinality(Ahead(cursor.last["Live"], s))
<1> DEFINE a == cursor.last["Live"]
           n == TurnOf("Live")
<1>1. /\ "Live" \in Classes /\ s \in Sources /\ n \in Sources /\ a \in Sources
      /\ n \in SourcesWaiting("Live")
    BY CandidatesWait, TurnWaits DEF TypeOK, Classes
<1>2. a \in Nat /\ n \in Nat /\ s \in Nat /\ Sources \subseteq Nat
    BY <1>1, FairClaimsAssumption DEF FairClaimsAssumption
<1>3. \/ n > a /\ (s > a => n <= s)
      \/ ~(s > a) /\ n <= s
    BY <1>1, TurnWaits
<1> HIDE DEF a, n
<1>4. n \in Ahead(a, s) /\ Ahead(n, s) \subseteq Ahead(a, s) \ {n}
    <2>1. s # n
        BY DEF n
    <2>2. CASE a < s
        <3>1. a < n /\ n < s
            BY <1>2, <1>3, <2>1, <2>2
        <3>2. /\ Ahead(a, s) = {x \in Sources : a < x /\ x < s}
              /\ Ahead(n, s) = {x \in Sources : n < x /\ x < s}
            BY <2>2, <3>1 DEF Ahead
        <3>3. n \in Ahead(a, s)
            BY <1>1, <3>1, <3>2
        <3>4. ASSUME NEW x \in Ahead(n, s) PROVE x \in Ahead(a, s) /\ x # n
            <4>1. x \in Nat /\ x \in Sources /\ n < x /\ x < s
                BY <1>2, <3>2
            <4>2. a < x /\ x # n
                BY <1>2, <3>1, <4>1
            <4> QED BY <3>2, <4>1, <4>2
        <3> QED BY <3>3, <3>4
    <2>3. CASE ~(a < s)
        <3>1. Ahead(a, s) = {x \in Sources : x > a \/ x < s}
            BY <2>3 DEF Ahead
        <3>2. n > a \/ n < s
            BY <1>2, <1>3, <2>1, <2>3
        <3>3. n \in Ahead(a, s)
            BY <1>1, <3>1, <3>2
        <3>4. ASSUME NEW x \in Ahead(n, s) PROVE x \in Ahead(a, s) /\ x # n
            <4>1. /\ x \in Nat /\ x \in Sources
                  /\ IF n < s THEN n < x /\ x < s ELSE x > n \/ x < s
                BY <1>2 DEF Ahead
            <4>2. (x > a \/ x < s) /\ x # n
                BY <1>2, <2>1, <2>3, <3>2, <4>1
            <4> QED BY <3>1, <4>1, <4>2
        <3> QED BY <3>3, <3>4
    <2> QED BY <2>2, <2>3
<1>5. /\ IsFiniteSet(Ahead(a, s)) /\ Cardinality(Ahead(a, s)) \in Nat
      /\ Cardinality(Ahead(n, s)) \in Nat
    BY <1>1, AheadFinite
<1>6. /\ IsFiniteSet(Ahead(a, s) \ {n})
      /\ Cardinality(Ahead(a, s) \ {n}) = Cardinality(Ahead(a, s)) - 1
    BY <1>4, <1>5, FS_RemoveElement
<1>7. Cardinality(Ahead(n, s)) <= Cardinality(Ahead(a, s) \ {n})
    BY <1>4, <1>6, FS_Subset
<1> QED BY <1>5, <1>6, <1>7 DEF a, n

LEMMA InitTurns == Init => TurnsAhead
BY DEF Init, TurnsAhead, NewCursor, Classes

LEMMA NextTurns == TypeOK /\ TurnsAhead /\ [Next]_vars => TurnsAhead'
<1> SUFFICES ASSUME TypeOK, TurnsAhead, [Next]_vars PROVE TurnsAhead'
    OBVIOUS
<1>1. "Live" \in Classes /\ \A s \in Sources : skipped["Live"][s] \in Nat
    BY DEF TypeOK, Classes
<1>2. ASSUME ClaimStarts, ClassOf(Choose) # "Live"
      PROVE  cursor'.last["Live"] = cursor.last["Live"] /\ skipped'["Live"] = skipped["Live"]
    BY <1>1, <1>2 DEF ClaimStarts, Advance, Skipped, TypeOK
<1>3. ASSUME ClaimStarts, ClassOf(Choose) = "Live", NEW s \in Sources
      PROVE  /\ cursor'.last["Live"] \in Sources
             /\ skipped'["Live"][s] + Cardinality(Ahead(cursor'.last["Live"], s))
                  < Cardinality(Sources)
    <2> DEFINE n == SourceOf[Choose]
    <2>1. /\ waiting # {} /\ Candidates("Live") # {} /\ Choose = Rotate("Live") /\ Choose \in Jobs
          /\ cursor.last["Live"] # None => n = TurnOf("Live")
        BY <1>1, <1>3, ChoiceWaits, RotateIn DEF ClaimStarts
    <2>2. n \in Sources /\ None \notin Sources
        BY <2>1, FairClaimsAssumption DEF FairClaimsAssumption, None
    <2>3. /\ cursor'.last["Live"] = n
          /\ skipped'["Live"][s] = IF s \in SourcesWaiting("Live") /\ s # n
                                   THEN skipped["Live"][s] + 1 ELSE 0
        BY <1>1, <1>3 DEF ClaimStarts, Advance, Skipped, TypeOK
    <2>4. /\ Cardinality(Ahead(n, s)) < Cardinality(Sources) /\ Cardinality(Ahead(n, s)) \in Nat
          /\ n # s => Cardinality(Ahead(n, s)) + 1 < Cardinality(Sources)
          /\ Cardinality(Sources) \in Nat
        BY <2>2, AheadFinite
    <2>5. CASE ~(s \in SourcesWaiting("Live") /\ s # n)
        BY <2>2, <2>3, <2>4, <2>5
    <2>6. CASE s \in SourcesWaiting("Live") /\ s # n /\ cursor.last["Live"] = None
        <3>1. skipped["Live"][s] = 0
            BY <2>6 DEF TurnsAhead
        <3> QED BY <2>2, <2>3, <2>4, <2>6, <3>1
    <2>7. CASE s \in SourcesWaiting("Live") /\ s # n /\ cursor.last["Live"] # None
        <3>1. /\ cursor.last["Live"] \in Sources
              /\ skipped["Live"][s] + Cardinality(Ahead(cursor.last["Live"], s))
                   < Cardinality(Sources)
            BY <1>1, <2>7 DEF TurnsAhead, TypeOK
        <3>2. Cardinality(Ahead(n, s)) + 1 <= Cardinality(Ahead(cursor.last["Live"], s))
            BY <2>1, <2>7, TurnComesCloser
        <3>3. Cardinality(Ahead(cursor.last["Live"], s)) \in Nat
            BY <3>1, AheadFinite
        <3> QED BY <1>1, <2>2, <2>3, <2>4, <2>7, <3>1, <3>2, <3>3
    <2> QED BY <2>5, <2>6, <2>7
<1>4. CASE ClaimStarts
    <2>1. CASE ClassOf(Choose) = "Live"
        <3>1. None \notin Sources
            BY FairClaimsAssumption DEF FairClaimsAssumption, None
        <3> QED BY <1>3, <1>4, <2>1, <3>1 DEF TurnsAhead, Ahead
    <2>2. CASE ClassOf(Choose) # "Live"
        BY <1>2, <1>4, <2>2 DEF TurnsAhead, Ahead
    <2> QED BY <2>1, <2>2
<1>5. CASE Restart
    BY <1>1, <1>5 DEF Restart, NewCursor, TurnsAhead
<1>6. ASSUME ~ClaimStarts, ~Restart PROVE skipped' = skipped /\ cursor' = cursor
    BY <1>6 DEF Next, vars, Arrive, Follow, Tick, ClaimEnds
<1> QED BY <1>4, <1>5, <1>6 DEF TurnsAhead, Ahead

LEMMA TurnsImply == TypeOK /\ TurnsAhead => LiveSourcesRotate
<1> SUFFICES ASSUME TypeOK, TurnsAhead, NEW s \in Sources
             PROVE  skipped["Live"][s] < Cardinality(Sources)
    BY DEF LiveSourcesRotate
<1>1. /\ "Live" \in Classes /\ skipped["Live"][s] \in Nat
      /\ cursor.last["Live"] \in Sources \union {None}
    BY DEF TypeOK, Classes
<1>2. Cardinality(Sources) \in Nat /\ Cardinality(Ahead(s, s)) \in Nat
      /\ Cardinality(Ahead(s, s)) < Cardinality(Sources)
    BY AheadFinite
<1>3. CASE cursor.last["Live"] = None
    BY <1>1, <1>2, <1>3 DEF TurnsAhead
<1>4. CASE cursor.last["Live"] # None
    <2>1. Cardinality(Ahead(cursor.last["Live"], s)) \in Nat
        BY <1>1, <1>4, AheadFinite
    <2> QED BY <1>1, <1>2, <1>4, <2>1 DEF TurnsAhead
<1> QED BY <1>3, <1>4

\* A source whose live work waits is passed over by at most one live claim of
\* each other source, also when reserved claims fall in between (rotate).
THEOREM LiveSourcesServed == Spec => []LiveSourcesRotate
BY InitFairTypes, NextFairTypes, InitTurns, NextTurns, TurnsImply, PTL DEF Spec

=============================================================================
