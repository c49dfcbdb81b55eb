------------------------------- MODULE DvrProofs -------------------------------
(***************************************************************************)
(* Proofs about the DVR: row by row that the byte accounting of every      *)
(* transaction balances, then that no step of workers, readers, retention, *)
(* crash and recovery takes a protected file or loses a live capture.      *)
(***************************************************************************)
EXTENDS Dvr, TLAPS

\* ------------------------------------------------ the journal's events --

LEMMA Edges ==
    ASSUME NEW s, NEW e, NEW n
    PROVE  <<<<s, e>>, n>> \in Transitions <=>
             \/ s \in {"scheduled", "retrying", "interrupted"} /\ e = "start" /\ n = "starting"
             \/ s = "starting" /\ e = "connected" /\ n = "running"
             \/ s \in {"starting", "running"} /\ e = "retry" /\ n = "retrying"
             \/ s \in {"starting", "running", "retrying"} /\ e = "stop" /\ n = "stopping"
             \/ s = "stopping" /\ e = "finalized" /\ n = "completed"
             \/ s \in Active /\ e = "lost" /\ n = "interrupted"
             \/ s \in {"scheduled", "interrupted"} /\ e = "cancel" /\ n = "cancelled"
             \/ s \in Live /\ e = "fail" /\ n = "failed"
BY DEF Transitions

LEMMA AfterUnique ==
    ASSUME NEW s, NEW e, NEW n \in States, <<<<s, e>>, n>> \in Transitions,
           \A m \in States : <<<<s, e>>, m>> \in Transitions => m = n
    PROVE  Allowed(s, e) /\ After(s, e) = n
<1>1. Allowed(s, e)
  <2>1. (<<<<s, e>>, n>>)[1] = <<s, e>>
    OBVIOUS
  <2> QED BY <2>1 DEF Allowed
<1>2. After(s, e) = n
  BY DEF After
<1> QED BY <1>1, <1>2

\* Where each event the program uses leads.
LEMMA Events ==
    /\ After("scheduled", "start") = "starting"
    /\ After("starting", "connected") = "running"
    /\ \A s \in {"starting", "running"} : After(s, "stop") = "stopping"
    /\ After("stopping", "finalized") = "completed"
    /\ \A s \in Active : After(s, "lost") = "interrupted"
    /\ \A s \in {"scheduled", "interrupted"} : After(s, "cancel") = "cancelled"
    /\ \A s \in Live : After(s, "fail") = "failed"
<1>1. After("scheduled", "start") = "starting"
  <2>1. <<<<"scheduled", "start">>, "starting">> \in Transitions
    BY Edges
  <2>2. \A m : <<<<"scheduled", "start">>, m>> \in Transitions => m = "starting"
    BY Edges
  <2>3. "starting" \in States
    BY DEF States
  <2> QED BY <2>1, <2>2, <2>3, AfterUnique, Zenon
<1>2. After("starting", "connected") = "running"
  <2>1. <<<<"starting", "connected">>, "running">> \in Transitions
    BY Edges
  <2>2. \A m : <<<<"starting", "connected">>, m>> \in Transitions => m = "running"
    BY Edges
  <2>3. "running" \in States
    BY DEF States
  <2> QED BY <2>1, <2>2, <2>3, AfterUnique, Zenon
<1>3. ASSUME NEW s \in {"starting", "running"} PROVE After(s, "stop") = "stopping"
  <2>1. <<<<s, "stop">>, "stopping">> \in Transitions
    BY Edges
  <2>2. \A m : <<<<s, "stop">>, m>> \in Transitions => m = "stopping"
    BY Edges
  <2>3. "stopping" \in States
    BY DEF States
  <2> QED BY <2>1, <2>2, <2>3, AfterUnique, Zenon
<1>4. After("stopping", "finalized") = "completed"
  <2>1. <<<<"stopping", "finalized">>, "completed">> \in Transitions
    BY Edges
  <2>2. \A m : <<<<"stopping", "finalized">>, m>> \in Transitions => m = "completed"
    BY Edges
  <2>3. "completed" \in States
    BY DEF States
  <2> QED BY <2>1, <2>2, <2>3, AfterUnique, Zenon
<1>5. ASSUME NEW s \in Active PROVE After(s, "lost") = "interrupted"
  <2>1. <<<<s, "lost">>, "interrupted">> \in Transitions
    BY Edges
  <2>2. \A m : <<<<s, "lost">>, m>> \in Transitions => m = "interrupted"
    BY Edges
  <2>3. "interrupted" \in States
    BY DEF States
  <2> QED BY <2>1, <2>2, <2>3, AfterUnique, Zenon
<1>6. ASSUME NEW s \in {"scheduled", "interrupted"} PROVE After(s, "cancel") = "cancelled"
  <2>1. <<<<s, "cancel">>, "cancelled">> \in Transitions
    BY Edges
  <2>2. \A m : <<<<s, "cancel">>, m>> \in Transitions => m = "cancelled"
    BY Edges
  <2>3. "cancelled" \in States
    BY DEF States
  <2> QED BY <2>1, <2>2, <2>3, AfterUnique, Zenon
<1>7. ASSUME NEW s \in Live PROVE After(s, "fail") = "failed"
  <2>1. <<<<s, "fail">>, "failed">> \in Transitions
    BY Edges
  <2>2. \A m : <<<<s, "fail">>, m>> \in Transitions => m = "failed"
    BY Edges
  <2>3. "failed" \in States
    BY DEF States
  <2> QED BY <2>1, <2>2, <2>3, AfterUnique, Zenon
<1> QED BY <1>1, <1>2, <1>3, <1>4, <1>5, <1>6, <1>7

LEMMA FailAllowed == \A s : Allowed(s, "fail") => s \in Live
<1> SUFFICES ASSUME NEW s, Allowed(s, "fail") PROVE s \in Live
  OBVIOUS
<1>1. PICK t \in Transitions : t[1] = <<s, "fail">>
  BY DEF Allowed
<1>2. <<t[1], t[2]>> \in Transitions
  BY <1>1 DEF Transitions
<1> QED BY <1>1, <1>2, Edges

\* ---------------------------------------------------------- the rows --

\* What every transaction keeps of a row besides its type: the audit of its
\* bytes, and what makes the audit inductive.
WellKept(r, w) ==
    /\ w.storage = "none" => w = NoRow
    /\ w.capture \in Active => w.storage = "reserved"
    /\ w.capture = "starting" =>
          w.ends = <<>> /\ w.released = {} /\ w.freed = 0 /\ w.open = 0 /\ w.key = 0
    /\ w.capture = "running" /\ w.open = 0 => w.key = 0
    /\ w.storage = "reserved" => /\ w.charged = w.maximum /\ w.maximum = Maximum[r]
                                 /\ w.escrow + w.open + Sealed(w) = w.maximum
    /\ w.storage = "retained" => /\ w.charged = w.media /\ w.media = Unreleased(w)
                                 /\ w.media > 0 /\ w.escrow = 0 /\ w.open = 0 /\ w.key = 0
    /\ w.storage = "deleted" => w.charged = 0 /\ w.escrow = 0 /\ w.open = 0
    /\ w.open > 0 => w.capture = "running" /\ w.key = Len(w.ends) + 1
    /\ Len(w.ends) <= Sealed(w) /\ Len(w.ends) <= MaxSegments
RowOK(r, w) == w \in Rows /\ WellKept(r, w)

LEMMA SealedType == \A w \in Rows : Sealed(w) \in Nat /\ Unreleased(w) \in Int
BY DEF Rows, Sealed, Unreleased

LEMMA LengthType == ASSUME NEW w \in Rows, NEW n \in Segments(w) PROVE Length(w, n) \in Int
BY SMTT(30) DEF Rows, Segments, Length

\* An event changes the state and the version and nothing else.
LEMMA Journaled ==
    ASSUME NEW w \in Rows, NEW event, After(w.capture, event) \in States
    PROVE  LET v == Journal(w, event) IN
           /\ v \in Rows
           /\ v.capture = After(w.capture, event)
           /\ v.version.generation \in Nat
           /\ event \notin {"start", "lost"} => v.version.generation = w.version.generation
           /\ v.storage = w.storage /\ v.maximum = w.maximum /\ v.temporary = w.temporary
           /\ v.charged = w.charged /\ v.escrow = w.escrow /\ v.open = w.open /\ v.key = w.key
           /\ v.ends = w.ends /\ v.released = w.released /\ v.freed = w.freed /\ v.cause = w.cause
           /\ v.held = w.held /\ v.media = w.media /\ v.cause = w.cause
           /\ v.receipt = w.receipt /\ v.aged = w.aged /\ v.agedTo = w.agedTo
<1> DEFINE v == Journal(w, event)
           next == NextVersion(w.version, event)
<1>1. w.version \in Versions
  BY DEF Rows
<1>2. next \in Versions /\ (event \notin {"start", "lost"} =>
                               next.generation = w.version.generation)
  BY <1>1 DEF NextVersion, Versions
<1>3. v = [w EXCEPT !.capture = After(w.capture, event), !.version = next]
  BY Zenon DEF Journal, Rows
<1> HIDE DEF next
<1>4. v \in Rows
  BY <1>2, <1>3, Zenon DEF Rows
<1>5. v.capture = After(w.capture, event) /\ v.version = next
  BY <1>3, Zenon DEF Rows
<1>6. /\ v.storage = w.storage /\ v.maximum = w.maximum /\ v.temporary = w.temporary
      /\ v.charged = w.charged /\ v.escrow = w.escrow /\ v.open = w.open /\ v.key = w.key
      /\ v.ends = w.ends /\ v.released = w.released /\ v.freed = w.freed /\ v.cause = w.cause
      /\ v.held = w.held /\ v.media = w.media /\ v.cause = w.cause
      /\ v.receipt = w.receipt /\ v.aged = w.aged /\ v.agedTo = w.agedTo
  BY <1>3, Zenon DEF Rows
<1>7. v.version.generation \in Nat
  BY <1>2, <1>5 DEF Versions
<1> QED BY <1>2, <1>4, <1>5, <1>6, <1>7

LEMMA NoRowOK == \A r \in Recs : RowOK(r, NoRow)
<1> TAKE r \in Recs
<1>1. NoRow \in Rows
  <2>1. <<>> \in Seq(Nat)
    OBVIOUS
  <2> QED BY <2>1, RecordingsAssumption
          DEF Rows, NoRow, Versions, States, Active, Live, Causes, Ordinals
<1>2. NoRow.ends = <<>> /\ NoRow.storage = "none" /\ NoRow.capture = "scheduled" /\ NoRow.open = 0
  BY DEF NoRow
<1>3. Sealed(NoRow) = 0 /\ Len(NoRow.ends) = 0
  BY <1>2 DEF Sealed
<1> QED BY <1>1, <1>2, <1>3, RecordingsAssumption DEF RowOK, WellKept, Active

\* admit_recording
LEMMA AdmittedOK ==
    ASSUME NEW r \in Recs
    PROVE  /\ RowOK(r, Admitted(Maximum[r]))
           /\ Admitted(Maximum[r]).capture = "starting"
<1> DEFINE w == [NoRow EXCEPT !.storage = "reserved", !.maximum = Maximum[r],
                              !.charged = Maximum[r], !.escrow = Maximum[r]]
<1>1. NoRow \in Rows
  BY NoRowOK DEF RowOK
<1>2. Maximum[r] \in Nat
  BY DvrAssumption, RecordingsAssumption
<1>3. /\ w \in Rows
      /\ w.capture = "scheduled" /\ w.storage = "reserved" /\ w.ends = <<>> /\ w.open = 0
      /\ w.maximum = Maximum[r] /\ w.charged = Maximum[r] /\ w.escrow = Maximum[r]
      /\ w.released = {} /\ w.freed = 0 /\ w.key = 0
  <2>1. /\ NoRow.capture = "scheduled" /\ NoRow.ends = <<>> /\ NoRow.open = 0
        /\ NoRow.released = {} /\ NoRow.freed = 0 /\ NoRow.key = 0
    BY DEF NoRow
  <2>2. "reserved" \in {"none", "reserved", "retained", "deleting", "deleted"} /\ Maximum[r] \in Int
    BY <1>2
  <2>3. w \in Rows
    BY <1>1, <1>2, <2>2, Zenon DEF Rows
  <2>4. /\ w.storage = "reserved" /\ w.maximum = Maximum[r] /\ w.charged = Maximum[r]
        /\ w.escrow = Maximum[r] /\ w.capture = NoRow.capture /\ w.ends = NoRow.ends
        /\ w.open = NoRow.open /\ w.released = NoRow.released /\ w.freed = NoRow.freed
        /\ w.key = NoRow.key
    BY <1>1, Zenon DEF Rows
  <2> QED BY <2>1, <2>3, <2>4
<1> DEFINE v == Journal(w, "start")
<1> HIDE DEF w
<1>4. After(w.capture, "start") = "starting"
  BY <1>3, Events
<1>5. "starting" \in States
  BY DEF States
<1>6. /\ v \in Rows /\ v.capture = "starting"
      /\ v.storage = "reserved" /\ v.ends = <<>> /\ v.open = 0
      /\ v.maximum = Maximum[r] /\ v.charged = Maximum[r] /\ v.escrow = Maximum[r]
      /\ v.released = {} /\ v.freed = 0 /\ v.key = 0
  BY <1>3, <1>4, <1>5, Journaled
<1>7. v = Admitted(Maximum[r])
  BY DEF Admitted, w
<1> HIDE DEF v
<1>8. WellKept(r, v)
  BY <1>2, <1>6, RecordingsAssumption DEF WellKept, Sealed
<1> QED BY <1>6, <1>7, <1>8 DEF RowOK

\* What every transaction of a capture, a request or time leaves alone: the
\* recording stays where it is, none of its files is given up, and a capture
\* that is live was live before, in the same generation.
RowStep(w, v) ==
    /\ w.storage # "none" => v.storage # "none"
    /\ OnShelf(w) => OnShelf(v)
    /\ v.storage = "deleting" <=> w.storage = "deleting"
    /\ v.storage = "deleted" <=> w.storage = "deleted"
    /\ v.cause = "none" => w.cause = "none"
    /\ Segments(w) \ w.released \subseteq Segments(v) \ v.released
    /\ v.capture \in Active =>
          w.capture \in Active /\ v.version.generation = w.version.generation

\* connect_recording
LEMMA ConnectedOK ==
    ASSUME NEW r \in Recs, NEW w, RowOK(r, w), w.capture = "starting"
    PROVE  LET v == Journal(w, "connected") IN RowOK(r, v) /\ RowStep(w, v)
<1> DEFINE v == Journal(w, "connected")
<1>1. After(w.capture, "connected") = "running" /\ "running" \in States /\ w \in Rows
  BY Events DEF RowOK, States
<1>2. /\ v \in Rows /\ v.capture = "running" /\ v.version.generation = w.version.generation
      /\ v.storage = w.storage /\ v.maximum = w.maximum /\ v.charged = w.charged
      /\ v.escrow = w.escrow /\ v.open = w.open /\ v.key = w.key /\ v.ends = w.ends
      /\ v.released = w.released /\ v.freed = w.freed /\ v.media = w.media /\ v.cause = w.cause
  BY <1>1, Journaled
<1> HIDE DEF v
<1>3. Sealed(v) = Sealed(w) /\ Unreleased(v) = Unreleased(w) /\ Segments(v) = Segments(w)
  BY <1>2 DEF Sealed, Unreleased, Segments
<1>4. WellKept(r, v)
  BY <1>2, <1>3 DEF RowOK, WellKept, Active
<1>5. RowStep(w, v)
  BY <1>2, <1>3 DEF RowStep, OnShelf, Active
<1> QED BY <1>2, <1>4, <1>5 DEF RowOK, v

\* open_segment
LEMMA OpenedOK ==
    ASSUME NEW r \in Recs, NEW w, RowOK(r, w), CanOpen(w), w.escrow >= Ceiling
    PROVE  RowOK(r, Opened(w)) /\ RowStep(w, Opened(w))
<1> DEFINE v == Opened(w)
<1>1. w \in Rows /\ WellKept(r, w) /\ w.capture = "running" /\ w.storage = "reserved"
      /\ w.open = 0 /\ w.escrow \in Int /\ Sealed(w) \in Nat /\ Len(w.ends) \in Nat
  BY SealedType DEF RowOK, CanOpen, Rows
<1>2. Maximum[r] <= Ceiling + MaxSegments - 1 /\ Maximum[r] \in Nat
  BY DvrAssumption, RecordingsAssumption
<1>3. w.escrow - Ceiling \in Int /\ Ceiling \in Nat /\ Ceiling > 0 /\ MaxSegments \in Nat
  BY <1>1, RecordingsAssumption
<1>4. w.escrow + Sealed(w) = Maximum[r] /\ Len(w.ends) <= Sealed(w)
  BY <1>1, <1>2 DEF WellKept
<1>5. Len(w.ends) + 1 \in Ordinals \union {0}
  BY <1>1, <1>2, <1>3, <1>4, SMTT(30) DEF Ordinals
<1>6. v \in Rows
  BY <1>1, <1>3, <1>5, Zenon DEF Rows, Opened
<1>7. /\ v.escrow = w.escrow - Ceiling /\ v.open = Ceiling /\ v.key = Len(w.ends) + 1
      /\ v.capture = w.capture /\ v.version = w.version /\ v.storage = w.storage
      /\ v.maximum = w.maximum /\ v.charged = w.charged /\ v.ends = w.ends
      /\ v.released = w.released /\ v.freed = w.freed /\ v.media = w.media /\ v.cause = w.cause
  BY <1>1, Zenon DEF Rows, Opened
<1> HIDE DEF v
<1>8. Sealed(v) = Sealed(w) /\ Unreleased(v) = Unreleased(w) /\ Segments(v) = Segments(w)
  BY <1>7 DEF Sealed, Unreleased, Segments
<1>9. WellKept(r, v)
  BY <1>1, <1>3, <1>4, <1>7, <1>8 DEF WellKept
<1>10. RowStep(w, v)
  BY <1>7, <1>8 DEF RowStep, OnShelf
<1> QED BY <1>6, <1>9, <1>10 DEF RowOK, v

\* release_open_segment
LEMMA WithdrawnOK ==
    ASSUME NEW r \in Recs, NEW w, RowOK(r, w), w.capture = "running", w.open > 0
    PROVE  RowOK(r, Withdrawn(w)) /\ RowStep(w, Withdrawn(w))
<1> DEFINE v == Withdrawn(w)
<1>1. w \in Rows /\ WellKept(r, w) /\ w.storage = "reserved" /\ w.open \in Nat
      /\ w.escrow \in Int /\ Sealed(w) \in Nat /\ w.escrow + w.open \in Int
  BY SealedType DEF RowOK, WellKept, Rows, Active
<1>2. 0 \in Nat /\ 0 \in Ordinals \union {0}
  OBVIOUS
<1>3. v \in Rows
  BY <1>1, <1>2, Zenon DEF Rows, Withdrawn
<1>4. /\ v.escrow = w.escrow + w.open /\ v.open = 0 /\ v.key = 0
      /\ v.capture = w.capture /\ v.version = w.version /\ v.storage = w.storage
      /\ v.maximum = w.maximum /\ v.charged = w.charged /\ v.ends = w.ends
      /\ v.released = w.released /\ v.freed = w.freed /\ v.media = w.media /\ v.cause = w.cause
  BY <1>1, Zenon DEF Rows, Withdrawn
<1> HIDE DEF v
<1>5. Sealed(v) = Sealed(w) /\ Unreleased(v) = Unreleased(w) /\ Segments(v) = Segments(w)
  BY <1>4 DEF Sealed, Unreleased, Segments
<1>6. WellKept(r, v)
  BY <1>1, <1>4, <1>5 DEF WellKept
<1>7. RowStep(w, v)
  BY <1>4, <1>5 DEF RowStep, OnShelf
<1> QED BY <1>3, <1>6, <1>7 DEF RowOK, v

\* seal_segment
LEMMA SealedOK ==
    ASSUME NEW r \in Recs, NEW w, RowOK(r, w), NEW bytes \in Nat, bytes > 0, CanSeal(w, bytes)
    PROVE  RowOK(r, SealedWith(w, bytes)) /\ RowStep(w, SealedWith(w, bytes))
<1> DEFINE v == SealedWith(w, bytes)
           more == Append(w.ends, Sealed(w) + bytes)
           rest == w.escrow + w.open - bytes
<1>1. w \in Rows /\ WellKept(r, w) /\ w.capture = "running" /\ w.storage = "reserved"
      /\ w.open \in Nat /\ bytes <= w.open /\ w.escrow \in Int /\ Sealed(w) \in Nat
      /\ w.ends \in Seq(Nat) /\ w.key \in Ordinals \union {0}
  BY SealedType DEF RowOK, CanSeal, Rows
<1>2. rest \in Int /\ Sealed(w) + bytes \in Nat /\ 0 \in Nat /\ 0 \in Ordinals \union {0}
  BY <1>1
<1>3. /\ more \in Seq(Nat) /\ Len(more) = Len(w.ends) + 1 /\ more # <<>>
      /\ more[Len(more)] = Sealed(w) + bytes
      /\ DOMAIN w.ends = 1 .. Len(w.ends) /\ DOMAIN more = 1 .. Len(w.ends) + 1
  <2>1. more \in Seq(Nat) /\ Len(more) = Len(w.ends) + 1
    BY <1>1, <1>2
  <2>2. more[Len(w.ends) + 1] = Sealed(w) + bytes
    BY <1>1, <1>2
  <2>3. DOMAIN w.ends = 1 .. Len(w.ends) /\ DOMAIN more = 1 .. Len(more) /\ Len(w.ends) \in Nat
    BY <1>1, <2>1
  <2>4. more # <<>>
    BY <2>1, <2>3
  <2> QED BY <2>1, <2>2, <2>3, <2>4
<1>4. Len(w.ends) + 1 <= MaxSegments
  BY <1>1, RecordingsAssumption DEF WellKept, Ordinals
<1> HIDE DEF more, rest
<1>5. v = [w EXCEPT !.ends = more, !.escrow = rest, !.open = 0, !.key = 0]
  BY <1>1, Zenon DEF SealedWith, Rows, more, rest
<1>6. v \in Rows
  BY <1>1, <1>2, <1>3, <1>5, ZenonT(30) DEF Rows
<1>7. /\ v.escrow = rest /\ v.open = 0 /\ v.key = 0 /\ v.ends = more
      /\ v.capture = w.capture /\ v.version = w.version /\ v.storage = w.storage
      /\ v.maximum = w.maximum /\ v.charged = w.charged
      /\ v.released = w.released /\ v.freed = w.freed /\ v.media = w.media /\ v.cause = w.cause
  BY <1>1, <1>5, Zenon DEF Rows
<1> HIDE DEF v
<1>8. Sealed(v) = Sealed(w) + bytes
  BY <1>3, <1>7 DEF Sealed
<1>9. Segments(w) \subseteq Segments(v)
  BY <1>1, <1>3, <1>7 DEF Segments
<1>10. rest + Sealed(v) = w.escrow + w.open + Sealed(w)
  BY <1>1, <1>8 DEF rest
<1>11. WellKept(r, v)
  <2>1. Len(v.ends) <= Sealed(v) /\ Len(v.ends) <= MaxSegments
    BY <1>1, <1>3, <1>4, <1>7, <1>8 DEF WellKept
  <2>2. w.charged = w.maximum /\ w.maximum = Maximum[r]
        /\ w.escrow + w.open + Sealed(w) = w.maximum
    BY <1>1 DEF WellKept
  <2>3. v.escrow + v.open + Sealed(v) = w.maximum
    BY <1>1, <1>2, <1>7, <1>8, <1>10, <2>2
  <2> QED BY <1>1, <1>7, <2>1, <2>2, <2>3 DEF WellKept
<1>12. RowStep(w, v)
  BY <1>7, <1>9 DEF RowStep, OnShelf
<1> QED BY <1>6, <1>11, <1>12 DEF RowOK, v

LEMMA SegmentsType ==
    ASSUME NEW r \in Recs, NEW w, RowOK(r, w)
    PROVE  Segments(w) \subseteq Ordinals
<1>1. w.ends \in Seq(Nat) /\ Len(w.ends) <= MaxSegments /\ Len(w.ends) \in Nat
  BY DEF RowOK, Rows, WellKept
<1>2. DOMAIN w.ends = 1 .. Len(w.ends)
  BY <1>1
<1> QED BY <1>1, <1>2, RecordingsAssumption DEF Segments, Ordinals

\* end_with_gap
LEMMA EndedOK ==
    ASSUME NEW r \in Recs, NEW w, RowOK(r, w), w.capture = "running", NEW cause \in Causes,
           cause # "none",
           NEW event \in {"lost", "fail"}
    PROVE  LET v == EndedWithGap(w, cause, event) IN
           RowOK(r, v) /\ RowStep(w, v) /\ v.capture \notin Active /\ v.storage = "reserved"
<1> DEFINE key == IF w.open > 0 THEN 0 ELSE w.key
           x == [w EXCEPT !.cause = cause, !.escrow = @ + w.open, !.open = 0, !.key = key]
           v == Journal(x, event)
<1>1. w \in Rows /\ WellKept(r, w) /\ w.storage = "reserved" /\ w.open \in Nat
      /\ w.escrow \in Int /\ Sealed(w) \in Nat /\ w.escrow + w.open \in Int
      /\ key \in Ordinals \union {0}
  BY SealedType DEF RowOK, WellKept, Rows, Active
<1>2. v = EndedWithGap(w, cause, event)
  BY <1>1, Zenon DEF EndedWithGap, Rows
<1> HIDE DEF key
<1>3. x \in Rows
  <2>1. 0 \in Nat
    OBVIOUS
  <2> QED BY <1>1, <2>1, Zenon DEF Rows
<1>4. /\ x.escrow = w.escrow + w.open /\ x.open = 0 /\ x.key = key
      /\ x.capture = w.capture /\ x.storage = w.storage
      /\ x.maximum = w.maximum /\ x.charged = w.charged /\ x.ends = w.ends
      /\ x.released = w.released /\ x.freed = w.freed /\ x.media = w.media /\ x.cause = cause
  BY <1>1, Zenon DEF Rows
<1> HIDE DEF x
<1>5. After(x.capture, event) \in {"interrupted", "failed"} /\ {"interrupted", "failed"} \subseteq States
  BY <1>4, Events DEF Active, Live, States
<1>6. /\ v \in Rows /\ v.capture \in {"interrupted", "failed"}
      /\ v.escrow = w.escrow + w.open /\ v.open = 0
      /\ v.storage = "reserved" /\ v.maximum = w.maximum /\ v.charged = w.charged
      /\ v.ends = w.ends /\ v.released = w.released /\ v.freed = w.freed /\ v.cause = cause
  BY <1>1, <1>3, <1>4, <1>5, Journaled
<1> HIDE DEF v
<1>7. Sealed(v) = Sealed(w) /\ Segments(v) = Segments(w)
  BY <1>6 DEF Sealed, Segments
<1>8. WellKept(r, v)
  BY <1>1, <1>6, <1>7 DEF WellKept, Active
<1>9. RowStep(w, v)
  BY <1>1, <1>6, <1>7 DEF RowStep, OnShelf, Active
<1> QED BY <1>2, <1>6, <1>8, <1>9 DEF RowOK, Active

\* fail_recording, and recover_captures in one recording
LEMMA GivenUpOK ==
    ASSUME NEW r \in Recs, NEW w, RowOK(r, w), w.storage # "none", NEW event,
           \/ event = "fail" /\ w.capture \in Live
           \/ event = "lost" /\ w.capture \in Active
    PROVE  LET v == Journal([w EXCEPT !.escrow = @ + w.open, !.open = 0], event) IN
           RowOK(r, v) /\ RowStep(w, v) /\ v.capture \notin Active /\ v.storage = w.storage
<1> DEFINE x == [w EXCEPT !.escrow = @ + w.open, !.open = 0]
           v == Journal(x, event)
<1>1. w \in Rows /\ WellKept(r, w) /\ w.open \in Nat /\ 0 \in Nat
      /\ w.escrow \in Int /\ Sealed(w) \in Nat /\ w.escrow + w.open \in Int
  BY SealedType DEF RowOK, Rows
<1>2. x \in Rows
  BY <1>1, Zenon DEF Rows
<1>3. /\ x.escrow = w.escrow + w.open /\ x.open = 0 /\ x.key = w.key
      /\ x.capture = w.capture /\ x.storage = w.storage
      /\ x.maximum = w.maximum /\ x.charged = w.charged /\ x.ends = w.ends
      /\ x.released = w.released /\ x.freed = w.freed /\ x.media = w.media /\ x.cause = w.cause
  BY <1>1, Zenon DEF Rows
<1> HIDE DEF x
<1>4. After(x.capture, event) \in {"interrupted", "failed"} /\ {"interrupted", "failed"} \subseteq States
  BY <1>3, Events DEF States
<1>5. /\ v \in Rows /\ v.capture \in {"interrupted", "failed"}
      /\ v.escrow = w.escrow + w.open /\ v.open = 0 /\ v.key = w.key /\ v.media = w.media
      /\ v.storage = w.storage /\ v.maximum = w.maximum /\ v.charged = w.charged
      /\ v.ends = w.ends /\ v.released = w.released /\ v.freed = w.freed /\ v.cause = w.cause
  BY <1>2, <1>3, <1>4, Journaled
<1> HIDE DEF v
<1>6. Sealed(v) = Sealed(w) /\ Segments(v) = Segments(w) /\ Unreleased(v) = Unreleased(w)
  BY <1>5 DEF Sealed, Segments, Unreleased
<1>7. WellKept(r, v)
  BY <1>1, <1>5, <1>6 DEF WellKept, Active
<1>8. RowStep(w, v)
  BY <1>5, <1>6 DEF RowStep, OnShelf, Active
<1> QED BY <1>5, <1>7, <1>8 DEF RowOK, Active, x, v

\* publish_recording
LEMMA PublishedOK ==
    ASSUME NEW r \in Recs, NEW w \in Rows, w.capture \in {"starting", "running"},
           w.storage = "reserved", Len(w.ends) <= Sealed(w), Len(w.ends) <= MaxSegments,
           NEW charge \in Int, charge = Unreleased(w), charge > 0
    PROVE  LET v == Published(w, charge) IN
           RowOK(r, v) /\ RowStep(w, v) /\ v.capture = "completed"
<1> DEFINE x == [w EXCEPT !.storage = "retained", !.charged = charge, !.media = charge,
                          !.escrow = 0, !.open = 0, !.key = 0]
           y == Journal(x, "stop")
           v == Journal(y, "finalized")
<1>1. /\ 0 \in Nat /\ 0 \in Int /\ 0 \in Ordinals \union {0}
      /\ "retained" \in {"none", "reserved", "retained", "deleting", "deleted"}
  OBVIOUS
<1>2. x \in Rows
  BY <1>1, Zenon DEF Rows
<1>3. /\ x.storage = "retained" /\ x.charged = charge /\ x.media = charge
      /\ x.escrow = 0 /\ x.open = 0 /\ x.key = 0 /\ x.capture = w.capture
      /\ x.ends = w.ends /\ x.released = w.released /\ x.freed = w.freed /\ x.cause = w.cause
  BY <1>1, Zenon DEF Rows
<1> HIDE DEF x
<1>4. After(x.capture, "stop") = "stopping" /\ {"stopping", "completed"} \subseteq States
  BY <1>3, Events DEF States, Active, Live
<1>5. /\ y \in Rows /\ y.capture = "stopping" /\ y.storage = "retained"
      /\ y.charged = charge /\ y.media = charge
      /\ y.escrow = 0 /\ y.open = 0 /\ y.key = 0
      /\ y.ends = w.ends /\ y.released = w.released /\ y.freed = w.freed /\ y.cause = w.cause
  BY <1>2, <1>3, <1>4, Journaled
<1> HIDE DEF y
<1>6. After(y.capture, "finalized") = "completed"
  BY <1>5, Events
<1>7. /\ v \in Rows /\ v.capture = "completed" /\ v.storage = "retained"
      /\ v.charged = charge /\ v.media = charge
      /\ v.escrow = 0 /\ v.open = 0 /\ v.key = 0
      /\ v.ends = w.ends /\ v.released = w.released /\ v.freed = w.freed /\ v.cause = w.cause
  BY <1>4, <1>5, <1>6, Journaled
<1> HIDE DEF v
<1>8. Sealed(v) = Sealed(w) /\ Segments(v) = Segments(w) /\ Unreleased(v) = Unreleased(w)
  BY <1>7 DEF Sealed, Segments, Unreleased
<1>9. WellKept(r, v)
  BY <1>1, <1>7, <1>8 DEF WellKept, Active
<1>10. RowStep(w, v)
  BY <1>1, <1>7, <1>8 DEF RowStep, OnShelf, Active
<1> QED BY <1>7, <1>9, <1>10 DEF RowOK, Published, v, y, x

LEMMA CompletedOK ==
    ASSUME NEW r \in Recs, NEW w, RowOK(r, w), CanComplete(w)
    PROVE  RowOK(r, Completed(w)) /\ RowStep(w, Completed(w)) /\ Completed(w).capture = "completed"
BY PublishedOK, SealedType DEF RowOK, WellKept, CanComplete, Completed

LEMMA WholeOK ==
    ASSUME NEW r \in Recs, NEW w, RowOK(r, w), NEW bytes \in Nat, bytes > 0, CanPublish(w, bytes)
    PROVE  LET v == PublishedWhole(w, bytes) IN
           RowOK(r, v) /\ RowStep(w, v) /\ v.capture = "completed"
<1> DEFINE x == [w EXCEPT !.ends = <<bytes>>]
           v == Published(x, bytes)
<1>1. w \in Rows /\ w.ends = <<>> /\ w.freed = 0 /\ w.storage = "reserved"
      /\ w.capture = "starting" /\ w.released = {}
  BY DEF RowOK, WellKept, CanPublish
<1>2. <<bytes>> \in Seq(Nat) /\ Len(<<bytes>>) = 1 /\ <<bytes>> # <<>> /\ <<bytes>>[1] = bytes
  OBVIOUS
<1>3. /\ x \in Rows /\ x.ends = <<bytes>> /\ x.freed = w.freed /\ x.storage = w.storage
      /\ x.capture = w.capture /\ x.released = w.released /\ x.version = w.version
      /\ x.cause = w.cause
  BY <1>1, <1>2, Zenon DEF Rows
<1> HIDE DEF x
<1>4. Sealed(x) = bytes /\ Unreleased(x) = bytes /\ Len(x.ends) = 1
  BY <1>1, <1>2, <1>3 DEF Sealed, Unreleased
<1>5. RowOK(r, v) /\ RowStep(x, v) /\ v.capture = "completed"
  <2>1. /\ x.capture \in {"starting", "running"} /\ x.storage = "reserved"
        /\ Len(x.ends) <= Sealed(x) /\ Len(x.ends) <= MaxSegments
        /\ bytes \in Int /\ bytes = Unreleased(x)
    BY <1>1, <1>3, <1>4, RecordingsAssumption
  <2> QED BY <1>3, <2>1, PublishedOK
<1> HIDE DEF v
<1>6. Segments(w) = {}
  BY <1>1 DEF Segments
<1>7. RowStep(w, v)
  BY <1>1, <1>3, <1>5, <1>6 DEF RowStep, OnShelf
<1> QED BY <1>5, <1>7 DEF PublishedWhole, v, x

\* A request about a recording, and time: neither bytes nor the capture.
LEMMA TouchedOK ==
    ASSUME NEW r \in Recs, NEW w, RowOK(r, w), NEW v \in Rows, w.storage # "none",
           v.storage = w.storage, v.capture = w.capture, v.version = w.version,
           v.maximum = w.maximum, v.charged = w.charged, v.escrow = w.escrow,
           v.open = w.open, v.key = w.key, v.ends = w.ends, v.released = w.released,
           v.freed = w.freed, v.media = w.media, v.cause = w.cause
    PROVE  RowOK(r, v) /\ RowStep(w, v)
<1>1. Sealed(v) = Sealed(w) /\ Segments(v) = Segments(w) /\ Unreleased(v) = Unreleased(w)
  BY DEF Sealed, Segments, Unreleased
<1>2. WellKept(r, w)
  BY DEF RowOK
<1>3. WellKept(r, v)
  BY <1>1, <1>2 DEF WellKept
<1>4. RowStep(w, v)
  BY <1>1 DEF RowStep, OnShelf
<1> QED BY <1>3, <1>4 DEF RowOK

LEMMA RequestsOK ==
    ASSUME NEW r \in Recs, NEW w, RowOK(r, w), w.storage # "none"
    PROVE  /\ LET v == [w EXCEPT !.temporary = ~@] IN RowOK(r, v) /\ RowStep(w, v)
           /\ LET v == [w EXCEPT !.receipt = TRUE] IN RowOK(r, v) /\ RowStep(w, v)
           /\ \A n \in Nat : LET v == [w EXCEPT !.aged = TRUE, !.agedTo = n]
                            IN  RowOK(r, v) /\ RowStep(w, v)
           /\ \A range : RowOK(r, HeldBy(w, range)) /\ RowStep(w, HeldBy(w, range))
<1>1. w \in Rows /\ (~w.temporary) \in BOOLEAN /\ TRUE \in BOOLEAN
  BY DEF RowOK
<1>2. LET v == [w EXCEPT !.temporary = ~@] IN RowOK(r, v) /\ RowStep(w, v)
  <2> DEFINE v == [w EXCEPT !.temporary = ~@]
  <2>1. v \in Rows
    BY <1>1, Zenon DEF Rows
  <2>2. /\ v.storage = w.storage /\ v.capture = w.capture /\ v.version = w.version
        /\ v.maximum = w.maximum /\ v.charged = w.charged /\ v.escrow = w.escrow
        /\ v.open = w.open /\ v.key = w.key /\ v.ends = w.ends /\ v.released = w.released
        /\ v.freed = w.freed /\ v.media = w.media /\ v.cause = w.cause
    BY <1>1, Zenon DEF Rows
  <2> HIDE DEF v
  <2> QED BY <2>1, <2>2, TouchedOK DEF v
<1>3. LET v == [w EXCEPT !.receipt = TRUE] IN RowOK(r, v) /\ RowStep(w, v)
  <2> DEFINE v == [w EXCEPT !.receipt = TRUE]
  <2>1. v \in Rows
    BY <1>1, Zenon DEF Rows
  <2>2. /\ v.storage = w.storage /\ v.capture = w.capture /\ v.version = w.version
        /\ v.maximum = w.maximum /\ v.charged = w.charged /\ v.escrow = w.escrow
        /\ v.open = w.open /\ v.key = w.key /\ v.ends = w.ends /\ v.released = w.released
        /\ v.freed = w.freed /\ v.media = w.media /\ v.cause = w.cause
    BY <1>1, Zenon DEF Rows
  <2> HIDE DEF v
  <2> QED BY <2>1, <2>2, TouchedOK DEF v
<1>4. ASSUME NEW n \in Nat
      PROVE  LET v == [w EXCEPT !.aged = TRUE, !.agedTo = n] IN RowOK(r, v) /\ RowStep(w, v)
  <2> DEFINE v == [w EXCEPT !.aged = TRUE, !.agedTo = n]
  <2>1. v \in Rows
    BY <1>1, Zenon DEF Rows
  <2>2. /\ v.storage = w.storage /\ v.capture = w.capture /\ v.version = w.version
        /\ v.maximum = w.maximum /\ v.charged = w.charged /\ v.escrow = w.escrow
        /\ v.open = w.open /\ v.key = w.key /\ v.ends = w.ends /\ v.released = w.released
        /\ v.freed = w.freed /\ v.media = w.media /\ v.cause = w.cause
    BY <1>1, Zenon DEF Rows
  <2> HIDE DEF v
  <2> QED BY <2>1, <2>2, TouchedOK DEF v
<1>5. ASSUME NEW range PROVE RowOK(r, HeldBy(w, range)) /\ RowStep(w, HeldBy(w, range))
  <2> DEFINE held == w.held \union ((range \intersect Segments(w)) \ w.released)
             v == [w EXCEPT !.held = held]
  <2>1. held \in SUBSET Ordinals
    BY <1>1, SegmentsType DEF Rows
  <2>2. v = HeldBy(w, range)
    BY <1>1, Zenon DEF HeldBy, Rows
  <2> HIDE DEF held
  <2>3. v \in Rows
    BY <1>1, <2>1, Zenon DEF Rows
  <2>4. /\ v.storage = w.storage /\ v.capture = w.capture /\ v.version = w.version
        /\ v.maximum = w.maximum /\ v.charged = w.charged /\ v.escrow = w.escrow
        /\ v.open = w.open /\ v.key = w.key /\ v.ends = w.ends /\ v.released = w.released
        /\ v.freed = w.freed /\ v.media = w.media /\ v.cause = w.cause
    BY <1>1, Zenon DEF Rows
  <2> HIDE DEF v
  <2> QED BY <2>2, <2>3, <2>4, TouchedOK
<1> QED BY <1>2, <1>3, <1>4, <1>5

\* mark_segment_released
LEMMA ReleasedOK ==
    ASSUME NEW r \in Recs, NEW w, RowOK(r, w), OnShelf(w), NEW n \in Segments(w),
           w.storage = "retained" => Length(w, n) < w.media
    PROVE  LET v == Released(w, n) IN
           /\ RowOK(r, v)
           /\ v.storage = w.storage /\ v.capture = w.capture /\ v.version = w.version
           /\ v.ends = w.ends /\ v.released = w.released \union {n}
           /\ v.key = w.key /\ v.cause = w.cause
<1> DEFINE freed == IF w.storage = "retained" THEN Length(w, n) ELSE 0
           gone == w.released \union {n}
           total == w.freed + Length(w, n)
           charge == w.charged - freed
           media == w.media - freed
           v == [w EXCEPT !.released = gone, !.freed = total, !.charged = charge, !.media = media]
<1>1. w \in Rows /\ WellKept(r, w) /\ Length(w, n) \in Int /\ w.freed \in Int
      /\ w.charged \in Int /\ w.media \in Int /\ w.ends # <<>> /\ Sealed(w) \in Nat
  <2>1. w.ends # <<>>
    BY DEF Segments
  <2> QED BY <2>1, LengthType, SealedType DEF RowOK, Rows
<1>2. gone \in SUBSET Ordinals
  BY <1>1, SegmentsType DEF Rows
<1>3. total \in Int /\ charge \in Int /\ media \in Int
  BY <1>1
<1>4. v = Released(w, n)
  BY <1>1, Zenon DEF Released, Rows
<1>5. /\ w.storage = "retained" => total = w.freed + Length(w, n)
                                  /\ charge = w.charged - Length(w, n)
                                  /\ media = w.media - Length(w, n)
      /\ w.storage = "reserved" => charge = w.charged
  BY <1>1
<1> HIDE DEF gone, total, charge, media, freed
<1>6. v \in Rows
  BY <1>1, <1>2, <1>3, Zenon DEF Rows
<1>7. /\ v.released = gone /\ v.freed = total /\ v.charged = charge /\ v.media = media
      /\ v.storage = w.storage /\ v.capture = w.capture /\ v.version = w.version
      /\ v.maximum = w.maximum /\ v.escrow = w.escrow
      /\ v.open = w.open /\ v.key = w.key /\ v.ends = w.ends /\ v.cause = w.cause
  BY <1>1, Zenon DEF Rows
<1> HIDE DEF v
<1>8. Sealed(v) = Sealed(w) /\ Unreleased(v) = Sealed(w) - total
  BY <1>7 DEF Sealed, Unreleased
<1>9. WellKept(r, v)
  <2>1. CASE w.storage = "retained"
    <3>1. w.charged = w.media /\ w.media = Sealed(w) - w.freed /\ w.media > 0
          /\ w.escrow = 0 /\ w.open = 0 /\ w.key = 0
      BY <1>1, <2>1 DEF WellKept, Unreleased
    <3>2. v.charged = v.media /\ v.media = Unreleased(v) /\ v.media > 0
      BY <1>1, <1>5, <1>7, <1>8, <2>1, <3>1
    <3> QED BY <1>1, <1>7, <1>8, <2>1, <3>1, <3>2 DEF WellKept
  <2>2. CASE w.storage = "reserved"
    BY <1>1, <1>5, <1>7, <1>8, <2>2 DEF WellKept
  <2> QED BY <2>1, <2>2 DEF OnShelf
<1> QED BY <1>4, <1>6, <1>7, <1>9 DEF RowOK, gone

\* begin_delete
LEMMA DeletingOK ==
    ASSUME NEW r \in Recs, NEW w, RowOK(r, w), w.storage # "none", w.capture \notin Active
    PROVE  LET v == Deleting(w) IN
           /\ RowOK(r, v) /\ v.storage = "deleting" /\ v.capture = w.capture
           /\ v.ends = w.ends /\ v.key = w.key /\ v.cause = w.cause
<1> DEFINE v == Deleting(w)
<1>1. w \in Rows /\ WellKept(r, w)
      /\ "deleting" \in {"none", "reserved", "retained", "deleting", "deleted"}
  BY DEF RowOK
<1>2. v \in Rows
  BY <1>1, Zenon DEF Rows, Deleting
<1>3. /\ v.storage = "deleting" /\ v.capture = w.capture /\ v.version = w.version
      /\ v.maximum = w.maximum /\ v.charged = w.charged /\ v.escrow = w.escrow
      /\ v.open = w.open /\ v.key = w.key /\ v.ends = w.ends /\ v.released = w.released
      /\ v.freed = w.freed /\ v.media = w.media /\ v.cause = w.cause
  BY <1>1, Zenon DEF Rows, Deleting
<1> HIDE DEF v
<1>4. Sealed(v) = Sealed(w)
  BY <1>3 DEF Sealed
<1>5. WellKept(r, v)
  BY <1>1, <1>3, <1>4 DEF WellKept, Active
<1> QED BY <1>2, <1>3, <1>5 DEF RowOK, v

\* finish_delete
LEMMA DeletedOK ==
    ASSUME NEW r \in Recs, NEW w, RowOK(r, w), w.capture \notin Active
    PROVE  LET v == Deleted(w) IN
           RowOK(r, v) /\ v.storage = "deleted" /\ v.capture \notin Active /\ v.cause = w.cause
<1> DEFINE x == [NoRow EXCEPT !.capture = w.capture, !.version = w.version,
                              !.storage = "deleted", !.cause = w.cause]
           v == IF w.capture \in {"scheduled", "interrupted"} THEN Journal(x, "cancel") ELSE x
<1>1. /\ w.capture \in States /\ w.version \in Versions /\ w.cause \in Causes
      /\ "deleted" \in {"none", "reserved", "retained", "deleting", "deleted"}
      /\ NoRow \in Rows
  BY NoRowOK DEF RowOK, Rows
<1>2. NoRow.ends = <<>> /\ NoRow.charged = 0 /\ NoRow.escrow = 0 /\ NoRow.open = 0
  BY DEF NoRow
<1>3. x \in Rows
  BY <1>1, Zenon DEF Rows
<1>4. /\ x.capture = w.capture /\ x.storage = "deleted" /\ x.cause = w.cause
      /\ x.ends = NoRow.ends /\ x.charged = NoRow.charged /\ x.escrow = NoRow.escrow
      /\ x.open = NoRow.open
  BY <1>1, Zenon DEF Rows
<1> HIDE DEF x
<1>5. /\ v \in Rows /\ v.capture \notin Active /\ v.storage = "deleted" /\ v.cause = w.cause
      /\ v.ends = <<>> /\ v.charged = 0 /\ v.escrow = 0 /\ v.open = 0
  <2>1. CASE w.capture \in {"scheduled", "interrupted"}
    <3>1. After(x.capture, "cancel") = "cancelled" /\ "cancelled" \in States
      BY <1>4, <2>1, Events DEF States
    <3>2. v = Journal(x, "cancel")
      BY <2>1
    <3> QED BY <1>2, <1>3, <1>4, <3>1, <3>2, Journaled DEF Active
  <2>2. CASE w.capture \notin {"scheduled", "interrupted"}
    <3>1. v = x
      BY <2>2
    <3> QED BY <1>2, <1>3, <1>4, <3>1
  <2> QED BY <2>1, <2>2
<1>6. v = Deleted(w)
  BY Zenon DEF Deleted, x
<1> HIDE DEF v
<1>7. Sealed(v) = 0 /\ Len(v.ends) = 0
  BY <1>5 DEF Sealed
<1>8. WellKept(r, v)
  BY <1>5, <1>7, RecordingsAssumption DEF WellKept, Active
<1> QED BY <1>5, <1>6, <1>8 DEF RowOK

\* ------------------------------------------------------ the invariant --

WorkerOK(r, x) ==
    /\ x.at \in {"connecting", "asking", "reading", "staged", "cut"} => r \in Segmented
    /\ x.at = "staged" => x.bytes > 0
    /\ r \notin Segmented /\ x.at \in {"received", "done"} => x.bytes > 0

WorkersOK == \A r \in Recs :
    /\ WorkerOK(r, worker[r])
    /\ worker[r].at # "none" => rec[r].storage # "none"

RowsOK == \A r \in Recs : RowOK(r, rec[r])

ReadersOK == \A q \in reading : reader[q].rec \in Recs

\* What a turn holds in hand.
TurnOK ==
    /\ turn.step # "unlink" => turn.segment = 0
    /\ turn.step = "unlink" => turn.rec \in Recs
    /\ turn.step = "unlink" /\ turn.segment = 0 => rec[turn.rec].storage = "deleting"
    /\ turn.step = "unlink" /\ turn.segment # 0 =>
          LET w == rec[turn.rec] IN
          /\ OnShelf(w) /\ turn.segment \in Segments(w) \ (w.released \union w.held)
          /\ turn.segment # w.key /\ turn.keys \subseteq {turn.segment}
          /\ turn.rec \notin jobs
          /\ \A q \in Readings(turn.rec) : reader[q].segment # turn.segment
    /\ turn.step = "admit" => turn.by = "reclaim"
    /\ turn.by = "reclaim" => turn.want \in Recs /\ rec[turn.want].storage = "none"

\* What start-up runs beside: nothing.
ServiceOK ==
    /\ service \in {"down", "readers"} => turn = NoTurn
    /\ turn.by = "boot" => service = "deletions"
    /\ service \in {"down", "readers", "deletions"} =>
          /\ turn.by # "reclaim" /\ reading = {}
          /\ \A r \in Recs : worker[r].at = "none"
    /\ service \in {"readers", "deletions"} => ActiveCaptures = {}

IInv ==
    /\ TypeOK /\ RowsOK /\ WorkersOK /\ ReadersOK /\ TurnOK /\ ServiceOK
    /\ DeletionsCanFinish /\ LiveCapturesWorked

\* -------------------------------------------------------- the workers --

\* One worker takes a step and stays its generation's.
WorkerMoves(r, place) ==
    /\ worker' \in [Recs -> Workers]
    /\ worker'[r].at = place /\ worker'[r].generation = worker[r].generation
    /\ \A x \in Recs \ {r} : worker'[x] = worker[x]

Places == {"none", "connecting", "asking", "reading", "staged", "cut",
           "receiving", "received", "done", "failed"}

LEMMA StepMoves ==
    ASSUME worker \in [Recs -> Workers], NEW r \in Recs, NEW place \in Places, Step(r, place)
    PROVE  WorkerMoves(r, place) /\ worker'[r].bytes = worker[r].bytes
           /\ worker'[r].key = worker[r].key
<1>1. worker' = [worker EXCEPT ![r] = [worker[r] EXCEPT !.at = place]]
  BY Zenon DEF Step
<1>2. [worker[r] EXCEPT !.at = place] \in Workers
  BY Zenon DEF Workers, Places
<1>3. /\ [worker[r] EXCEPT !.at = place].at = place
      /\ [worker[r] EXCEPT !.at = place].generation = worker[r].generation
      /\ [worker[r] EXCEPT !.at = place].bytes = worker[r].bytes
      /\ [worker[r] EXCEPT !.at = place].key = worker[r].key
  BY Zenon DEF Workers
<1>4. worker'[r] = [worker[r] EXCEPT !.at = place]
  BY <1>1, Zenon
<1> QED BY <1>1, <1>2, <1>3, <1>4, Zenon DEF WorkerMoves

LEMMA NoWorkerType == NoWorker \in Workers /\ NoWorker.at = "none"
BY NoRowOK DEF NoWorker, Workers, NoRow, Versions

LEMMA BrokenMoves ==
    ASSUME worker \in [Recs -> Workers], NEW r \in Recs, Broken(r)
    PROVE  WorkerMoves(r, "failed")
<1> DEFINE x == [NoWorker EXCEPT !.at = "failed", !.generation = worker[r].generation]
<1>1. worker[r].generation \in Nat
  BY DEF Workers
<1>2. x \in Workers /\ x.at = "failed" /\ x.generation = worker[r].generation
  BY <1>1, NoWorkerType, Zenon DEF Workers
<1>3. worker' = [worker EXCEPT ![r] = x]
  BY Zenon DEF Broken
<1> HIDE DEF x
<1> QED BY <1>2, <1>3, Zenon DEF WorkerMoves

\* The other forms of a worker's step: a call that updates what it holds.
LEMMA HoldsMoves ==
    ASSUME worker \in [Recs -> Workers], NEW r \in Recs, NEW place \in Places,
           NEW token \in Versions, NEW key \in Nat, NEW bytes \in Nat
    PROVE  /\ worker' = [worker EXCEPT ![r].at = place, ![r].token = token]
                => WorkerMoves(r, place)
           /\ worker' = [worker EXCEPT ![r].at = place, ![r].key = key]
                => WorkerMoves(r, place) /\ worker'[r].key = key
           /\ worker' = [worker EXCEPT ![r].at = place, ![r].bytes = bytes]
                => /\ WorkerMoves(r, place)
                   /\ worker'[r].bytes = bytes /\ worker'[r].key = worker[r].key
           /\ worker' = [worker EXCEPT ![r].at = place, ![r].key = key, ![r].bytes = bytes]
                => WorkerMoves(r, place)
<1>1. worker[r] \in Workers
  OBVIOUS
<1>2. ASSUME NEW x \in Workers, x.at = place, x.generation = worker[r].generation,
             worker' = [worker EXCEPT ![r] = x]
      PROVE  WorkerMoves(r, place) /\ worker'[r] = x
  BY <1>2, Zenon DEF WorkerMoves
<1>3. ASSUME worker' = [worker EXCEPT ![r].at = place, ![r].token = token]
      PROVE  WorkerMoves(r, place)
  <2> DEFINE x == [worker[r] EXCEPT !.at = place, !.token = token]
  <2>1. worker' = [worker EXCEPT ![r] = x]
    BY <1>3, Zenon
  <2>2. x \in Workers /\ x.at = place /\ x.generation = worker[r].generation
    BY <1>1, Zenon DEF Workers, Places
  <2> QED BY <1>2, <2>1, <2>2, Zenon
<1>4. ASSUME worker' = [worker EXCEPT ![r].at = place, ![r].key = key]
      PROVE  WorkerMoves(r, place) /\ worker'[r].key = key
  <2> DEFINE x == [worker[r] EXCEPT !.at = place, !.key = key]
  <2>1. worker' = [worker EXCEPT ![r] = x]
    BY <1>4, Zenon
  <2>2. x \in Workers /\ x.at = place /\ x.generation = worker[r].generation /\ x.key = key
    BY <1>1, Zenon DEF Workers, Places
  <2> QED BY <1>2, <2>1, <2>2, Zenon
<1>5. ASSUME worker' = [worker EXCEPT ![r].at = place, ![r].bytes = bytes]
      PROVE  /\ WorkerMoves(r, place)
             /\ worker'[r].bytes = bytes /\ worker'[r].key = worker[r].key
  <2> DEFINE x == [worker[r] EXCEPT !.at = place, !.bytes = bytes]
  <2>1. worker' = [worker EXCEPT ![r] = x]
    BY <1>5, Zenon
  <2>2. x \in Workers /\ x.at = place /\ x.generation = worker[r].generation
        /\ x.bytes = bytes /\ x.key = worker[r].key
    BY <1>1, Zenon DEF Workers, Places
  <2> QED BY <1>2, <2>1, <2>2, Zenon
<1>6. ASSUME worker' = [worker EXCEPT ![r].at = place, ![r].key = key, ![r].bytes = bytes]
      PROVE  WorkerMoves(r, place)
  <2> DEFINE x == [worker[r] EXCEPT !.at = place, !.key = key, !.bytes = bytes]
  <2>1. worker' = [worker EXCEPT ![r] = x]
    BY <1>6, Zenon
  <2>2. x \in Workers /\ x.at = place /\ x.generation = worker[r].generation
    BY <1>1, Zenon DEF Workers, Places
  <2> QED BY <1>2, <2>1, <2>2, Zenon
<1> QED BY <1>3, <1>4, <1>5, <1>6

\* ------------------------------------------- steps of one recording --

LEMMA RowStepRefl == \A w : RowStep(w, w)
BY DEF RowStep

LEMMA NoTurnOK == ASSUME turn' = NoTurn PROVE TurnOK'
<1>1. /\ NoTurn.step = "idle" /\ NoTurn.segment = 0 /\ NoTurn.by = "none" /\ NoTurn.rec = NoRec
  BY DEF NoTurn
<1> QED BY <1>1 DEF TurnOK

\* A turn in hand stays right while the rows it looks at do.
LEMMA SameTurnOK ==
    ASSUME TurnOK, turn' = turn, jobs' = jobs,
           \A x \in Recs : /\ rec'[x].storage = rec[x].storage /\ rec'[x].ends = rec[x].ends
                           /\ rec'[x].released = rec[x].released /\ rec'[x].held = rec[x].held
                           /\ rec'[x].key = rec[x].key,
           \A x \in Recs : \A q \in Readings(x)' : q \in Readings(x) /\ reader'[q] = reader[q]
    PROVE  TurnOK'
<1>1. turn.step # "unlink" => turn.segment = 0
  BY DEF TurnOK
<1>2. turn.step = "unlink" => turn.rec \in Recs
  BY DEF TurnOK
<1>3. turn.step = "unlink" /\ turn.segment = 0 => rec'[turn.rec].storage = "deleting"
  BY DEF TurnOK
<1>4. ASSUME turn.step = "unlink", turn.segment # 0
      PROVE  LET w == rec'[turn.rec] IN
             /\ OnShelf(w) /\ turn.segment \in Segments(w) \ (w.released \union w.held)
             /\ turn.segment # w.key /\ turn.keys \subseteq {turn.segment}
             /\ turn.rec \notin jobs
             /\ \A q \in Readings(turn.rec)' : reader'[q].segment # turn.segment
  <2> DEFINE w == rec[turn.rec]
  <2>1. /\ OnShelf(w) /\ turn.segment \in Segments(w) \ (w.released \union w.held)
        /\ turn.segment # w.key /\ turn.keys \subseteq {turn.segment}
        /\ turn.rec \notin jobs /\ turn.rec \in Recs
        /\ \A q \in Readings(turn.rec) : reader[q].segment # turn.segment
    BY <1>4, <1>2 DEF TurnOK
  <2>2. /\ OnShelf(rec'[turn.rec]) /\ Segments(rec'[turn.rec]) = Segments(w)
    BY <2>1 DEF OnShelf, Segments
  <2>3. \A q \in Readings(turn.rec)' : reader'[q].segment # turn.segment
    BY <2>1
  <2> QED BY <2>1, <2>2, <2>3
<1>5. /\ turn.step = "admit" => turn.by = "reclaim"
      /\ turn.by = "reclaim" => turn.want \in Recs /\ rec'[turn.want].storage = "none"
  BY DEF TurnOK
<1> QED BY <1>1, <1>2, <1>3, <1>4, <1>5 DEF TurnOK

\* A step on one recording, its row and its worker, while the actor is in no
\* turn (or time passes: then the turn sees no difference).
LEMMA CallKeeps ==
    ASSUME IInv, NEW r \in Recs, NEW v, Row(r, v), RowOK(r, v), RowStep(rec[r], v),
           worker' \in [Recs -> Workers], \A x \in Recs \ {r} : worker'[x] = worker[x],
           worker'[r].generation = worker[r].generation,
           worker'[r].at = "none" <=> worker[r].at = "none", WorkerOK(r, worker'[r]),
           \/ turn = NoTurn
           \/ /\ v.storage = rec[r].storage /\ v.ends = rec[r].ends /\ v.held = rec[r].held
              /\ v.released = rec[r].released /\ v.key = rec[r].key,
           UNCHANGED <<reader, reading, jobs, service, turn>>,
           disk' \in [Recs -> [Ordinals -> Nat]],
           asks' \in 0 .. MaxAsks, mishaps' \in 0 .. MaxMishaps
    PROVE  IInv'
<1> DEFINE w == rec[r]
<1>1. rec \in [Recs -> Rows] /\ worker \in [Recs -> Workers] /\ turn \in Turns
  BY DEF IInv, TypeOK
<1>2. rec' \in [Recs -> Rows] /\ rec'[r] = v /\ \A x \in Recs \ {r} : rec'[x] = rec[x]
  BY <1>1 DEF Row, RowOK
<1>3. TypeOK'
  BY <1>2 DEF IInv, TypeOK
<1>4. RowsOK'
  BY <1>2 DEF IInv, RowsOK
<1>5. WorkersOK'
  <2> SUFFICES ASSUME NEW x \in Recs
               PROVE  WorkerOK(x, worker'[x]) /\ (worker'[x].at # "none" => rec'[x].storage # "none")
    BY DEF WorkersOK
  <2>1. WorkerOK(x, worker[x]) /\ (worker[x].at # "none" => rec[x].storage # "none")
    BY DEF IInv, WorkersOK
  <2>2. CASE x = r
    BY <1>2, <2>1, <2>2 DEF RowStep
  <2>3. CASE x # r
    BY <1>2, <2>1, <2>3
  <2> QED BY <2>2, <2>3
<1>6. ReadersOK'
  BY DEF IInv, ReadersOK
<1>7. TurnOK'
  <2>1. CASE turn = NoTurn
    BY <2>1, NoTurnOK
  <2>2. CASE turn # NoTurn
    <3>1. \A x \in Recs : /\ rec'[x].storage = rec[x].storage /\ rec'[x].ends = rec[x].ends
                          /\ rec'[x].released = rec[x].released /\ rec'[x].held = rec[x].held
                          /\ rec'[x].key = rec[x].key
      BY <1>2, <2>2
    <3>2. \A x : Readings(x)' = Readings(x)
      BY DEF Readings
    <3>3. TurnOK
      BY DEF IInv
    <3> QED BY <3>1, <3>2, <3>3, SameTurnOK
  <2> QED BY <2>1, <2>2
<1>8. \A x \in Recs : rec'[x].capture \in Active =>
         rec[x].capture \in Active /\ rec'[x].version.generation = rec[x].version.generation
  BY <1>2 DEF RowStep
<1>9. ServiceOK'
  <2>1. \A x \in Recs : worker'[x].at = "none" <=> worker[x].at = "none"
    BY <1>2
  <2>2. ActiveCaptures = {} => ActiveCaptures' = {}
    BY <1>8 DEF ActiveCaptures
  <2> QED BY <2>1, <2>2 DEF IInv, ServiceOK
<1>10. DeletionsCanFinish'
  <2>1. \A x \in Recs : /\ rec'[x].storage = "deleting" <=> rec[x].storage = "deleting"
                        /\ OnShelf(rec[x]) => OnShelf(rec'[x])
                        /\ Segments(rec[x]) \ rec[x].released
                              \subseteq Segments(rec'[x]) \ rec'[x].released
    BY <1>2, RowStepRefl DEF RowStep
  <2>2. PendingDeletions' = PendingDeletions
    BY <2>1 DEF PendingDeletions
  <2>3. \A x : Readings(x)' = Readings(x)
    BY DEF Readings
  <2>4. \A x \in PendingDeletions' :
           rec'[x].capture \notin Active /\ x \notin jobs' /\ Readings(x)' = {}
    BY <1>8, <2>2, <2>3 DEF IInv, DeletionsCanFinish, PendingDeletions
  <2>5. \A q \in reading' :
          /\ reader'[q].state \in Protecting /\ OnShelf(rec'[reader'[q].rec])
          /\ reader'[q].segment \in Segments(rec'[reader'[q].rec]) \ rec'[reader'[q].rec].released
    BY <2>1 DEF IInv, DeletionsCanFinish, ReadersOK
  <2> QED BY <2>4, <2>5 DEF DeletionsCanFinish, Protecting
<1>11. LiveCapturesWorked'
  <2> SUFFICES ASSUME service = "up", NEW x \in Recs, rec'[x].capture \in Active
               PROVE  worker'[x].at # "none" /\ worker'[x].generation = rec'[x].version.generation
    BY DEF LiveCapturesWorked, ActiveCaptures
  <2>1. worker[x].at # "none" /\ worker[x].generation = rec[x].version.generation
    BY <1>8 DEF IInv, LiveCapturesWorked, ActiveCaptures
  <2>2. CASE x = r
    BY <1>8, <2>1, <2>2
  <2>3. CASE x # r
    BY <1>8, <2>1, <2>3
  <2> QED BY <2>2, <2>3
<1> QED BY <1>3, <1>4, <1>5, <1>6, <1>7, <1>9, <1>10, <1>11 DEF IInv

LEMMA WorkerStepKeeps ==
    ASSUME IInv, NEW r \in Recs, NEW place, WorkerMoves(r, place), place # "none",
           worker[r].at # "none", WorkerOK(r, worker'[r]),
           UNCHANGED <<rec, reader, reading, jobs, service, turn, asks, mishaps>>,
           disk' \in [Recs -> [Ordinals -> Nat]]
    PROVE  IInv'
<1>1. Row(r, rec[r]) /\ RowOK(r, rec[r]) /\ RowStep(rec[r], rec[r])
  BY RowStepRefl DEF IInv, TypeOK, RowsOK, Row
<1>2. asks' \in 0 .. MaxAsks /\ mishaps' \in 0 .. MaxMishaps
  BY DEF IInv, TypeOK
<1> QED BY <1>1, <1>2, CallKeeps DEF WorkerMoves

LEMMA CallMovesKeeps ==
    ASSUME IInv, NEW r \in Recs, NEW v, Row(r, v), RowOK(r, v), RowStep(rec[r], v),
           NEW place, WorkerMoves(r, place), place # "none", worker[r].at # "none",
           WorkerOK(r, worker'[r]), Catalog, CallOnly
    PROVE  IInv'
<1>1. turn = NoTurn
  BY DEF Catalog
<1>2. disk' \in [Recs -> [Ordinals -> Nat]]
      /\ asks' \in 0 .. MaxAsks /\ mishaps' \in 0 .. MaxMishaps
  BY DEF IInv, TypeOK, CallOnly
<1>3. UNCHANGED <<reader, reading, jobs, service, turn>>
  BY DEF CallOnly
<1> QED BY <1>1, <1>2, <1>3, CallKeeps DEF WorkerMoves

LEMMA RequestKeeps ==
    ASSUME IInv, NEW r \in Recs, NEW v, Row(r, v), RowOK(r, v), RowStep(rec[r], v), Asked,
           \/ turn = NoTurn
           \/ /\ v.storage = rec[r].storage /\ v.ends = rec[r].ends /\ v.held = rec[r].held
              /\ v.released = rec[r].released /\ v.key = rec[r].key,
           UNCHANGED <<disk, worker, reader, reading, jobs, service, turn, mishaps>>
    PROVE  IInv'
<1>1. /\ disk' \in [Recs -> [Ordinals -> Nat]] /\ asks' \in 0 .. MaxAsks
      /\ mishaps' \in 0 .. MaxMishaps /\ worker' \in [Recs -> Workers]
  BY DvrAssumption DEF IInv, TypeOK, Asked
<1>2. WorkerOK(r, worker'[r])
  BY DEF IInv, WorkersOK
<1> QED BY <1>1, <1>2, CallKeeps

\* The row of a recording in hand, and its worker's.
LEMMA InHand ==
    ASSUME IInv, NEW r \in Recs
    PROVE  /\ RowOK(r, rec[r]) /\ rec[r] \in Rows
           /\ worker \in [Recs -> Workers] /\ worker[r] \in Workers /\ WorkerOK(r, worker[r])
           /\ worker[r].at # "none" => rec[r].storage # "none"
           /\ rec[r].capture \in Active => rec[r].storage = "reserved"
BY DEF IInv, TypeOK, RowsOK, RowOK, WorkersOK, WellKept

LEMMA PauseKeeps == ASSUME IInv, NEW r \in Recs, Pause(r) PROVE IInv'
<1>1. RowOK(r, rec[r]) /\ rec[r].capture = "running" /\ turn = NoTurn
  BY InHand DEF Pause, Serving
<1>2. "capture_pause" \in Causes /\ "capture_pause" # "none" /\ "lost" \in {"lost", "fail"}
  BY DEF Causes
<1> DEFINE v == EndedWithGap(rec[r], "capture_pause", "lost")
<1>3. RowOK(r, v) /\ RowStep(rec[r], v)
  BY <1>1, <1>2, EndedOK
<1>4. Row(r, v) /\ Asked
      /\ UNCHANGED <<disk, worker, reader, reading, jobs, service, turn, mishaps>>
  BY DEF Pause
<1> HIDE DEF v
<1> QED BY <1>1, <1>3, <1>4, RequestKeeps

LEMMA RetainKeeps == ASSUME IInv, NEW r \in Recs, Retain(r) PROVE IInv'
<1> DEFINE v == [rec[r] EXCEPT !.temporary = ~@]
<1>1. RowOK(r, rec[r]) /\ rec[r].storage # "none" /\ turn = NoTurn
  BY InHand DEF Retain, Serving, OnShelf
<1>2. RowOK(r, v) /\ RowStep(rec[r], v)
  BY <1>1, RequestsOK
<1>3. Row(r, v) /\ Asked
      /\ UNCHANGED <<disk, worker, reader, reading, jobs, service, turn, mishaps>>
  BY DEF Retain, RowOnly
<1> HIDE DEF v
<1> QED BY <1>1, <1>2, <1>3, RequestKeeps

LEMMA HoldKeeps == ASSUME IInv, NEW r \in Recs, HoldRange(r) PROVE IInv'
<1>1. PICK lo, hi \in Segments(rec[r]) :
         CanHold(rec[r], lo .. hi) /\ Row(r, HeldBy(rec[r], lo .. hi))
  BY DEF HoldRange
<1> DEFINE v == HeldBy(rec[r], lo .. hi)
<1>2. RowOK(r, rec[r]) /\ rec[r].storage # "none" /\ turn = NoTurn
  BY <1>1, InHand DEF HoldRange, Serving, CanHold, OnShelf
<1>3. RowOK(r, v) /\ RowStep(rec[r], v)
  BY <1>2, RequestsOK
<1>4. Row(r, v) /\ Asked
      /\ UNCHANGED <<disk, worker, reader, reading, jobs, service, turn, mishaps>>
  BY <1>1 DEF HoldRange, RowOnly
<1> HIDE DEF v
<1> QED BY <1>2, <1>3, <1>4, RequestKeeps

LEMMA AcknowledgeKeeps == ASSUME IInv, NEW r \in Recs, Acknowledge(r) PROVE IInv'
<1> DEFINE v == [rec[r] EXCEPT !.receipt = TRUE]
<1>1. RowOK(r, rec[r]) /\ rec[r].storage # "none" /\ turn = NoTurn
  BY InHand DEF Acknowledge, Serving
<1>2. RowOK(r, v) /\ RowStep(rec[r], v)
  BY <1>1, RequestsOK
<1>3. Row(r, v) /\ Asked
      /\ UNCHANGED <<disk, worker, reader, reading, jobs, service, turn, mishaps>>
  BY DEF Acknowledge, RowOnly
<1> HIDE DEF v
<1> QED BY <1>1, <1>2, <1>3, RequestKeeps

LEMMA AgeKeeps == ASSUME IInv, NEW r \in Recs, Age(r) PROVE IInv'
<1>1. PICK n \in rec[r].agedTo .. Len(rec[r].ends) :
         Row(r, [rec[r] EXCEPT !.aged = TRUE, !.agedTo = n])
  BY DEF Age
<1> DEFINE v == [rec[r] EXCEPT !.aged = TRUE, !.agedTo = n]
<1>2. RowOK(r, rec[r]) /\ rec[r] \in Rows /\ rec[r].storage # "none"
  BY InHand DEF Age, OnShelf
<1>3. n \in Nat
  <2>1. rec[r].agedTo \in Nat /\ rec[r].ends \in Seq(Nat)
    BY <1>2 DEF Rows
  <2> QED BY <2>1
<1>4. RowOK(r, v) /\ RowStep(rec[r], v)
  BY <1>2, <1>3, RequestsOK
<1>5. /\ v.storage = rec[r].storage /\ v.ends = rec[r].ends /\ v.held = rec[r].held
      /\ v.released = rec[r].released /\ v.key = rec[r].key
  BY <1>2, Zenon DEF Rows
<1>6. Row(r, v) /\ Asked
      /\ UNCHANGED <<disk, worker, reader, reading, jobs, service, turn, mishaps>>
  BY <1>1 DEF Age, RowOnly
<1> HIDE DEF v
<1> QED BY <1>4, <1>5, <1>6, RequestKeeps

LEMMA RequestsKeep ==
    ASSUME IInv, NEW r \in Recs,
           Pause(r) \/ Retain(r) \/ HoldRange(r) \/ Acknowledge(r) \/ Age(r)
    PROVE  IInv'
BY PauseKeeps, RetainKeeps, HoldKeeps, AcknowledgeKeeps, AgeKeeps

\* --------------------------------------------------- the worker's calls --

LEMMA StaleCallKeeps == ASSUME IInv, NEW r \in Recs, StaleCall(r) PROVE IInv'
<1>1. worker \in [Recs -> Workers] /\ Broken(r) /\ Catalog /\ CallOnly /\ worker[r].at # "none"
  BY DEF StaleCall, IInv, TypeOK
<1>2. WorkerMoves(r, "failed")
  BY <1>1, BrokenMoves
<1>3. WorkerOK(r, worker'[r])
  BY <1>2 DEF WorkerMoves, WorkerOK
<1>4. UNCHANGED rec /\ Row(r, rec[r]) /\ RowOK(r, rec[r]) /\ RowStep(rec[r], rec[r])
  BY RowStepRefl DEF StaleCall, IInv, TypeOK, RowsOK, Row
<1> QED BY <1>1, <1>2, <1>3, <1>4, CallMovesKeeps

LEMMA ConnectKeeps == ASSUME IInv, NEW r \in Recs, Connect(r) PROVE IInv'
<1> DEFINE v == Journal(rec[r], "connected")
<1>1. /\ RowOK(r, rec[r]) /\ rec[r].capture = "starting" /\ worker \in [Recs -> Workers]
      /\ worker[r].at = "connecting" /\ WorkerOK(r, worker[r]) /\ Catalog /\ CallOnly
  BY InHand DEF Connect, Call
<1>2. RowOK(r, v) /\ RowStep(rec[r], v)
  BY <1>1, ConnectedOK
<1>3. Row(r, v) /\ worker' = [worker EXCEPT ![r].at = "asking", ![r].token = v.version]
  BY DEF Connect
<1>4. v.version \in Versions
  <2> HIDE DEF v
  <2> QED BY <1>2 DEF RowOK, Rows
<1> HIDE DEF v
<1>5. WorkerMoves(r, "asking")
  <2>1. "asking" \in Places /\ 0 \in Nat
    BY DEF Places
  <2> QED BY <1>1, <1>3, <1>4, <2>1, HoldsMoves
<1>6. WorkerOK(r, worker'[r])
  BY <1>1, <1>5 DEF WorkerMoves, WorkerOK
<1> QED BY <1>1, <1>2, <1>3, <1>5, <1>6, CallMovesKeeps

LEMMA OpenKeeps == ASSUME IInv, NEW r \in Recs, OpenSegment(r) PROVE IInv'
<1>1. /\ RowOK(r, rec[r]) /\ CanOpen(rec[r]) /\ worker \in [Recs -> Workers]
      /\ worker[r].at = "asking" /\ WorkerOK(r, worker[r]) /\ Catalog /\ CallOnly
      /\ Len(rec[r].ends) \in Nat /\ rec[r].escrow \in Int /\ Ceiling \in Nat
  BY InHand, RecordingsAssumption, SMTT(30) DEF OpenSegment, Call, Rows
<1>2. CASE rec[r].escrow < Ceiling
  <2>1. Step(r, "done") /\ UNCHANGED rec
    BY <1>2 DEF OpenSegment
  <2>2. WorkerMoves(r, "done")
    BY <1>1, <2>1, StepMoves DEF Places
  <2>3. WorkerOK(r, worker'[r])
    BY <1>1, <2>2 DEF WorkerMoves, WorkerOK
  <2>4. Row(r, rec[r]) /\ RowStep(rec[r], rec[r])
    BY <2>1, RowStepRefl DEF Row, IInv, TypeOK
  <2> QED BY <1>1, <2>2, <2>3, <2>4, CallMovesKeeps
<1>3. CASE ~(rec[r].escrow < Ceiling)
  <2>1. /\ Row(r, Opened(rec[r]))
        /\ worker' = [worker EXCEPT ![r].at = "reading", ![r].key = Len(rec[r].ends) + 1]
    BY <1>3 DEF OpenSegment
  <2>2. RowOK(r, Opened(rec[r])) /\ RowStep(rec[r], Opened(rec[r]))
    BY <1>1, <1>3, OpenedOK
  <2>3. WorkerMoves(r, "reading")
    <3>1. "reading" \in Places /\ Len(rec[r].ends) + 1 \in Nat
      BY <1>1 DEF Places
    <3>2. NoRow.version \in Versions
      BY NoRowOK DEF RowOK, Rows
    <3> QED BY <1>1, <2>1, <3>1, <3>2, HoldsMoves
  <2>4. WorkerOK(r, worker'[r])
    BY <1>1, <2>3 DEF WorkerMoves, WorkerOK
  <2> QED BY <1>1, <2>1, <2>2, <2>3, <2>4, CallMovesKeeps
<1> QED BY <1>2, <1>3

LEMMA ReleaseOpenKeeps == ASSUME IInv, NEW r \in Recs, ReleaseOpen(r) PROVE IInv'
<1>1. /\ RowOK(r, rec[r]) /\ rec[r] \in Rows /\ worker \in [Recs -> Workers]
      /\ worker[r].at = "reading" /\ WorkerOK(r, worker[r]) /\ Catalog /\ CallOnly
  BY InHand DEF ReleaseOpen, Call
<1>2. Broken(r) \/ Step(r, "done")
  BY DEF ReleaseOpen
<1>3. \E place \in {"failed", "done"} : WorkerMoves(r, place)
  BY <1>1, <1>2, BrokenMoves, StepMoves DEF Places
<1>4. WorkerOK(r, worker'[r])
  BY <1>1, <1>3 DEF WorkerMoves, WorkerOK
<1>5. CASE Current(r) /\ rec[r].capture = "running" /\ rec[r].open > 0
  <2>1. Row(r, Withdrawn(rec[r]))
    BY <1>5 DEF ReleaseOpen
  <2>2. RowOK(r, Withdrawn(rec[r])) /\ RowStep(rec[r], Withdrawn(rec[r]))
    BY <1>1, <1>5, WithdrawnOK
  <2> QED BY <1>1, <1>3, <1>4, <2>1, <2>2, CallMovesKeeps
<1>6. CASE ~(Current(r) /\ rec[r].capture = "running" /\ rec[r].open > 0)
  <2>1. Row(r, rec[r]) /\ RowStep(rec[r], rec[r])
    BY <1>6, RowStepRefl DEF ReleaseOpen, Row, IInv, TypeOK
  <2> QED BY <1>1, <1>3, <1>4, <2>1, CallMovesKeeps
<1> QED BY <1>5, <1>6

LEMMA SealKeeps == ASSUME IInv, NEW r \in Recs, SealSegment(r) PROVE IInv'
<1> DEFINE bytes == worker[r].bytes
           v == SealedWith(rec[r], bytes)
<1>1. /\ RowOK(r, rec[r]) /\ CanSeal(rec[r], bytes) /\ worker \in [Recs -> Workers]
      /\ worker[r].at = "staged" /\ WorkerOK(r, worker[r]) /\ Catalog /\ CallOnly
  BY InHand DEF SealSegment, Call
<1>2. bytes \in Nat /\ bytes > 0
  BY <1>1 DEF Workers, WorkerOK
<1>3. RowOK(r, v) /\ RowStep(rec[r], v)
  BY <1>1, <1>2, SealedOK
<1>4. Row(r, v) /\ worker' = [worker EXCEPT ![r].at = "cut", ![r].key = 0, ![r].bytes = 0]
  BY DEF SealSegment
<1> HIDE DEF v
<1>5. WorkerMoves(r, "cut")
  <2>1. "cut" \in Places /\ 0 \in Nat
    BY DEF Places
  <2>2. NoRow.version \in Versions
    BY NoRowOK DEF RowOK, Rows
  <2> QED BY <1>1, <1>4, <2>1, <2>2, HoldsMoves
<1>6. WorkerOK(r, worker'[r])
  BY <1>1, <1>5 DEF WorkerMoves, WorkerOK
<1> QED BY <1>1, <1>3, <1>4, <1>5, <1>6, CallMovesKeeps

LEMMA RenewKeeps == ASSUME IInv, NEW r \in Recs, Renew(r) PROVE IInv'
<1>1. /\ RowOK(r, rec[r]) /\ worker \in [Recs -> Workers] /\ UNCHANGED rec
      /\ worker[r].at = "cut" /\ WorkerOK(r, worker[r]) /\ Catalog /\ CallOnly
  BY InHand DEF Renew, Call
<1>2. PICK place \in {"asking", "done"} : Step(r, place)
  BY DEF Renew
<1>3. WorkerMoves(r, place)
  BY <1>1, <1>2, StepMoves DEF Places
<1>4. WorkerOK(r, worker'[r])
  BY <1>1, <1>3 DEF WorkerMoves, WorkerOK
<1>5. Row(r, rec[r]) /\ RowStep(rec[r], rec[r])
  BY <1>1, RowStepRefl DEF Row, IInv, TypeOK
<1> QED BY <1>1, <1>3, <1>4, <1>5, CallMovesKeeps

LEMMA EndedInCallKeeps == ASSUME IInv, NEW r \in Recs, EndedInCall(r) PROVE IInv'
<1>1. PICK cause \in {"backward_clock", "refused_renewal"} :
         /\ worker[r].at \in {"staged", "cut"}
         /\ Row(r, EndedWithGap(rec[r], cause, "fail"))
  BY DEF EndedInCall
<1> DEFINE v == EndedWithGap(rec[r], cause, "fail")
<1>2. /\ RowOK(r, rec[r]) /\ worker \in [Recs -> Workers] /\ rec[r].capture = "running"
      /\ Broken(r) /\ Catalog /\ CallOnly
  BY InHand DEF EndedInCall
<1>3. cause \in Causes /\ cause # "none" /\ "fail" \in {"lost", "fail"}
  BY DEF Causes
<1>4. RowOK(r, v) /\ RowStep(rec[r], v)
  BY <1>2, <1>3, EndedOK
<1> HIDE DEF v
<1>5. WorkerMoves(r, "failed")
  BY <1>2, BrokenMoves
<1>6. WorkerOK(r, worker'[r])
  BY <1>5 DEF WorkerMoves, WorkerOK
<1>7. Row(r, v) /\ worker[r].at # "none"
  BY <1>1 DEF v
<1> QED BY <1>2, <1>4, <1>5, <1>6, <1>7, CallMovesKeeps

\* ------------------------------------------------------ the worker alone --

\* A file written is a number of bytes.
LEMMA Written ==
    ASSUME IInv, NEW r \in Recs, NEW n, NEW bytes \in Nat, disk' = [disk EXCEPT ![r][n] = bytes]
    PROVE  disk' \in [Recs -> [Ordinals -> Nat]]
BY DEF IInv, TypeOK

LEMMA ReadKeeps == ASSUME IInv, NEW r \in Recs, ReadSegment(r) PROVE IInv'
<1>1. PICK bytes \in 1 .. Ceiling :
         /\ disk' = [disk EXCEPT ![r][worker[r].key] = bytes]
         /\ worker' = [worker EXCEPT ![r].at = "staged", ![r].bytes = bytes]
  BY DEF ReadSegment
<1>2. /\ worker \in [Recs -> Workers] /\ worker[r].at = "reading" /\ WorkerOK(r, worker[r])
      /\ UNCHANGED <<rec, reader, reading, jobs, service, turn, asks, mishaps>>
  BY InHand DEF ReadSegment
<1>3. bytes \in Nat /\ bytes > 0
  BY RecordingsAssumption
<1>4. WorkerMoves(r, "staged") /\ worker'[r].bytes = bytes
  <2>1. "staged" \in Places
    BY DEF Places
  <2>2. NoRow.version \in Versions
    BY NoRowOK DEF RowOK, Rows
  <2> QED BY <1>1, <1>2, <1>3, <2>1, <2>2, HoldsMoves, ZenonT(30)
<1>5. WorkerOK(r, worker'[r])
  BY <1>2, <1>3, <1>4 DEF WorkerMoves, WorkerOK
<1>6. disk' \in [Recs -> [Ordinals -> Nat]]
  BY <1>1, <1>3, Written
<1> QED BY <1>2, <1>4, <1>5, <1>6, WorkerStepKeeps

LEMMA ReceiveKeeps == ASSUME IInv, NEW r \in Recs, ReceiveFile(r) PROVE IInv'
<1>1. PICK bytes \in 1 .. Maximum[r] :
         /\ disk' = [disk EXCEPT ![r][1] = bytes]
         /\ worker' = [worker EXCEPT ![r].at = "received", ![r].bytes = bytes]
  BY DEF ReceiveFile
<1>2. /\ worker \in [Recs -> Workers] /\ worker[r].at = "receiving" /\ WorkerOK(r, worker[r])
      /\ UNCHANGED <<rec, reader, reading, jobs, service, turn, asks, mishaps>>
  BY InHand DEF ReceiveFile
<1>3. bytes \in Nat /\ bytes > 0
  BY DvrAssumption, RecordingsAssumption
<1>4. WorkerMoves(r, "received") /\ worker'[r].bytes = bytes
  <2>1. "received" \in Places
    BY DEF Places
  <2>2. NoRow.version \in Versions
    BY NoRowOK DEF RowOK, Rows
  <2> QED BY <1>1, <1>2, <1>3, <2>1, <2>2, HoldsMoves, ZenonT(30)
<1>5. WorkerOK(r, worker'[r])
  BY <1>2, <1>3, <1>4 DEF WorkerMoves, WorkerOK
<1>6. disk' \in [Recs -> [Ordinals -> Nat]]
  BY <1>1, <1>3, Written
<1> QED BY <1>2, <1>4, <1>5, <1>6, WorkerStepKeeps

LEMMA EndsKeep ==
    ASSUME IInv, NEW r \in Recs, EndOfBody(r) \/ VerifyFile(r) \/ WorkerFails(r) PROVE IInv'
<1>1. /\ worker \in [Recs -> Workers] /\ WorkerOK(r, worker[r]) /\ worker[r].at # "none"
      /\ disk' \in [Recs -> [Ordinals -> Nat]]
      /\ UNCHANGED <<rec, reader, reading, jobs, service, turn, asks, mishaps>>
  BY InHand DEF EndOfBody, VerifyFile, WorkerFails, IInv, TypeOK
<1>2. CASE EndOfBody(r) \/ VerifyFile(r)
  <2>1. WorkerMoves(r, "done") /\ worker'[r].bytes = worker[r].bytes
    BY <1>1, <1>2, StepMoves DEF EndOfBody, VerifyFile, Places
  <2>2. WorkerOK(r, worker'[r])
    BY <1>1, <1>2, <2>1 DEF WorkerMoves, WorkerOK, EndOfBody, VerifyFile
  <2> QED BY <1>1, <2>1, <2>2, WorkerStepKeeps
<1>3. CASE WorkerFails(r)
  <2>1. WorkerMoves(r, "failed")
    BY <1>1, <1>3, BrokenMoves DEF WorkerFails
  <2>2. WorkerOK(r, worker'[r])
    BY <2>1 DEF WorkerMoves, WorkerOK
  <2> QED BY <1>1, <2>1, <2>2, WorkerStepKeeps
<1> QED BY <1>2, <1>3

\* --------------------------------------- steps that leave the call frame --

\* A row's step that gives up nothing a deletion or a reader waits on.
SafeStep(w, v) ==
    /\ OnShelf(w) => OnShelf(v)
    /\ v.storage = "deleting" => w.storage = "deleting"
    /\ Segments(w) \ w.released \subseteq Segments(v) \ v.released

LEMMA SafeSteps == \A w, v : RowStep(w, v) => SafeStep(w, v)
BY DEF RowStep, SafeStep

LEMMA SafeRows ==
    ASSUME IInv, \A x \in Recs : RowOK(x, rec'[x]) /\ SafeStep(rec[x], rec'[x]),
           reader' = reader, reading' \subseteq reading, jobs' \subseteq jobs
    PROVE  RowsOK' /\ ReadersOK' /\ DeletionsCanFinish'
<1>1. RowsOK'
  BY DEF RowsOK
<1>2. ReadersOK'
  BY DEF ReadersOK, IInv
<1>3. \A x : Readings(x)' = Readings(x)
  BY DEF Readings, Protecting
<1>4. \A x \in PendingDeletions' :
         rec'[x].capture \notin Active /\ x \notin jobs' /\ Readings(x)' = {}
  <2> SUFFICES ASSUME NEW x \in Recs, rec'[x].storage = "deleting"
               PROVE  rec'[x].capture \notin Active /\ x \notin jobs' /\ Readings(x)' = {}
    BY DEF PendingDeletions
  <2>1. rec[x].storage = "deleting"
    BY DEF SafeStep
  <2>2. x \notin jobs /\ Readings(x) = {}
    BY <2>1 DEF IInv, DeletionsCanFinish, PendingDeletions
  <2>3. rec'[x].capture \notin Active
    BY DEF RowOK, WellKept
  <2> QED BY <1>3, <2>2, <2>3
<1>5. ASSUME NEW q \in reading'
      PROVE  /\ reader'[q].state \in Protecting /\ OnShelf(rec'[reader'[q].rec])
             /\ reader'[q].segment
                  \in Segments(rec'[reader'[q].rec]) \ rec'[reader'[q].rec].released
  <2> DEFINE x == reader[q].rec
  <2>1. q \in reading /\ x \in Recs
    BY <1>5 DEF IInv, ReadersOK
  <2>2. /\ reader[q].state \in Protecting /\ OnShelf(rec[x])
        /\ reader[q].segment \in Segments(rec[x]) \ rec[x].released
    BY <2>1 DEF IInv, DeletionsCanFinish
  <2>3. SafeStep(rec[x], rec'[x])
    BY <2>1
  <2> QED BY <2>2, <2>3 DEF SafeStep
<1> QED BY <1>1, <1>2, <1>4, <1>5 DEF DeletionsCanFinish, Protecting

LEMMA FinishKeeps == ASSUME IInv, NEW r \in Recs, Finish(r) PROVE IInv'
<1> DEFINE w == rec[r]
           bytes == worker[r].bytes
<1>1. /\ RowOK(r, w) /\ w \in Rows /\ worker \in [Recs -> Workers] /\ worker[r] \in Workers
      /\ WorkerOK(r, worker[r]) /\ w.storage # "none" /\ rec \in [Recs -> Rows]
      /\ worker[r].at \in {"done", "failed"} /\ Catalog /\ turn = NoTurn
      /\ UNCHANGED <<disk, reader, reading, jobs, turn, asks, mishaps>>
      /\ worker' = [worker EXCEPT ![r] = NoWorker]
  BY InHand DEF Finish, Catalog, IInv, TypeOK
<1>2. PICK v : /\ Row(r, v) /\ RowOK(r, v) /\ RowStep(w, v)
               /\ \/ service' = service /\ v.capture \notin Active
                  \/ service' = "stopping"
  <2>1. CASE /\ worker[r].at = "done" /\ r \in Segmented /\ CanComplete(w)
             /\ Finished(r, Completed(w))
    BY <1>1, <2>1, CompletedOK DEF Finished, Active
  <2>2. CASE /\ worker[r].at = "done" /\ r \notin Segmented /\ CanPublish(w, bytes)
             /\ Finished(r, PublishedWhole(w, bytes))
    <3>1. bytes \in Nat /\ bytes > 0
      BY <1>1, <2>2 DEF Workers, WorkerOK
    <3>2. LET v == PublishedWhole(w, bytes) IN
          RowOK(r, v) /\ RowStep(w, v) /\ v.capture = "completed"
      BY <1>1, <2>2, <3>1, WholeOK
    <3> QED BY <2>2, <3>2 DEF Finished, Active
  <2>3. CASE Allowed(w.capture, "fail") /\ Finished(r, Failed(w))
    <3>1. w.capture \in Live
      BY <2>3, FailAllowed
    <3>2. RowOK(r, Failed(w)) /\ RowStep(w, Failed(w)) /\ Failed(w).capture \notin Active
      BY <1>1, <3>1, GivenUpOK DEF Failed
    <3> QED BY <2>3, <3>2 DEF Finished
  <2>4. CASE ServiceFails
    BY <1>1, <2>4, RowStepRefl DEF ServiceFails, Row
  <2> QED BY <2>1, <2>2, <2>3, <2>4 DEF Finish
<1>3. /\ rec' \in [Recs -> Rows] /\ rec'[r] = v /\ \A x \in Recs \ {r} : rec'[x] = rec[x]
  BY <1>1, <1>2 DEF Row, RowOK
<1>4. /\ worker' \in [Recs -> Workers] /\ worker'[r] = NoWorker
      /\ \A x \in Recs \ {r} : worker'[x] = worker[x]
  BY <1>1, NoWorkerType
<1>5. TypeOK'
  BY <1>1, <1>2, <1>3, <1>4 DEF IInv, TypeOK
<1>6. \A x \in Recs : RowOK(x, rec'[x]) /\ RowStep(rec[x], rec'[x])
  BY <1>2, <1>3, RowStepRefl DEF IInv, RowsOK
<1>7. RowsOK' /\ ReadersOK' /\ DeletionsCanFinish'
  BY <1>1, <1>6, SafeSteps, SafeRows
<1>8. WorkersOK'
  <2> SUFFICES ASSUME NEW x \in Recs
               PROVE  WorkerOK(x, worker'[x]) /\ (worker'[x].at # "none" => rec'[x].storage # "none")
    BY DEF WorkersOK
  <2>1. CASE x = r
    BY <1>4, <2>1, NoWorkerType DEF WorkerOK
  <2>2. CASE x # r
    BY <1>3, <1>4, <2>2 DEF IInv, WorkersOK
  <2> QED BY <2>1, <2>2
<1>9. TurnOK'
  BY <1>1, NoTurnOK
<1>10. ServiceOK'
  <2>1. service \in {"up", "stopping"} /\ service' \in {"up", "stopping"} /\ turn'.by = "none"
    BY <1>1, <1>2 DEF Catalog, NoTurn
  <2> QED BY <2>1 DEF ServiceOK
<1>11. LiveCapturesWorked'
  <2> SUFFICES ASSUME service' = "up", NEW x \in Recs, rec'[x].capture \in Active
               PROVE  worker'[x].at # "none" /\ worker'[x].generation = rec'[x].version.generation
    BY DEF LiveCapturesWorked, ActiveCaptures
  <2>1. service = "up" /\ x # r
    BY <1>2, <1>3
  <2> QED BY <1>3, <1>4, <2>1 DEF IInv, LiveCapturesWorked, ActiveCaptures
<1> QED BY <1>5, <1>7, <1>8, <1>9, <1>10, <1>11 DEF IInv

LEMMA AdmitKeeps ==
    ASSUME IInv, NEW r \in Recs, NEW space \in BOOLEAN, Admit(r, space),
           rec[r].storage = "none", service \in {"up", "stopping"}, turn' = NoTurn,
           UNCHANGED <<disk, reader, reading, jobs, service, asks, mishaps>>
    PROVE  IInv'
<1> DEFINE w == Admitted(Maximum[r])
           v == IF space THEN w ELSE Failed(w)
           at == IF r \in Segmented THEN "connecting" ELSE "receiving"
           x0 == [NoWorker EXCEPT !.at = at, !.token = w.version,
                                  !.generation = w.version.generation]
<1>1. RowOK(r, w) /\ w.capture = "starting" /\ w.storage = "reserved" /\ w \in Rows
  BY AdmittedOK DEF RowOK, WellKept, Active
<1>2. rec \in [Recs -> Rows] /\ worker \in [Recs -> Workers] /\ rec[r] = NoRow
  BY DEF IInv, TypeOK, RowsOK, RowOK, WellKept
<1>3. Row(r, v) /\ worker' = IF space THEN [worker EXCEPT ![r] = x0] ELSE worker
  BY Zenon DEF Admit
<1>4. w.version \in Versions /\ w.version.generation \in Nat
  <2> HIDE DEF w
  <2>1. w.version \in Versions
    BY <1>1 DEF Rows
  <2> QED BY <2>1 DEF Versions
<1>5. x0 \in Workers /\ x0.at = at /\ x0.generation = w.version.generation
  <2>1. at \in Places
    BY DEF Places
  <2> HIDE DEF w, at
  <2> QED BY <1>4, <2>1, NoWorkerType, Zenon DEF Workers, Places
<1>6. RowOK(r, v) /\ v.storage = "reserved" /\ (~space => v.capture \notin Active)
  <2>1. w.capture \in Live /\ w.storage # "none"
    BY <1>1 DEF Live, Active
  <2>2. RowOK(r, Failed(w)) /\ Failed(w).capture \notin Active /\ Failed(w).storage = "reserved"
    BY <1>1, <2>1, GivenUpOK DEF Failed
  <2> QED BY <1>1, <2>2
<1> HIDE DEF w, v, x0, at
<1>7. /\ rec' \in [Recs -> Rows] /\ rec'[r] = v /\ \A x \in Recs \ {r} : rec'[x] = rec[x]
  BY <1>2, <1>3, <1>6 DEF Row, RowOK
<1>8. /\ worker' \in [Recs -> Workers] /\ worker'[r] = IF space THEN x0 ELSE worker[r]
      /\ \A x \in Recs \ {r} : worker'[x] = worker[x]
  BY <1>2, <1>3, <1>5
<1>9. TypeOK'
  <2>1. NoTurn \in Turns
    BY DEF NoTurn, Turns
  <2> QED BY <1>7, <1>8, <2>1 DEF IInv, TypeOK
<1>10. \A x \in Recs : RowOK(x, rec'[x]) /\ SafeStep(rec[x], rec'[x])
  <2>1. SafeStep(NoRow, v)
    <3>1. Segments(NoRow) = {} /\ ~OnShelf(NoRow)
      BY DEF Segments, NoRow, OnShelf
    <3> QED BY <1>6, <3>1 DEF SafeStep
  <2> QED BY <1>2, <1>6, <1>7, <2>1, RowStepRefl, SafeSteps DEF IInv, RowsOK
<1>11. RowsOK' /\ ReadersOK' /\ DeletionsCanFinish'
  BY <1>10, SafeRows
<1>12. WorkersOK'
  <2> SUFFICES ASSUME NEW x \in Recs
               PROVE  WorkerOK(x, worker'[x]) /\ (worker'[x].at # "none" => rec'[x].storage # "none")
    BY DEF WorkersOK
  <2>1. WorkerOK(x, worker[x]) /\ (worker[x].at # "none" => rec[x].storage # "none")
    BY DEF IInv, WorkersOK
  <2>2. CASE x = r
    <3>1. WorkerOK(r, x0)
      BY <1>5 DEF WorkerOK, at
    <3> QED BY <1>6, <1>7, <1>8, <2>1, <2>2, <3>1
  <2>3. CASE x # r
    BY <1>7, <1>8, <2>1, <2>3
  <2> QED BY <2>2, <2>3
<1>13. TurnOK'
  BY NoTurnOK
<1>14. ServiceOK'
  <2>1. turn'.by = "none"
    BY DEF NoTurn
  <2> QED BY <2>1 DEF ServiceOK
<1>15. LiveCapturesWorked'
  <2> SUFFICES ASSUME service' = "up", NEW x \in Recs, rec'[x].capture \in Active
               PROVE  worker'[x].at # "none" /\ worker'[x].generation = rec'[x].version.generation
    BY DEF LiveCapturesWorked, ActiveCaptures
  <2>1. CASE x = r
    <3>1. space
      BY <1>6, <1>7, <2>1
    <3>2. v = w /\ x0.at # "none"
      BY <1>5, <3>1 DEF v, at
    <3> QED BY <1>5, <1>7, <1>8, <2>1, <3>1, <3>2
  <2>2. CASE x # r
    BY <1>7, <1>8, <2>2 DEF IInv, LiveCapturesWorked, ActiveCaptures
  <2> QED BY <2>1, <2>2
<1> QED BY <1>9, <1>11, <1>12, <1>13, <1>14, <1>15 DEF IInv

\* ------------------------------------------------------- the actor's turn --

\* The turn changes hands or files go; every row, worker and reader stays.
LEMMA TurnKeeps ==
    ASSUME IInv, turn' \in Turns, TurnOK', ServiceOK',
           UNCHANGED <<rec, worker, reader, reading, jobs>>,
           service' \in {service, "stopping", "down"},
           disk' \in [Recs -> [Ordinals -> Nat]],
           asks' \in 0 .. MaxAsks, mishaps' \in 0 .. MaxMishaps
    PROVE  IInv'
<1>1. TypeOK'
  BY DEF IInv, TypeOK
<1>2. RowsOK' /\ WorkersOK' /\ ReadersOK'
  BY DEF IInv, RowsOK, WorkersOK, ReadersOK
<1>3. DeletionsCanFinish'
  BY DEF IInv, DeletionsCanFinish, PendingDeletions, Readings, Protecting
<1>4. LiveCapturesWorked'
  BY DEF IInv, LiveCapturesWorked, ActiveCaptures
<1> QED BY <1>1, <1>2, <1>3, <1>4 DEF IInv

\* A deletion begins: the row says so and the turn has its files in hand.
LEMMA DeletionBegins ==
    ASSUME IInv, NEW r \in Recs, NEW pruning \in BOOLEAN, MayDelete(r, pruning),
           NEW t \in Turns, NEW next \in {"idle", "candidates", "prune"},
           BeginDelete(t, r, next), t.segment = 0,
           t.by = "reclaim" => t.want \in Recs /\ rec[t.want].storage = "none",
           service \in {"down", "readers", "deletions"} => t.by # "reclaim",
           service \notin {"down", "readers"}, t.by = "boot" => service = "deletions",
           UNCHANGED <<disk, worker, reader, reading, jobs, service>>,
           asks' \in 0 .. MaxAsks, mishaps' \in 0 .. MaxMishaps
    PROVE  IInv'
<1> DEFINE w == rec[r]
           v == Deleting(w)
           keys == ObjectKeys(w)
<1>1. /\ RowOK(r, w) /\ w.storage # "none" /\ w.capture \notin Active
      /\ r \notin jobs /\ Readings(r) = {} /\ rec \in [Recs -> Rows]
  BY InHand DEF MayDelete, IInv, TypeOK
<1>2. RowOK(r, v) /\ v.storage = "deleting" /\ v.capture = w.capture
  BY <1>1, DeletingOK
<1>3. keys \in SUBSET Ordinals
  <2>1. w.key \in Ordinals \union {0} /\ 1 \in Ordinals
    BY <1>1, RecordingsAssumption DEF RowOK, Rows, Ordinals
  <2> QED BY <1>1, <2>1, SegmentsType DEF ObjectKeys
<1>4. /\ Row(r, v)
      /\ turn' = [t EXCEPT !.step = "unlink", !.rec = r, !.keys = keys, !.next = next]
  BY Zenon DEF BeginDelete
<1> HIDE DEF v, keys
<1>5. /\ turn' \in Turns /\ turn'.step = "unlink" /\ turn'.rec = r /\ turn'.by = t.by
      /\ turn'.segment = t.segment /\ turn'.want = t.want
  BY <1>3, <1>4, Zenon DEF Turns
<1>6. /\ rec' \in [Recs -> Rows] /\ rec'[r] = v /\ \A x \in Recs \ {r} : rec'[x] = rec[x]
  BY <1>1, <1>2, <1>4 DEF Row, RowOK
<1>7. TypeOK'
  BY <1>5, <1>6 DEF IInv, TypeOK
<1>8. RowsOK'
  BY <1>2, <1>6 DEF IInv, RowsOK
<1>9. WorkersOK'
  <2> SUFFICES ASSUME NEW x \in Recs
               PROVE  WorkerOK(x, worker[x]) /\ (worker[x].at # "none" => rec'[x].storage # "none")
    BY DEF WorkersOK
  <2> QED BY <1>2, <1>6 DEF IInv, WorkersOK
<1>10. ReadersOK'
  BY DEF IInv, ReadersOK
<1>11. TurnOK'
  <2>1. t.by = "reclaim" => rec'[t.want].storage = "none"
    BY <1>1, <1>6
  <2> QED BY <1>2, <1>5, <1>6, <2>1 DEF TurnOK
<1>12. ServiceOK'
  <2>1. ActiveCaptures = {} => ActiveCaptures' = {}
    BY <1>1, <1>2, <1>6 DEF ActiveCaptures
  <2> QED BY <1>5, <2>1 DEF IInv, ServiceOK
<1>13. DeletionsCanFinish'
  <2>1. \A x : Readings(x)' = Readings(x)
    BY DEF Readings, Protecting
  <2>2. \A x \in PendingDeletions' :
           rec'[x].capture \notin Active /\ x \notin jobs' /\ Readings(x)' = {}
    BY <1>1, <1>2, <1>6, <2>1 DEF IInv, DeletionsCanFinish, PendingDeletions
  <2>3. ASSUME NEW q \in reading'
        PROVE  /\ reader'[q].state \in Protecting /\ OnShelf(rec'[reader'[q].rec])
               /\ reader'[q].segment
                    \in Segments(rec'[reader'[q].rec]) \ rec'[reader'[q].rec].released
    <3>1. q \in Readers /\ q \in reading /\ reader[q].rec \in Recs
          /\ reader[q].state \in Protecting
      BY <2>3 DEF IInv, TypeOK, ReadersOK, DeletionsCanFinish
    <3>2. reader[q].rec # r
      BY <1>1, <3>1 DEF Readings
    <3> QED BY <1>6, <3>1, <3>2 DEF IInv, DeletionsCanFinish
  <2> QED BY <2>2, <2>3 DEF DeletionsCanFinish, Protecting
<1>14. LiveCapturesWorked'
  <2>1. \A x \in ActiveCaptures' : x \in ActiveCaptures /\ rec'[x] = rec[x]
    BY <1>1, <1>2, <1>6 DEF ActiveCaptures
  <2> QED BY <2>1 DEF IInv, LiveCapturesWorked
<1> QED BY <1>7, <1>8, <1>9, <1>10, <1>11, <1>12, <1>13, <1>14 DEF IInv

LEMMA NoTurnType ==
    /\ NoTurn \in Turns /\ NoTurn.by = "none" /\ NoTurn.step = "idle" /\ NoTurn.segment = 0
BY DEF NoTurn, Turns

LEMMA StartKeeps == ASSUME IInv, NEW r \in Recs, Start(r) PROVE IInv'
<1>1. /\ service = "up" /\ turn = NoTurn /\ rec[r].storage = "none"
      /\ UNCHANGED <<disk, reader, reading, jobs, service, asks, mishaps>>
  BY DEF Start, Serving
<1>2. CASE (\E space \in BOOLEAN : Admit(r, space)) /\ UNCHANGED turn
  BY <1>1, <1>2, AdmitKeeps
<1>3. CASE /\ turn' = [NoTurn EXCEPT !.by = "reclaim", !.step = "release", !.want = r]
           /\ UNCHANGED <<rec, worker>>
  <2>1. /\ turn' \in Turns /\ turn'.by = "reclaim" /\ turn'.step = "release"
        /\ turn'.want = r /\ turn'.segment = NoTurn.segment
    BY <1>3, NoTurnType, Zenon DEF Turns
  <2>2. TurnOK'
    BY <1>1, <1>3, <2>1, NoTurnType DEF TurnOK
  <2>3. ServiceOK'
    BY <1>1, <2>1 DEF ServiceOK
  <2>4. /\ disk' \in [Recs -> [Ordinals -> Nat]]
        /\ asks' \in 0 .. MaxAsks /\ mishaps' \in 0 .. MaxMishaps
    BY <1>1 DEF IInv, TypeOK
  <2> QED BY <1>1, <1>3, <2>1, <2>2, <2>3, <2>4, TurnKeeps
<1> QED BY <1>2, <1>3 DEF Start

LEMMA AdmitReclaimedKeeps == ASSUME IInv, AdmitReclaimed PROVE IInv'
<1>1. /\ turn.step = "admit" /\ turn' = NoTurn
      /\ UNCHANGED <<disk, reader, reading, jobs, service, asks, mishaps>>
  BY DEF AdmitReclaimed
<1>2. turn.by = "reclaim" /\ turn.want \in Recs /\ rec[turn.want].storage = "none"
  BY <1>1 DEF IInv, TurnOK
<1>3. service \in {"up", "stopping"}
  BY <1>2 DEF IInv, ServiceOK, TypeOK
<1>4. PICK space \in BOOLEAN : Admit(turn.want, space)
  BY DEF AdmitReclaimed
<1> QED BY <1>1, <1>2, <1>3, <1>4, AdmitKeeps

LEMMA DeleteKeeps == ASSUME IInv, NEW r \in Recs, Delete(r) PROVE IInv'
<1> DEFINE t == [NoTurn EXCEPT !.by = "user"]
<1>1. /\ Asked /\ service = "up" /\ MayDelete(r, FALSE) /\ BeginDelete(t, r, "idle")
      /\ UNCHANGED <<disk, worker, reader, reading, jobs, service, mishaps>>
  BY DEF Delete, Serving
<1>2. t \in Turns /\ t.by = "user" /\ t.segment = NoTurn.segment
  BY NoTurnType, Zenon DEF Turns
<1> HIDE DEF t
<1>3. asks' \in 0 .. MaxAsks /\ mishaps' \in 0 .. MaxMishaps
  BY <1>1, DvrAssumption DEF IInv, TypeOK, Asked
<1> QED BY <1>1, <1>2, <1>3, NoTurnType, DeletionBegins

LEMMA BeginPruneKeeps ==
    ASSUME IInv, NEW by \in {"sweep", "prune"}, BeginPrune(by) PROVE IInv'
<1>1. /\ turn' = [NoTurn EXCEPT !.by = by, !.step = "release"] /\ service = "up"
      /\ UNCHANGED <<rec, disk, worker, reader, reading, jobs, service, asks, mishaps>>
  BY DEF BeginPrune, TurnOnly, Serving
<1>2. turn' \in Turns /\ turn'.by = by /\ turn'.step = "release" /\ turn'.segment = NoTurn.segment
  BY <1>1, NoTurnType, Zenon DEF Turns
<1>3. TurnOK'
  BY <1>2, NoTurnType DEF TurnOK
<1>4. ServiceOK'
  BY <1>1, <1>2 DEF ServiceOK
<1>5. /\ disk' \in [Recs -> [Ordinals -> Nat]]
      /\ asks' \in 0 .. MaxAsks /\ mishaps' \in 0 .. MaxMishaps
  BY <1>1 DEF IInv, TypeOK
<1> QED BY <1>1, <1>2, <1>3, <1>4, <1>5, TurnKeeps

\* A turn that keeps who began it and for whom goes on to another step.
LEMMA TurnGoesOn ==
    ASSUME IInv, turn' \in Turns, turn.step # "idle",
           \/ turn' = NoTurn
           \/ turn'.by = turn.by /\ turn'.want = turn.want /\ turn'.segment = 0
              /\ turn'.step \notin {"unlink", "admit"},
           UNCHANGED <<rec, disk, worker, reader, reading, jobs, service, asks, mishaps>>
    PROVE  IInv'
<1>1. TurnOK'
  <2>1. CASE turn' = NoTurn
    BY <2>1, NoTurnOK
  <2>2. CASE turn' # NoTurn
    BY <2>2 DEF IInv, TurnOK
  <2> QED BY <2>1, <2>2
<1>2. ServiceOK'
  <2>1. turn # NoTurn
    BY NoTurnType
  <2> QED BY <2>1, NoTurnType DEF IInv, ServiceOK, ActiveCaptures
<1>3. /\ disk' \in [Recs -> [Ordinals -> Nat]]
      /\ asks' \in 0 .. MaxAsks /\ mishaps' \in 0 .. MaxMishaps
  BY DEF IInv, TypeOK
<1> QED BY <1>1, <1>2, <1>3, TurnKeeps

\* What a turn in hand says of itself.
LEMMA TurnInHand ==
    ASSUME IInv, turn.step \notin {"idle", "unlink"}
    PROVE  /\ turn \in Turns /\ turn.segment = 0
           /\ service \notin {"down", "readers"}
           /\ turn.by = "reclaim" => turn.want \in Recs /\ rec[turn.want].storage = "none"
           /\ service \in {"down", "readers", "deletions"} => turn.by # "reclaim"
           /\ turn.by = "boot" => service = "deletions"
BY NoTurnType DEF IInv, TypeOK, TurnOK, ServiceOK

LEMMA ReleaseNextKeeps == ASSUME IInv, ReleaseNext PROVE IInv'
<1> DEFINE choices == ReleaseChoices(turn.by = "reclaim")
<1>1. /\ turn.step = "release" /\ turn.step \notin {"idle", "unlink"}
      /\ UNCHANGED <<disk, worker, reader, reading, jobs, service, asks, mishaps>>
  BY DEF ReleaseNext, TurnOnly
<1>2. /\ asks' \in 0 .. MaxAsks /\ mishaps' \in 0 .. MaxMishaps
      /\ disk' \in [Recs -> [Ordinals -> Nat]] /\ turn \in Turns
  BY <1>1 DEF IInv, TypeOK
<1>3. CASE turn' = [turn EXCEPT !.step = "candidates"] /\ UNCHANGED rec
  <2>1. /\ turn' \in Turns /\ turn'.by = turn.by /\ turn'.want = turn.want
        /\ turn'.segment = turn.segment /\ turn'.step = "candidates"
    BY <1>2, <1>3, Zenon DEF Turns
  <2> QED BY <1>1, <1>3, <2>1, TurnInHand, TurnGoesOn
<1>4. ASSUME NEW choice \in choices, MayDelete(choice[1], TRUE),
             BeginDelete(turn, choice[1], "candidates")
      PROVE  IInv'
  <2>1. choice[1] \in Recs
    BY DEF ReleaseChoices
  <2> QED BY <1>1, <1>2, <1>4, <2>1, TurnInHand, DeletionBegins
<1>5. ASSUME NEW choice \in choices, UNCHANGED rec,
             turn' = [turn EXCEPT !.step = "unlink", !.rec = choice[1], !.segment = choice[2],
                                  !.keys = {choice[2]}, !.next = "candidates"]
      PROVE  IInv'
  <2> DEFINE r == choice[1]
             n == choice[2]
  <2>1. /\ r \in Recs /\ n \in Ordinals /\ OnShelf(rec[r]) /\ r \notin jobs
        /\ n \in Oldest(Releasable(r, turn.by = "reclaim"))
    BY DEF ReleaseChoices
  <2>2. /\ n \in Segments(rec[r]) \ (rec[r].released \union rec[r].held) /\ n # rec[r].key
        /\ \A q \in Readings(r) : reader[q].segment # n
    BY <2>1 DEF Oldest, Releasable
  <2>3. {n} \in SUBSET Ordinals /\ n # 0
    BY <2>1 DEF Ordinals
  <2> HIDE DEF r, n
  <2>4. turn' = [turn EXCEPT !.step = "unlink", !.rec = r, !.segment = n, !.keys = {n},
                             !.next = "candidates"]
    BY <1>5 DEF r, n
  <2>5. /\ turn' \in Turns /\ turn'.step = "unlink" /\ turn'.rec = r /\ turn'.segment = n
        /\ turn'.keys = {n} /\ turn'.by = turn.by /\ turn'.want = turn.want
    BY <1>2, <2>1, <2>3, <2>4, Zenon DEF Turns
  <2>6. \A x : Readings(x)' = Readings(x)
    BY <1>1 DEF Readings, Protecting
  <2>7. TurnOK'
    BY <1>1, <1>5, <2>1, <2>2, <2>3, <2>5, <2>6, TurnInHand DEF TurnOK
  <2>8. ServiceOK'
    BY <1>1, <1>5, <2>5, TurnInHand DEF IInv, ServiceOK, ActiveCaptures
  <2> QED BY <1>1, <1>2, <1>5, <2>5, <2>7, <2>8, TurnKeeps
<1> QED BY <1>3, <1>4, <1>5, Zenon DEF ReleaseNext

LEMMA CandidatesKeeps == ASSUME IInv, Candidates PROVE IInv'
<1> DEFINE todo == PruneCandidates(turn.by = "reclaim")
<1>1. /\ turn.step = "candidates"
      /\ UNCHANGED <<rec, disk, worker, reader, reading, jobs, service, asks, mishaps>>
  BY DEF Candidates, TurnOnly
<1>2. turn \in Turns /\ todo \in SUBSET Recs
  BY DEF IInv, TypeOK, PruneCandidates
<1>3. turn' = IF todo = {} THEN NoTurn ELSE [turn EXCEPT !.step = "prune", !.todo = todo]
  BY Zenon DEF Candidates
<1> HIDE DEF todo
<1>4. CASE todo = {}
  BY <1>1, <1>3, <1>4, NoTurnType, TurnGoesOn
<1>5. CASE todo # {}
  <2>1. turn' = [turn EXCEPT !.step = "prune", !.todo = todo]
    BY <1>3, <1>5
  <2>2. /\ turn' \in Turns /\ turn'.by = turn.by /\ turn'.want = turn.want
        /\ turn'.segment = turn.segment /\ turn'.step = "prune"
    BY <1>2, <2>1, Zenon DEF Turns
  <2> QED BY <1>1, <2>2, TurnInHand, TurnGoesOn
<1> QED BY <1>4, <1>5

LEMMA PruneNextKeeps == ASSUME IInv, PruneNext PROVE IInv'
<1>1. /\ turn.step = "prune" /\ turn.step \notin {"idle", "unlink"} /\ turn \in Turns
      /\ UNCHANGED <<disk, worker, reader, reading, jobs, service, asks, mishaps>>
      /\ asks' \in 0 .. MaxAsks /\ mishaps' \in 0 .. MaxMishaps
  BY DEF PruneNext, TurnOnly, IInv, TypeOK
<1>2. CASE /\ turn' = IF turn.by = "reclaim" THEN [turn EXCEPT !.step = "release"] ELSE NoTurn
           /\ UNCHANGED rec
  <2>1. CASE turn.by = "reclaim"
    <3>1. turn' = [turn EXCEPT !.step = "release"]
      BY <1>2, <2>1
    <3>2. /\ turn' \in Turns /\ turn'.by = turn.by /\ turn'.want = turn.want
          /\ turn'.segment = turn.segment /\ turn'.step = "release"
      BY <1>1, <3>1, Zenon DEF Turns
    <3> QED BY <1>1, <1>2, <3>2, TurnInHand, TurnGoesOn
  <2>2. CASE turn.by # "reclaim"
    BY <1>1, <1>2, <2>2, NoTurnType, TurnGoesOn
  <2> QED BY <2>1, <2>2
<1>3. ASSUME NEW r \in turn.todo, MayDelete(r, TRUE),
             BeginDelete([turn EXCEPT !.todo = @ \ {r}], r, "prune")
      PROVE  IInv'
  <2> DEFINE left == turn.todo \ {r}
             t == [turn EXCEPT !.todo = left]
  <2>1. left \in SUBSET Recs /\ r \in Recs
    BY <1>1 DEF Turns
  <2>2. BeginDelete(t, r, "prune")
    BY <1>3
  <2> HIDE DEF left
  <2>3. t \in Turns /\ t.by = turn.by /\ t.want = turn.want /\ t.segment = turn.segment
    BY <1>1, <2>1, Zenon DEF Turns
  <2> HIDE DEF t
  <2> QED BY <1>1, <1>3, <2>1, <2>2, <2>3, TurnInHand, DeletionBegins
<1> QED BY <1>2, <1>3, Zenon DEF PruneNext

LEMMA RecoverDeletionsKeeps == ASSUME IInv, RecoverDeletions PROVE IInv'
<1>1. /\ service = "deletions" /\ turn = NoTurn
      /\ UNCHANGED <<disk, worker, reader, reading, jobs, asks, mishaps>>
      /\ asks' \in 0 .. MaxAsks /\ mishaps' \in 0 .. MaxMishaps
  BY DEF RecoverDeletions, TurnOnly, IInv, TypeOK
<1>2. ASSUME NEW r \in PendingDeletions, MayDelete(r, FALSE),
             BeginDelete([NoTurn EXCEPT !.by = "boot"], r, "idle"), UNCHANGED service
      PROVE  IInv'
  <2> DEFINE t == [NoTurn EXCEPT !.by = "boot"]
  <2>1. r \in Recs
    BY DEF PendingDeletions
  <2>2. t \in Turns /\ t.by = "boot" /\ t.segment = NoTurn.segment
    BY NoTurnType, Zenon DEF Turns
  <2>3. BeginDelete(t, r, "idle")
    BY <1>2
  <2> HIDE DEF t
  <2> QED BY <1>1, <1>2, <2>1, <2>2, <2>3, NoTurnType, DeletionBegins
<1>3. CASE service' = "up" /\ UNCHANGED <<rec, turn>>
  <2>1. TypeOK'
    BY <1>1, <1>3 DEF IInv, TypeOK
  <2>2. RowsOK' /\ WorkersOK' /\ ReadersOK'
    BY <1>1, <1>3 DEF IInv, RowsOK, WorkersOK, ReadersOK
  <2>3. DeletionsCanFinish'
    BY <1>1, <1>3 DEF IInv, DeletionsCanFinish, PendingDeletions, Readings, Protecting
  <2>4. TurnOK' /\ ServiceOK'
    BY <1>1, <1>3, NoTurnOK, NoTurnType DEF ServiceOK
  <2>5. LiveCapturesWorked'
    BY <1>1, <1>3 DEF IInv, ServiceOK, LiveCapturesWorked, ActiveCaptures
  <2> QED BY <2>1, <2>2, <2>3, <2>4, <2>5 DEF IInv
<1> QED BY <1>2, <1>3 DEF RecoverDeletions

LEMMA UnlinkKeeps == ASSUME IInv, Unlink PROVE IInv'
<1>1. PICK n \in turn.keys : /\ disk' = [disk EXCEPT ![turn.rec][n] = 0]
                            /\ turn' = [turn EXCEPT !.keys = @ \ {n}]
  BY DEF Unlink
<1>2. /\ turn.step = "unlink" /\ turn \in Turns
      /\ UNCHANGED <<rec, worker, reader, reading, jobs, service, asks, mishaps>>
      /\ asks' \in 0 .. MaxAsks /\ mishaps' \in 0 .. MaxMishaps
      /\ disk' \in [Recs -> [Ordinals -> Nat]]
  BY <1>1 DEF Unlink, TurnOnly, IInv, TypeOK
<1> DEFINE left == turn.keys \ {n}
<1>3. left \in SUBSET Ordinals /\ left \subseteq turn.keys
  BY <1>2 DEF Turns
<1>4. turn' = [turn EXCEPT !.keys = left]
  BY <1>1
<1> HIDE DEF left
<1>5. /\ turn' \in Turns /\ turn'.step = turn.step /\ turn'.rec = turn.rec
      /\ turn'.segment = turn.segment /\ turn'.keys = left /\ turn'.by = turn.by
      /\ turn'.want = turn.want
  BY <1>2, <1>3, <1>4, Zenon DEF Turns
<1>6. \A x : Readings(x)' = Readings(x)
  BY <1>2 DEF Readings, Protecting
<1>7. TurnOK'
  <2>1. turn.segment = 0 => rec[turn.rec].storage = "deleting"
    BY <1>2 DEF IInv, TurnOK
  <2>2. turn.segment # 0 =>
          LET w == rec[turn.rec] IN
          /\ OnShelf(w) /\ turn.segment \in Segments(w) \ (w.released \union w.held)
          /\ turn.segment # w.key /\ turn.keys \subseteq {turn.segment}
          /\ turn.rec \notin jobs
          /\ \A q \in Readings(turn.rec) : reader[q].segment # turn.segment
    BY <1>2 DEF IInv, TurnOK
  <2>3. /\ turn.rec \in Recs
        /\ turn.by = "reclaim" => turn.want \in Recs /\ rec[turn.want].storage = "none"
    BY <1>2 DEF IInv, TurnOK
  <2> QED BY <1>2, <1>3, <1>5, <1>6, <2>1, <2>2, <2>3 DEF TurnOK
<1>8. ServiceOK'
  <2>1. turn # NoTurn
    BY <1>2, NoTurnType
  <2> QED BY <1>2, <1>5, <2>1 DEF IInv, ServiceOK, ActiveCaptures
<1> QED BY <1>2, <1>5, <1>7, <1>8, TurnKeeps

LEMMA UnlinkFailsKeeps == ASSUME IInv, UnlinkFails PROVE IInv'
<1>1. /\ turn.step = "unlink" /\ turn' = NoTurn
      /\ UNCHANGED <<rec, disk, worker, reader, reading, jobs, asks>>
      /\ asks' \in 0 .. MaxAsks /\ mishaps' \in 0 .. MaxMishaps
      /\ disk' \in [Recs -> [Ordinals -> Nat]]
  BY DvrAssumption DEF UnlinkFails, TurnOnly, IInv, TypeOK, Mishap
<1>2. /\ service \notin {"down", "readers"} /\ (turn.by = "boot" => service = "deletions")
  BY <1>1, NoTurnType DEF IInv, ServiceOK
<1>3. \/ service' = service
      \/ turn.by # "boot" /\ service' = "stopping"
      \/ turn.by = "boot" /\ service' = "down"
  BY DEF UnlinkFails
<1>4. ServiceOK'
  BY <1>1, <1>2, <1>3, NoTurnType DEF IInv, ServiceOK, ActiveCaptures
<1> QED BY <1>1, <1>3, <1>4, NoTurnOK, NoTurnType, TurnKeeps

\* Where a turn goes after rows changed.
LEMMA ContinuedTurn ==
    ASSUME turn \in Turns, turn' = Continued
    PROVE  /\ turn' \in Turns
           /\ \/ turn' = NoTurn
              \/ /\ turn'.by = turn.by /\ turn'.want = turn.want /\ turn'.segment = 0
                 /\ turn'.step # "unlink" /\ turn.by # "boot"
                 /\ turn'.step = "admit" => turn.by = "reclaim"
<1> DEFINE t == [turn EXCEPT !.rec = NoRec, !.segment = 0, !.next = "idle"]
<1>1. /\ t \in Turns /\ t.by = turn.by /\ t.want = turn.want /\ t.segment = 0
  <2>1. /\ NoRec \in Recs \union {NoRec} /\ 0 \in Ordinals \union {0}
        /\ "idle" \in {"idle", "candidates", "prune"}
    OBVIOUS
  <2> QED BY <2>1, Zenon DEF Turns
<1>2. \/ turn' = NoTurn
      \/ turn.by = "reclaim" /\ turn' = [t EXCEPT !.step = "admit", !.todo = {}]
      \/ turn.by \notin {"user", "boot"} /\ turn' = [t EXCEPT !.step = turn.next]
  BY DEF Continued
<1> HIDE DEF t
<1>3. turn.next \in {"idle", "candidates", "prune"} /\ {} \in SUBSET Recs
  BY DEF Turns
<1>4. CASE turn.by = "reclaim" /\ turn' = [t EXCEPT !.step = "admit", !.todo = {}]
  <2>1. /\ turn' \in Turns /\ turn'.by = t.by /\ turn'.want = t.want
        /\ turn'.segment = t.segment /\ turn'.step = "admit"
    BY <1>1, <1>3, <1>4, Zenon DEF Turns
  <2> QED BY <1>1, <1>4, <2>1
<1>5. CASE turn.by \notin {"user", "boot"} /\ turn' = [t EXCEPT !.step = turn.next]
  <2>1. turn.next \in {"idle", "release", "candidates", "prune", "unlink", "admit"}
    BY <1>3
  <2>2. /\ turn' \in Turns /\ turn'.by = t.by /\ turn'.want = t.want
        /\ turn'.segment = t.segment /\ turn'.step = turn.next
    BY <1>1, <1>5, <2>1, Zenon DEF Turns
  <2> QED BY <1>1, <1>3, <1>5, <2>2
<1> QED BY <1>2, <1>4, <1>5, NoTurnType

LEMMA CommitKeeps == ASSUME IInv, Commit PROVE IInv'
<1> DEFINE r == turn.rec
           n == turn.segment
           w == rec[r]
<1>1. /\ turn.step = "unlink" /\ turn \in Turns /\ r \in Recs /\ turn' = Continued
      /\ UNCHANGED <<disk, worker, reader, reading, jobs, service, asks, mishaps>>
      /\ asks' \in 0 .. MaxAsks /\ mishaps' \in 0 .. MaxMishaps /\ rec \in [Recs -> Rows]
  BY DEF Commit, TurnOnly, IInv, TypeOK, TurnOK
<1>2. RowOK(r, w) /\ \A x : Readings(x)' = Readings(x)
  BY <1>1 DEF IInv, RowsOK, Readings, Protecting
<1>3. PICK v : /\ Row(r, v) /\ RowOK(r, v) /\ v.storage # "none" /\ w.storage # "none"
               /\ v.capture \in Active => v.capture = w.capture /\ v.version = w.version
               /\ v.storage = "deleting" => w.storage = "deleting"
               /\ \/ Readings(r) = {}
                  \/ /\ OnShelf(v) /\ v.ends = w.ends /\ v.released = w.released \union {n}
                     /\ \A q \in Readings(r) : reader[q].segment # n
  <2>1. CASE n = 0 /\ w.capture \notin Active /\ Row(r, Deleted(w))
    <3>1. w.storage = "deleting"
      BY <1>1, <2>1 DEF IInv, TurnOK
    <3>2. Readings(r) = {}
      BY <1>1, <3>1 DEF IInv, DeletionsCanFinish, PendingDeletions
    <3>3. RowOK(r, Deleted(w)) /\ Deleted(w).storage = "deleted" /\ Deleted(w).capture \notin Active
      BY <1>1, <1>2, <2>1, DeletedOK
    <3> QED BY <2>1, <3>1, <3>2, <3>3
  <2>2. CASE /\ n # 0 /\ (w.storage = "retained" => Length(w, n) < w.media)
             /\ Row(r, Released(w, n))
    <3>1. /\ OnShelf(w) /\ n \in Segments(w)
          /\ \A q \in Readings(r) : reader[q].segment # n
      BY <1>1, <2>2 DEF IInv, TurnOK
    <3>2. LET v == Released(w, n) IN
          /\ RowOK(r, v) /\ v.storage = w.storage /\ v.capture = w.capture
          /\ v.version = w.version /\ v.ends = w.ends /\ v.released = w.released \union {n}
      BY <1>1, <1>2, <2>2, <3>1, ReleasedOK
    <3> QED BY <2>2, <3>1, <3>2 DEF OnShelf
  <2> QED BY <2>1, <2>2 DEF Commit
<1>4. /\ rec' \in [Recs -> Rows] /\ rec'[r] = v /\ \A x \in Recs \ {r} : rec'[x] = rec[x]
  BY <1>1, <1>3 DEF Row, RowOK
<1>5. /\ turn' \in Turns
      /\ \/ turn' = NoTurn
         \/ /\ turn'.by = turn.by /\ turn'.want = turn.want /\ turn'.segment = 0
            /\ turn'.step # "unlink" /\ turn.by # "boot"
            /\ turn'.step = "admit" => turn.by = "reclaim"
  BY <1>1, ContinuedTurn
<1>6. TypeOK'
  BY <1>1, <1>4, <1>5 DEF IInv, TypeOK
<1>7. RowsOK'
  BY <1>3, <1>4 DEF IInv, RowsOK
<1>8. WorkersOK'
  <2> SUFFICES ASSUME NEW x \in Recs
               PROVE  WorkerOK(x, worker[x]) /\ (worker[x].at # "none" => rec'[x].storage # "none")
    BY <1>1 DEF WorkersOK
  <2> QED BY <1>3, <1>4 DEF IInv, WorkersOK
<1>9. ReadersOK'
  BY <1>1 DEF IInv, ReadersOK
<1>10. TurnOK'
  <2>1. CASE turn' = NoTurn
    BY <2>1, NoTurnOK
  <2>2. CASE turn' # NoTurn
    <3>1. turn.by = "reclaim" => turn.want \in Recs /\ rec'[turn.want].storage = "none"
      BY <1>3, <1>4 DEF IInv, TurnOK
    <3> QED BY <1>5, <2>2, <3>1 DEF TurnOK
  <2> QED BY <2>1, <2>2
<1>11. \A x \in Recs : rec'[x].capture \in Active =>
          rec[x].capture \in Active /\ rec'[x].version = rec[x].version
  BY <1>3, <1>4
<1>12. ServiceOK'
  <2>1. turn # NoTurn
    BY <1>1, NoTurnType
  <2>2. ActiveCaptures = {} => ActiveCaptures' = {}
    BY <1>11 DEF ActiveCaptures
  <2> QED BY <1>1, <1>5, <2>1, <2>2, NoTurnType DEF IInv, ServiceOK
<1>13. DeletionsCanFinish'
  <2>1. \A x \in PendingDeletions' :
           rec'[x].capture \notin Active /\ x \notin jobs' /\ Readings(x)' = {}
    <3>1. PendingDeletions' \subseteq PendingDeletions
      BY <1>3, <1>4 DEF PendingDeletions
    <3> QED BY <1>1, <1>2, <1>11, <3>1 DEF IInv, DeletionsCanFinish, PendingDeletions
  <2>2. ASSUME NEW q \in reading
        PROVE  /\ reader[q].state \in Protecting /\ OnShelf(rec'[reader[q].rec])
               /\ reader[q].segment
                    \in Segments(rec'[reader[q].rec]) \ rec'[reader[q].rec].released
    <3> DEFINE x == reader[q].rec
    <3>1. /\ q \in Readers /\ x \in Recs /\ reader[q].state \in Protecting /\ OnShelf(rec[x])
          /\ reader[q].segment \in Segments(rec[x]) \ rec[x].released
      BY DEF IInv, TypeOK, ReadersOK, DeletionsCanFinish
    <3>2. CASE x = r
      <4>1. q \in Readings(r)
        BY <3>1, <3>2 DEF Readings
      <4>2. /\ OnShelf(v) /\ v.ends = w.ends /\ v.released = w.released \union {n}
            /\ reader[q].segment # n
        BY <1>3, <4>1
      <4> QED BY <1>4, <3>1, <3>2, <4>2 DEF Segments
    <3>3. CASE x # r
      BY <1>4, <3>1, <3>3
    <3> QED BY <3>2, <3>3
  <2> QED BY <1>1, <2>1, <2>2 DEF DeletionsCanFinish, Protecting
<1>14. LiveCapturesWorked'
  BY <1>1, <1>11 DEF IInv, LiveCapturesWorked, ActiveCaptures
<1> QED BY <1>6, <1>7, <1>8, <1>9, <1>10, <1>12, <1>13, <1>14 DEF IInv

\* ------------------------------------------------- readers, jobs, service --

\* A step that changes no row and no worker, in no turn.
LEMMA QuietKeeps ==
    ASSUME IInv, turn = NoTurn, UNCHANGED <<rec, disk, worker, turn>>,
           reader' \in [Readers -> ReaderRows], reading' \subseteq Readers, jobs' \subseteq Recs,
           asks' \in 0 .. MaxAsks, mishaps' \in 0 .. MaxMishaps,
           \/ service \in {"up", "stopping"} /\ service' \in {service, "stopping"}
           \/ service' = service /\ reading' = {},
           \A x \in Recs : rec[x].storage = "deleting" => x \notin jobs' /\ Readings(x)' = {},
           \A q \in reading' : /\ reader'[q].rec \in Recs /\ reader'[q].state \in Protecting
                               /\ OnShelf(rec[reader'[q].rec])
                               /\ reader'[q].segment \in Segments(rec[reader'[q].rec])
                                                            \ rec[reader'[q].rec].released
    PROVE  IInv'
<1>1. TypeOK'
  BY DEF IInv, TypeOK
<1>2. RowsOK' /\ WorkersOK' /\ ReadersOK'
  BY DEF IInv, RowsOK, WorkersOK, ReadersOK
<1>3. DeletionsCanFinish'
  BY DEF IInv, DeletionsCanFinish, PendingDeletions, Protecting
<1>4. TurnOK'
  BY NoTurnOK
<1>5. ServiceOK'
  BY NoTurnType DEF IInv, ServiceOK, ActiveCaptures
<1>6. LiveCapturesWorked'
  BY DEF IInv, LiveCapturesWorked, ActiveCaptures
<1> QED BY <1>1, <1>2, <1>3, <1>4, <1>5, <1>6 DEF IInv

LEMMA AnalyseKeeps == ASSUME IInv, NEW r \in Recs, Analyse(r) PROVE IInv'
<1>1. /\ turn = NoTurn /\ service = "up"
      /\ UNCHANGED <<rec, disk, worker, reader, reading, service, turn, mishaps>>
      /\ asks' \in 0 .. MaxAsks /\ mishaps' \in 0 .. MaxMishaps
  BY DvrAssumption DEF Analyse, Serving, Asked, IInv, TypeOK
<1>2. \/ rec[r].storage = "retained" /\ jobs' = jobs \union {r}
      \/ jobs' = jobs \ {r}
  BY DEF Analyse
<1>3. reader' \in [Readers -> ReaderRows] /\ reading' \subseteq Readers /\ jobs' \subseteq Recs
  BY <1>1, <1>2 DEF IInv, TypeOK
<1>4. \A x \in Recs : rec[x].storage = "deleting" => x \notin jobs' /\ Readings(x)' = {}
  <2>1. \A x : Readings(x)' = Readings(x)
    BY <1>1 DEF Readings, Protecting
  <2> QED BY <1>1, <1>2, <2>1 DEF IInv, DeletionsCanFinish, PendingDeletions
<1>5. \A q \in reading' : /\ reader'[q].rec \in Recs /\ reader'[q].state \in Protecting
                          /\ OnShelf(rec[reader'[q].rec])
                          /\ reader'[q].segment \in Segments(rec[reader'[q].rec])
                                                       \ rec[reader'[q].rec].released
  BY <1>1 DEF IInv, ReadersOK, DeletionsCanFinish
<1> QED BY <1>1, <1>3, <1>4, <1>5, QuietKeeps

\* One reader's row moves on; what it reads stays the same.
LEMMA ReaderMoves ==
    ASSUME IInv, NEW q \in Readers,
           NEW state \in {"running", "cancelling", "recovery_held", "completed", "failed"},
           reader' = [reader EXCEPT ![q].state = state], reader[q].state \in Protecting
    PROVE  /\ reader' \in [Readers -> ReaderRows]
           /\ reader'[q].state = state /\ reader'[q].rec = reader[q].rec
           /\ reader'[q].segment = reader[q].segment
           /\ \A p \in Readers \ {q} : reader'[p] = reader[p]
           /\ \A x \in Recs : Readings(x)' \subseteq Readings(x)
<1> DEFINE y == [reader[q] EXCEPT !.state = state]
<1>1. reader \in [Readers -> ReaderRows] /\ reader[q] \in ReaderRows
      /\ state \in {"none", "running", "cancelling", "recovery_held", "completed", "failed"}
  BY DEF IInv, TypeOK
<1>2. /\ y \in ReaderRows /\ y.state = state /\ y.rec = reader[q].rec
      /\ y.segment = reader[q].segment
  BY <1>1, Zenon DEF ReaderRows
<1>3. reader' = [reader EXCEPT ![q] = y]
  OBVIOUS
<1> HIDE DEF y
<1>4. /\ reader' \in [Readers -> ReaderRows] /\ reader'[q] = y
      /\ \A p \in Readers \ {q} : reader'[p] = reader[p]
  BY <1>1, <1>2, <1>3
<1>5. \A x \in Recs : Readings(x)' \subseteq Readings(x)
  BY <1>2, <1>4 DEF Readings, Protecting
<1> QED BY <1>2, <1>4, <1>5

LEMMA StartReaderKeeps == ASSUME IInv, NEW q \in Readers, StartReader(q) PROVE IInv'
<1>1. /\ turn = NoTurn /\ service = "up" /\ reader[q].state = "none"
      /\ UNCHANGED <<rec, disk, worker, jobs, service, turn, mishaps>>
      /\ asks' \in 0 .. MaxAsks /\ mishaps' \in 0 .. MaxMishaps
  BY DvrAssumption DEF StartReader, Serving, Asked, IInv, TypeOK
<1>2. PICK r \in Recs, n \in Ordinals, started \in BOOLEAN :
         /\ Readable(r, n)
         /\ reader' = [reader EXCEPT ![q] =
                         [state |-> IF started THEN "running" ELSE "recovery_held",
                          rec |-> r, segment |-> n]]
         /\ reading' = IF started THEN reading \union {q} ELSE reading
  BY DEF StartReader
<1>3. /\ reader' \in [Readers -> ReaderRows] /\ reader'[q].rec = r /\ reader'[q].segment = n
      /\ reader'[q].state \in Protecting
      /\ \A p \in Readers \ {q} : reader'[p] = reader[p]
  BY <1>2 DEF IInv, TypeOK, ReaderRows, Protecting
<1>4. OnShelf(rec[r]) /\ n \in Segments(rec[r]) \ rec[r].released
  BY <1>2 DEF Readable
<1>5. reading' \subseteq Readers /\ jobs' \subseteq Recs
  BY <1>1, <1>2 DEF IInv, TypeOK
<1>6. \A x \in Recs : rec[x].storage = "deleting" => x \notin jobs' /\ Readings(x)' = {}
  <2> SUFFICES ASSUME NEW x \in Recs, rec[x].storage = "deleting"
               PROVE  x \notin jobs' /\ Readings(x)' = {}
    OBVIOUS
  <2>1. x # r
    BY <1>4 DEF OnShelf
  <2>2. x \notin jobs /\ Readings(x) = {}
    BY DEF IInv, DeletionsCanFinish, PendingDeletions
  <2>3. Readings(x)' = {}
    BY <1>3, <2>1, <2>2 DEF Readings, Protecting
  <2> QED BY <1>1, <2>2, <2>3
<1>7. \A p \in reading' : /\ reader'[p].rec \in Recs /\ reader'[p].state \in Protecting
                          /\ OnShelf(rec[reader'[p].rec])
                          /\ reader'[p].segment \in Segments(rec[reader'[p].rec])
                                                       \ rec[reader'[p].rec].released
  <2> SUFFICES ASSUME NEW p \in reading'
               PROVE  /\ reader'[p].rec \in Recs /\ reader'[p].state \in Protecting
                      /\ OnShelf(rec[reader'[p].rec])
                      /\ reader'[p].segment \in Segments(rec[reader'[p].rec])
                                                   \ rec[reader'[p].rec].released
    OBVIOUS
  <2>1. CASE p = q
    BY <1>3, <1>4, <2>1
  <2>2. CASE p # q
    <3>1. p \in reading /\ p \in Readers
      BY <1>2, <1>5, <2>2
    <3> QED BY <1>3, <2>2, <3>1 DEF IInv, ReadersOK, DeletionsCanFinish
  <2> QED BY <2>1, <2>2
<1> QED BY <1>1, <1>3, <1>5, <1>6, <1>7, QuietKeeps

LEMMA StopReaderKeeps == ASSUME IInv, NEW q \in Readers, StopReader(q) PROVE IInv'
<1>1. /\ turn = NoTurn /\ service = "up" /\ reader[q].state = "running"
      /\ reader' = [reader EXCEPT ![q].state = "cancelling"]
      /\ UNCHANGED <<rec, disk, worker, reading, jobs, service, turn, mishaps>>
      /\ asks' \in 0 .. MaxAsks /\ mishaps' \in 0 .. MaxMishaps
  BY DvrAssumption DEF StopReader, Serving, Asked, IInv, TypeOK
<1>2. /\ reader' \in [Readers -> ReaderRows]
      /\ reader'[q].state = "cancelling" /\ reader'[q].rec = reader[q].rec
      /\ reader'[q].segment = reader[q].segment
      /\ \A p \in Readers \ {q} : reader'[p] = reader[p]
      /\ \A x \in Recs : Readings(x)' \subseteq Readings(x)
  BY <1>1, ReaderMoves DEF Protecting
<1>3. reading' \subseteq Readers /\ jobs' \subseteq Recs
  BY <1>1 DEF IInv, TypeOK
<1>4. \A x \in Recs : rec[x].storage = "deleting" => x \notin jobs' /\ Readings(x)' = {}
  BY <1>1, <1>2 DEF IInv, DeletionsCanFinish, PendingDeletions
<1>5. \A p \in reading' : /\ reader'[p].rec \in Recs /\ reader'[p].state \in Protecting
                          /\ OnShelf(rec[reader'[p].rec])
                          /\ reader'[p].segment \in Segments(rec[reader'[p].rec])
                                                       \ rec[reader'[p].rec].released
  BY <1>1, <1>2, <1>3 DEF IInv, ReadersOK, DeletionsCanFinish, Protecting
<1> QED BY <1>1, <1>2, <1>3, <1>4, <1>5, QuietKeeps

LEMMA FinishReaderKeeps == ASSUME IInv, NEW q \in Readers, FinishReader(q) PROVE IInv'
<1>1. /\ turn = NoTurn /\ service \in {"up", "stopping"} /\ q \in reading
      /\ reading' = reading \ {q}
      /\ UNCHANGED <<rec, disk, worker, jobs, turn, asks>>
      /\ asks' \in 0 .. MaxAsks /\ mishaps' \in 0 .. MaxMishaps
      /\ service' \in {service, "stopping"}
  BY DvrAssumption DEF FinishReader, Catalog, Mishap, IInv, TypeOK
<1>2. reader[q].state \in Protecting
  BY <1>1 DEF IInv, DeletionsCanFinish
<1>3. \/ reader' = reader
      \/ \E state \in {"completed", "failed", "recovery_held"} :
            reader' = [reader EXCEPT ![q].state = state]
  BY DEF FinishReader
<1>4. /\ reader' \in [Readers -> ReaderRows]
      /\ \A p \in Readers \ {q} : reader'[p] = reader[p]
      /\ \A x \in Recs : Readings(x)' \subseteq Readings(x)
  <2>1. CASE reader' = reader
    BY <2>1 DEF Readings, Protecting, IInv, TypeOK
  <2>2. ASSUME NEW state \in {"completed", "failed", "recovery_held"},
               reader' = [reader EXCEPT ![q].state = state]
        PROVE  /\ reader' \in [Readers -> ReaderRows]
               /\ \A p \in Readers \ {q} : reader'[p] = reader[p]
               /\ \A x \in Recs : Readings(x)' \subseteq Readings(x)
    BY <1>2, <2>2, ReaderMoves
  <2> QED BY <1>3, <2>1, <2>2
<1>5. reading' \subseteq Readers \ {q} /\ jobs' \subseteq Recs
  BY <1>1 DEF IInv, TypeOK
<1>6. \A x \in Recs : rec[x].storage = "deleting" => x \notin jobs' /\ Readings(x)' = {}
  BY <1>1, <1>4 DEF IInv, DeletionsCanFinish, PendingDeletions
<1>7. \A p \in reading' : /\ reader'[p].rec \in Recs /\ reader'[p].state \in Protecting
                          /\ OnShelf(rec[reader'[p].rec])
                          /\ reader'[p].segment \in Segments(rec[reader'[p].rec])
                                                       \ rec[reader'[p].rec].released
  BY <1>1, <1>4, <1>5 DEF IInv, ReadersOK, DeletionsCanFinish
<1> QED BY <1>1, <1>4, <1>5, <1>6, <1>7, QuietKeeps

LEMMA StopKeeps == ASSUME IInv, Stop \/ Exit PROVE IInv'
<1>1. UNCHANGED <<rec, disk, worker, reader, reading, jobs, turn, asks, mishaps>>
  BY DEF Stop, Exit
<1>2. ServiceOK'
  <2>1. CASE Stop
    BY <1>1, <2>1 DEF Stop, IInv, ServiceOK
  <2>2. CASE Exit
    BY <1>1, <2>2, NoTurnType DEF Exit, ServiceOK
  <2> QED BY <2>1, <2>2
<1>3. TurnOK'
  BY <1>1 DEF IInv, TurnOK, Readings, Protecting
<1>4. /\ turn' \in Turns /\ disk' \in [Recs -> [Ordinals -> Nat]]
      /\ asks' \in 0 .. MaxAsks /\ mishaps' \in 0 .. MaxMishaps
      /\ service' \in {service, "stopping", "down"}
  BY <1>1 DEF IInv, TypeOK, Stop, Exit
<1> QED BY <1>1, <1>2, <1>3, <1>4, TurnKeeps

LEMMA CrashKeeps == ASSUME IInv, Crash PROVE IInv'
<1>1. /\ service' = "down" /\ turn' = NoTurn
      /\ worker' = [r \in Recs |-> NoWorker] /\ reading' = {}
      /\ UNCHANGED <<rec, disk, reader, jobs, asks>> /\ mishaps' \in 0 .. MaxMishaps
  BY DvrAssumption DEF Crash, Mishap, IInv, TypeOK
<1>2. TypeOK'
  BY <1>1, NoWorkerType, NoTurnType DEF IInv, TypeOK
<1>3. RowsOK' /\ ReadersOK'
  BY <1>1 DEF IInv, RowsOK, ReadersOK
<1>4. WorkersOK'
  BY <1>1, NoWorkerType DEF WorkersOK, WorkerOK
<1>5. TurnOK'
  BY <1>1, NoTurnOK
<1>6. ServiceOK'
  BY <1>1, NoWorkerType, NoTurnType DEF ServiceOK
<1>7. DeletionsCanFinish'
  BY <1>1 DEF IInv, DeletionsCanFinish, PendingDeletions, Readings, Protecting
<1>8. LiveCapturesWorked'
  BY <1>1 DEF LiveCapturesWorked
<1> QED BY <1>2, <1>3, <1>4, <1>5, <1>6, <1>7, <1>8 DEF IInv

LEMMA RecoverCapturesKeeps == ASSUME IInv, RecoverCaptures PROVE IInv'
<1>1. /\ service = "down" /\ service' = "readers"
      /\ rec' = [r \in Recs |-> IF rec[r].capture \in Active THEN Recovered(rec[r]) ELSE rec[r]]
      /\ UNCHANGED <<disk, worker, reader, reading, jobs, turn, asks, mishaps>>
  BY DEF RecoverCaptures
<1>2. turn = NoTurn /\ reading = {} /\ \A r \in Recs : worker[r].at = "none"
  BY <1>1 DEF IInv, ServiceOK
<1>3. ASSUME NEW x \in Recs
      PROVE  RowOK(x, rec'[x]) /\ RowStep(rec[x], rec'[x]) /\ rec'[x].capture \notin Active
  <2>1. RowOK(x, rec[x])
    BY DEF IInv, RowsOK
  <2>2. CASE rec[x].capture \in Active
    <3>1. rec'[x] = Recovered(rec[x]) /\ rec[x].storage # "none"
      BY <1>1, <2>1, <2>2 DEF RowOK, WellKept
    <3>2. LET v == Recovered(rec[x]) IN
          RowOK(x, v) /\ RowStep(rec[x], v) /\ v.capture \notin Active
      BY <2>1, <2>2, <3>1, GivenUpOK DEF Recovered
    <3> QED BY <3>1, <3>2
  <2>3. CASE rec[x].capture \notin Active
    BY <1>1, <2>1, <2>3, RowStepRefl
  <2> QED BY <2>2, <2>3
<1>4. rec' \in [Recs -> Rows]
  BY <1>1, <1>3 DEF RowOK
<1>5. TypeOK'
  BY <1>1, <1>4 DEF IInv, TypeOK
<1>6. RowsOK' /\ ReadersOK' /\ DeletionsCanFinish'
  BY <1>1, <1>3, SafeSteps, SafeRows
<1>7. WorkersOK'
  BY <1>1, <1>2 DEF IInv, WorkersOK
<1>8. TurnOK'
  BY <1>1, <1>2, NoTurnOK
<1>9. ServiceOK'
  <2>1. ActiveCaptures' = {}
    BY <1>3 DEF ActiveCaptures
  <2> QED BY <1>1, <1>2, <2>1, NoTurnType DEF ServiceOK
<1>10. LiveCapturesWorked'
  BY <1>1 DEF LiveCapturesWorked
<1> QED BY <1>5, <1>6, <1>7, <1>8, <1>9, <1>10 DEF IInv

LEMMA RecoverReadersKeeps == ASSUME IInv, RecoverReaders PROVE IInv'
<1>1. /\ service = "readers" /\ service' = "deletions"
      /\ reader' = [q \in Readers |->
                       IF reader[q].state \in {"running", "cancelling"}
                       THEN [reader[q] EXCEPT !.state = "recovery_held"] ELSE reader[q]]
      /\ jobs' \in SUBSET jobs
      /\ UNCHANGED <<rec, disk, worker, reading, turn, asks, mishaps>>
  BY DEF RecoverReaders
<1>2. /\ turn = NoTurn /\ reading = {} /\ ActiveCaptures = {}
      /\ \A r \in Recs : worker[r].at = "none"
  BY <1>1 DEF IInv, ServiceOK
<1>3. ASSUME NEW q \in Readers
      PROVE  /\ reader'[q] \in ReaderRows /\ reader'[q].rec = reader[q].rec
             /\ reader'[q].state \in Protecting => reader[q].state \in Protecting
  <2> DEFINE y == [reader[q] EXCEPT !.state = "recovery_held"]
  <2>1. reader[q] \in ReaderRows
    BY DEF IInv, TypeOK
  <2>2. y \in ReaderRows /\ y.rec = reader[q].rec /\ y.state = "recovery_held"
    <3>1. "recovery_held"
            \in {"none", "running", "cancelling", "recovery_held", "completed", "failed"}
      OBVIOUS
    <3> QED BY <2>1, <3>1, Zenon DEF ReaderRows
  <2>3. reader'[q] = IF reader[q].state \in {"running", "cancelling"} THEN y ELSE reader[q]
    BY <1>1, Zenon
  <2> HIDE DEF y
  <2> QED BY <2>1, <2>2, <2>3 DEF Protecting
<1>4. TypeOK'
  <2>1. reader' \in [Readers -> ReaderRows]
    <3>1. reader' = [q \in Readers |-> reader'[q]]
      BY <1>1, Zenon
    <3> QED BY <1>3, <3>1
  <2> QED BY <1>1, <2>1 DEF IInv, TypeOK
<1>5. RowsOK' /\ WorkersOK' /\ ReadersOK'
  BY <1>1, <1>2 DEF IInv, RowsOK, WorkersOK, ReadersOK
<1>6. DeletionsCanFinish'
  <2>1. \A x : Readings(x)' \subseteq Readings(x)
    BY <1>3 DEF Readings, Protecting
  <2> QED BY <1>1, <1>2, <2>1 DEF IInv, DeletionsCanFinish, PendingDeletions
<1>7. TurnOK'
  BY <1>1, <1>2, NoTurnOK
<1>8. ServiceOK'
  BY <1>1, <1>2, NoTurnType DEF ServiceOK, ActiveCaptures
<1>9. LiveCapturesWorked'
  BY <1>1 DEF LiveCapturesWorked
<1> QED BY <1>4, <1>5, <1>6, <1>7, <1>8, <1>9 DEF IInv

\* -------------------------------------------------------- the theorems --

LEMMA InitIInv == ASSUME Init PROVE IInv
<1>1. TypeOK
  <2>1. \A r \in Recs : NoRow \in Rows
    BY NoRowOK DEF RowOK
  <2>2. NoReader \in ReaderRows
    BY DEF NoReader, ReaderRows
  <2> QED BY <2>1, <2>2, NoWorkerType, NoTurnType, DvrAssumption DEF Init, TypeOK
<1>2. RowsOK
  BY NoRowOK DEF Init, RowsOK
<1>3. WorkersOK
  BY NoWorkerType DEF Init, WorkersOK, WorkerOK
<1>4. ReadersOK /\ LiveCapturesWorked /\ DeletionsCanFinish
  <2>1. \A x \in Recs : rec[x].storage = "none" /\ rec[x].capture \notin Active
    BY DEF Init, NoRow, Active
  <2> QED BY <2>1 DEF Init, ReadersOK, LiveCapturesWorked, DeletionsCanFinish,
                      PendingDeletions, ActiveCaptures
<1>5. TurnOK
  BY NoTurnType DEF Init, TurnOK, NoTurn
<1>6. ServiceOK
  BY NoTurnType DEF Init, ServiceOK
<1> QED BY <1>1, <1>2, <1>3, <1>4, <1>5, <1>6 DEF IInv

LEMMA StutterKeeps == ASSUME IInv, UNCHANGED vars PROVE IInv'
<1>1. /\ UNCHANGED <<rec, disk, worker, reader, reading, jobs, service, turn, asks, mishaps>>
  BY DEF vars
<1>2. TurnOK' /\ ServiceOK'
  BY <1>1 DEF IInv, TurnOK, ServiceOK, Readings, Protecting, ActiveCaptures
<1>3. /\ turn' \in Turns /\ disk' \in [Recs -> [Ordinals -> Nat]]
      /\ asks' \in 0 .. MaxAsks /\ mishaps' \in 0 .. MaxMishaps
  BY <1>1 DEF IInv, TypeOK
<1> QED BY <1>1, <1>2, <1>3, TurnKeeps

LEMMA NextKeeps == ASSUME IInv, [Next]_vars PROVE IInv'
<1>1. ASSUME NEW r \in Recs, Request(r) PROVE IInv'
  BY <1>1, StartKeeps, RequestsKeep, AnalyseKeeps, DeleteKeeps DEF Request
<1>2. ASSUME NEW r \in Recs, WorkerStep(r) \/ Age(r) PROVE IInv'
  BY <1>2, ReadKeeps, ReceiveKeeps, EndsKeep, RequestsKeep DEF WorkerStep
<1>3. ASSUME NEW r \in Recs, WorkerCall(r) PROVE IInv'
  BY <1>3, StaleCallKeeps, ConnectKeeps, OpenKeeps, ReleaseOpenKeeps, SealKeeps, RenewKeeps,
     EndedInCallKeeps, FinishKeeps DEF WorkerCall
<1>4. ASSUME NEW q \in Readers, StartReader(q) \/ StopReader(q) \/ FinishReader(q) PROVE IInv'
  BY <1>4, StartReaderKeeps, StopReaderKeeps, FinishReaderKeeps
<1>5. ASSUME NEW by \in {"sweep", "prune"}, BeginPrune(by) PROVE IInv'
  BY <1>5, BeginPruneKeeps
<1>6. CASE TurnStep
  BY <1>6, ReleaseNextKeeps, CandidatesKeeps, PruneNextKeeps, UnlinkKeeps, UnlinkFailsKeeps,
     CommitKeeps, AdmitReclaimedKeeps DEF TurnStep
<1>7. CASE Stop \/ Exit \/ Crash
  BY <1>7, StopKeeps, CrashKeeps
<1>8. CASE Recovery
  BY <1>8, RecoverCapturesKeeps, RecoverReadersKeeps, RecoverDeletionsKeeps DEF Recovery
<1>9. CASE UNCHANGED vars
  BY <1>9, StutterKeeps
<1> QED BY <1>1, <1>2, <1>3, <1>4, <1>5, <1>6, <1>7, <1>8, <1>9 DEF Next

\* The inductive invariant holds in every state the service can be in:
\* between the steps of a reclamation, after a crash, during start-up.
THEOREM Invariance == Spec => []IInv
BY InitIInv, NextKeeps, PTL DEF Spec

\* Every variable keeps its type: a row is a row of the schema, a segment's
\* ordinal never leaves the range its recording's ceiling allows.
THEOREM RowsTyped == Spec => []TypeOK
<1>1. IInv => TypeOK
  BY DEF IInv
<1> QED BY <1>1, Invariance, PTL

\* The audit that a library must pass to open (audit_dvr) passes in every
\* state, so whatever the service was doing when it died, the next start
\* finds books that balance.
THEOREM BooksBalance == Spec => []BytesBalance
<1>1. IInv => BytesBalance
  <2> SUFFICES ASSUME IInv, NEW r \in Recs
               PROVE  LET w == rec[r] IN
                      /\ w.storage = "reserved" =>
                            w.charged = w.maximum /\ w.escrow + w.open + Sealed(w) = w.maximum
                      /\ w.storage = "retained" =>
                            /\ w.charged = w.media /\ w.media = Unreleased(w) /\ w.media > 0
                            /\ w.escrow = 0 /\ w.open = 0 /\ w.key = 0
                      /\ w.storage = "deleted" => w.charged = 0 /\ w.escrow = 0 /\ w.open = 0
                      /\ w.open > 0 => w.capture = "running" /\ w.key # 0
    BY DEF BytesBalance
  <2>1. WellKept(r, rec[r]) /\ Len(rec[r].ends) \in Nat
    BY InHand DEF RowOK, Rows
  <2> QED BY <2>1 DEF WellKept
<1> QED BY <1>1, Invariance, PTL

\* Nothing that refuses a deletion comes over a pending one, so start-up can
\* finish it; and no reader's worker runs against a released segment.
THEOREM DeletionsUnobstructed == Spec => []DeletionsCanFinish
<1>1. IInv => DeletionsCanFinish
  BY DEF IInv
<1> QED BY <1>1, Invariance, PTL

\* While requests are served, every live capture has a worker of its own
\* generation.
THEOREM CapturesWorked == Spec => []LiveCapturesWorked
<1>1. IInv => LiveCapturesWorked
  BY DEF IInv
<1> QED BY <1>1, Invariance, PTL

\* Only the turn in hand removes a file, and of a recording that nobody
\* protects, or a segment that nobody reads, writes or holds.
THEOREM RemovalsSpare == Spec => UnlinkSparesProtected
<1> DEFINE Spared(r, n) == /\ \A q \in Readings(r) : reader[q].segment # n
                           /\ r \notin jobs
                           /\ rec[r].capture \in Active => n # rec[r].key
                           /\ turn.segment = n => n \notin rec[r].held
           Spares == \A r \in Recs, n \in Ordinals :
                        disk[r][n] # 0 /\ disk'[r][n] = 0 => Spared(r, n)
<1>1. ASSUME IInv, [Next]_vars PROVE Spares
  <2> SUFFICES ASSUME NEW r \in Recs, NEW n \in Ordinals, disk[r][n] # 0, disk'[r][n] = 0
               PROVE  Spared(r, n)
    OBVIOUS
  <2>1. disk \in [Recs -> [Ordinals -> Nat]]
    BY <1>1 DEF IInv, TypeOK
  <2>2. CASE Unlink
    <3>1. turn.step = "unlink" /\ turn.rec = r /\ n \in turn.keys
      BY <2>1, <2>2 DEF Unlink
    <3>2. CASE turn.segment = 0
      <4>1. rec[r].storage = "deleting"
        BY <1>1, <3>1, <3>2 DEF IInv, TurnOK
      <4>2. rec[r].capture \notin Active /\ r \notin jobs /\ Readings(r) = {}
        BY <1>1, <4>1 DEF IInv, DeletionsCanFinish, PendingDeletions
      <4>3. turn.segment # n
        BY <3>2 DEF Ordinals
      <4> QED BY <4>2, <4>3
    <3>3. CASE turn.segment # 0
      <4>1. LET w == rec[turn.rec] IN
            /\ turn.segment \in Segments(w) \ (w.released \union w.held)
            /\ turn.segment # w.key /\ turn.keys \subseteq {turn.segment}
            /\ turn.rec \notin jobs
            /\ \A q \in Readings(turn.rec) : reader[q].segment # turn.segment
        BY <1>1, <3>1, <3>3 DEF IInv, TurnOK
      <4> QED BY <3>1, <4>1
    <3> QED BY <3>2, <3>3
  <2>3. ASSUME NEW x \in Recs, WorkerStep(x) PROVE FALSE
    <3>1. \/ \E bytes \in 1 .. Ceiling : disk' = [disk EXCEPT ![x][worker[x].key] = bytes]
          \/ \E bytes \in 1 .. Maximum[x] : disk' = [disk EXCEPT ![x][1] = bytes]
          \/ disk' = disk
      BY <2>3 DEF WorkerStep, ReadSegment, ReceiveFile, EndOfBody, VerifyFile, WorkerFails
    <3>2. Maximum[x] \in Nat /\ Ceiling \in Nat
      BY DvrAssumption, RecordingsAssumption
    <3>3. ASSUME NEW bytes \in 1 .. Ceiling, disk' = [disk EXCEPT ![x][worker[x].key] = bytes]
          PROVE  FALSE
      BY <2>1, <3>2, <3>3
    <3>4. ASSUME NEW bytes \in 1 .. Maximum[x], disk' = [disk EXCEPT ![x][1] = bytes]
          PROVE  FALSE
      BY <2>1, <3>2, <3>4
    <3> QED BY <3>1, <3>3, <3>4
  <2>4. CASE disk' = disk
    BY <2>4
  <2>5. \/ Unlink
        \/ \E x \in Recs : WorkerStep(x)
        \/ disk' = disk
    <3>1. ASSUME NEW x \in Recs, Request(x) \/ Age(x) PROVE disk' = disk
      BY <3>1 DEF Request, Start, Pause, Retain, HoldRange, Acknowledge, Analyse, Delete, Age,
                  RowOnly
    <3>2. ASSUME NEW x \in Recs, WorkerCall(x) PROVE disk' = disk
      BY <3>2 DEF WorkerCall, StaleCall, Connect, OpenSegment, ReleaseOpen, SealSegment, Renew,
                  EndedInCall, Finish, CallOnly
    <3>3. ASSUME NEW q \in Readers, StartReader(q) \/ StopReader(q) \/ FinishReader(q)
          PROVE  disk' = disk
      BY <3>3 DEF StartReader, StopReader, FinishReader
    <3>4. ASSUME NEW by \in {"sweep", "prune"}, BeginPrune(by) PROVE disk' = disk
      BY <3>4 DEF BeginPrune
    <3>5. CASE TurnStep
      BY <3>5 DEF TurnStep, ReleaseNext, Candidates, PruneNext, UnlinkFails, Commit,
                  AdmitReclaimed
    <3>6. CASE Stop \/ Exit \/ Crash \/ Recovery
      BY <3>6 DEF Stop, Exit, Crash, Recovery, RecoverCaptures, RecoverReaders, RecoverDeletions
    <3>7. CASE UNCHANGED vars
      BY <3>7 DEF vars
    <3> QED BY <1>1, <3>1, <3>2, <3>3, <3>4, <3>5, <3>6, <3>7 DEF Next
  <2> QED BY <2>2, <2>3, <2>4, <2>5
<1>2. IInv /\ [Next]_vars => [Spares]_vars
  BY <1>1
<1>3. Spec => [][Spares]_vars
  BY <1>2, Invariance, PTL DEF Spec
<1> QED BY <1>3 DEF UnlinkSparesProtected
===============================================================================
