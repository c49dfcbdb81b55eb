---------------------------- MODULE DvrFileProofs ----------------------------
(***************************************************************************)
(* Proofs about the files of the DVR: that the quota covers what is on     *)
(* disk, that only an interruption parts a file from its row, and that a   *)
(* deletion leaves no file, for every value of the constants of Dvr.       *)
(***************************************************************************)
EXTENDS DvrProofs, TotalProofs

(***************************************************************************)
(* What is kept of one recording.  The charge covers the segments that     *)
(* were not released and the file being staged behind them; nothing else   *)
(* is on disk.  A worker that may still write has room in the charge, and  *)
(* what it has staged is there.                                            *)
(***************************************************************************)
Lengths(w) == [n \in Segments(w) |-> Length(w, n)]
Unfreed(w) == Segments(w) \ w.released
Kept(w) == Total(Lengths(w), Unfreed(w))

\* The ordinal after the sealed segments is the one a file is staged for.
Ahead(w) == Len(w.ends) + 1
Staging(w, d) == IF Ahead(w) \in Ordinals THEN d[Ahead(w)] ELSE 0

BooksOK(w) ==
    /\ w.released \subseteq Segments(w)
    /\ \A n \in Segments(w) : Length(w, n) \in Nat
    /\ w.freed \in Nat /\ w.charged \in Nat
    /\ Kept(w) + w.freed = Sealed(w)

Filed == {"reserved", "retained", "deleting"}
FilesOK(w, d) ==
    /\ w.storage \in {"none", "deleted"} /\ w.cause = "none" => \A n \in Ordinals : d[n] = 0
    /\ w.storage \in Filed =>
          /\ \A n \in Unfreed(w) : d[n] <= Length(w, n)
          /\ \A n \in Ordinals : n \in w.released \/ n > Ahead(w) => d[n] = 0
          /\ Kept(w) + Staging(w, d) <= w.charged
          /\ w.cause = "none" /\ Staging(w, d) # 0 /\ w.ends # <<>> => w.key = Ahead(w)

WorkOK(r, w, d, x) ==
    /\ x.at # "none" => /\ w.storage \in {"reserved", "deleting", "deleted"}
                        /\ w.cause = "none" => w.capture \in Active
    /\ x.at \in {"receiving", "received"} => r \notin Segmented
    /\ x.at = "reading" /\ w.storage # "deleted" =>
          /\ x.key = Ahead(w) /\ Ahead(w) \in Ordinals /\ Staging(w, d) = 0
          /\ Kept(w) + Ceiling <= w.charged
          /\ w.cause = "none" => w.key = Ahead(w)
    /\ x.at = "receiving" /\ w.storage # "deleted" => w.ends = <<>> /\ Maximum[r] <= w.charged
    /\ w.storage = "reserved" =>
          /\ x.at = "staged" => Staging(w, d) = x.bytes /\ x.bytes > 0
          /\ x.at \in {"connecting", "asking", "cut"} => Staging(w, d) = 0
          /\ x.at = "done" /\ r \in Segmented => Staging(w, d) = 0
          /\ x.at \in {"received", "done"} /\ r \notin Segmented =>
                w.ends = <<>> /\ d[1] = x.bytes /\ x.bytes > 0

KeptOK(r, w, d, x) == BooksOK(w) /\ FilesOK(w, d) /\ WorkOK(r, w, d, x)

\* What a step may do to one recording: its charge does not grow, and no row
\* comes to promise a file that is not there.
TornOf(w, d) == IF OnShelf(w) THEN {n \in Unfreed(w) : d[n] = 0} ELSE {}
FileStep(w, d, v, e) == v.charged <= w.charged /\ TornOf(v, e) \subseteq TornOf(w, d)

Disks == [Ordinals -> Nat]

\* --------------------------------------------------- what the rows keep --

LEMMA RowTypes ==
    ASSUME NEW r \in Recs, NEW w, RowOK(r, w)
    PROVE  /\ w \in Rows /\ w.ends \in Seq(Nat) /\ Len(w.ends) \in Nat
           /\ Segments(w) = 1 .. Len(w.ends) /\ Segments(w) \subseteq Ordinals
           /\ Ahead(w) \in Nat /\ Ahead(w) \notin Segments(w)
           /\ IsFiniteSet(Segments(w)) /\ IsFiniteSet(Unfreed(w))
           /\ w.charged \in Int /\ w.freed \in Int /\ Sealed(w) \in Nat
<1>1. w \in Rows /\ w.ends \in Seq(Nat) /\ Len(w.ends) \in Nat /\ w.charged \in Int /\ w.freed \in Int
  BY DEF RowOK, Rows
<1>2. Segments(w) = 1 .. Len(w.ends)
  BY <1>1 DEF Segments
<1>3. IsFiniteSet(Segments(w)) /\ IsFiniteSet(Unfreed(w))
  <2>1. IsFiniteSet(1 .. Len(w.ends))
    BY <1>1, FS_Interval
  <2> QED BY <1>2, <2>1, FS_Subset DEF Unfreed
<1>4. Segments(w) \subseteq Ordinals
  BY SegmentsType
<1> QED BY <1>1, <1>2, <1>3, <1>4, SealedType DEF Ahead

LEMMA KeptType ==
    ASSUME NEW r \in Recs, NEW w, RowOK(r, w), BooksOK(w)
    PROVE  Kept(w) \in Nat /\ Kept(w) <= Sealed(w)
<1>1. \A n \in Unfreed(w) : Lengths(w)[n] \in Nat
  BY DEF BooksOK, Lengths, Unfreed
<1>2. Kept(w) \in Nat
  BY <1>1, RowTypes, TotalRemoves DEF Kept
<1> QED BY <1>2, RowTypes DEF BooksOK

\* The charge of a recording covers its files.
LEMMA StoredFits ==
    ASSUME NEW r \in Recs, NEW w, RowOK(r, w), NEW d \in Disks, BooksOK(w), FilesOK(w, d),
           w.storage \in Filed
    PROVE  Total(d, Ordinals) <= w.charged
<1> DEFINE S == Unfreed(w)
<1>1. IsFiniteSet(Ordinals) /\ IsFiniteSet(S) /\ S \subseteq Ordinals /\ Ahead(w) \notin S
      /\ S \subseteq Segments(w)
  <2>1. IsFiniteSet(Ordinals)
    BY RecordingsAssumption, FS_Interval DEF Ordinals
  <2>2. /\ Segments(w) \subseteq Ordinals /\ IsFiniteSet(Unfreed(w))
        /\ Ahead(w) \notin Segments(w)
    BY RowTypes
  <2> QED BY <2>1, <2>2 DEF Unfreed
<1>2. \A n \in Ordinals : d[n] \in Nat
  BY DEF Disks
<1>3. \A n \in Ordinals \ S : n # Ahead(w) => d[n] = 0
  <2> SUFFICES ASSUME NEW n \in Ordinals \ S, n # Ahead(w) PROVE n \in w.released \/ n > Ahead(w)
    BY DEF FilesOK
  <2>1. Segments(w) = 1 .. Len(w.ends) /\ Len(w.ends) \in Nat
    BY RowTypes
  <2>2. n \in Segments(w) => n \in w.released
    BY DEF Unfreed
  <2>3. n \in Nat /\ n >= 1
    BY RecordingsAssumption DEF Ordinals
  <2> QED BY <2>1, <2>2, <2>3 DEF Ahead
<1>4. Total(d, S) <= Kept(w) /\ Total(d, S) \in Nat /\ Kept(w) \in Nat
  <2>1. \A n \in S : d[n] \in Nat /\ Lengths(w)[n] \in Nat /\ d[n] <= Lengths(w)[n]
    BY <1>1, <1>2 DEF BooksOK, FilesOK, Lengths
  <2>2. Total(d, S) <= Total(Lengths(w), S)
    BY <1>1, <2>1, TotalGrows
  <2>3. Total(d, S) \in Nat
    BY <1>1, <2>1, TotalRemoves
  <2> QED BY <2>2, <2>3, KeptType DEF Kept
<1>5. Kept(w) + Staging(w, d) <= w.charged /\ w.charged \in Nat
  BY DEF FilesOK, BooksOK
<1>6. CASE Ahead(w) \in Ordinals
  <2> DEFINE T == Ordinals \ {Ahead(w)}
  <2>1. Total(d, Ordinals) = d[Ahead(w)] + Total(d, T)
    BY <1>1, <1>2, <1>6, TotalRemoves
  <2>2. IsFiniteSet(T) /\ S \subseteq T
    BY <1>1, FS_Subset
  <2>3. Total(d, T) = Total(d, S)
    BY <1>2, <1>3, <2>2, TotalOutside
  <2>4. Staging(w, d) = d[Ahead(w)] /\ d[Ahead(w)] \in Nat
    BY <1>2, <1>6 DEF Staging
  <2> QED BY <1>4, <1>5, <2>1, <2>3, <2>4
<1>7. CASE Ahead(w) \notin Ordinals
  <2>1. Total(d, Ordinals) = Total(d, S)
    BY <1>1, <1>2, <1>3, <1>7, TotalOutside
  <2>2. Staging(w, d) = 0
    BY <1>7 DEF Staging
  <2> QED BY <1>4, <1>5, <2>1, <2>2
<1> QED BY <1>6, <1>7

\* ------------------------------------- steps that touch no kept segment --

SameBooks(w, v) == /\ v.charged = w.charged /\ v.ends = w.ends
                   /\ v.released = w.released /\ v.freed = w.freed

LEMMA SameKept ==
    ASSUME NEW w, NEW v, v.ends = w.ends, v.released = w.released
    PROVE  /\ Segments(v) = Segments(w) /\ Unfreed(v) = Unfreed(w) /\ Ahead(v) = Ahead(w)
           /\ Sealed(v) = Sealed(w) /\ \A n : Length(v, n) = Length(w, n)
           /\ Kept(v) = Kept(w) /\ \A d : Staging(v, d) = Staging(w, d)
<1>1. Segments(v) = Segments(w) /\ Sealed(v) = Sealed(w) /\ \A n : Length(v, n) = Length(w, n)
  BY DEF Segments, Sealed, Length
<1>2. Unfreed(v) = Unfreed(w) /\ Ahead(v) = Ahead(w)
  BY <1>1 DEF Unfreed, Ahead
<1>3. Lengths(v) = Lengths(w)
  BY <1>1 DEF Lengths
<1> QED BY <1>1, <1>2, <1>3 DEF Kept, Staging

\* The row moves on, its segments and its charge do not.  The key of the
\* file being staged may change only while there is no such file, or with
\* a cause.
RowMoves(w, v, d) ==
    /\ SameBooks(w, v) /\ w.storage # "none"
    /\ v.storage = w.storage \/ (w.storage \in Filed /\ v.storage = "deleting")
    /\ v.cause = "none" => w.cause = "none"
    /\ v.key = w.key \/ v.key = Ahead(w) \/ v.cause # "none" \/ Staging(w, d) = 0

LEMMA SameFiles ==
    ASSUME NEW w, NEW v, NEW d, BooksOK(w), FilesOK(w, d), RowMoves(w, v, d)
    PROVE  BooksOK(v) /\ FilesOK(v, d) /\ FileStep(w, d, v, d)
<1>1. /\ Segments(v) = Segments(w) /\ Unfreed(v) = Unfreed(w) /\ Ahead(v) = Ahead(w)
      /\ Sealed(v) = Sealed(w) /\ \A n : Length(v, n) = Length(w, n)
      /\ Kept(v) = Kept(w) /\ Staging(v, d) = Staging(w, d)
      /\ v.charged = w.charged /\ v.released = w.released /\ v.freed = w.freed
      /\ v.ends = w.ends /\ w.charged \in Nat
  BY SameKept DEF RowMoves, SameBooks, BooksOK
<1>2. BooksOK(v)
  BY <1>1 DEF BooksOK
<1>3. FilesOK(v, d)
  <2>1. v.storage \in {"none", "deleted"} => v.storage = w.storage
    BY DEF RowMoves
  <2>2. v.storage \in Filed => w.storage \in Filed
    BY DEF RowMoves
  <2>3. v.cause = "none" /\ Staging(w, d) # 0 => v.key = w.key \/ v.key = Ahead(w)
    BY DEF RowMoves
  <2>4. v.cause = "none" => w.cause = "none"
    BY DEF RowMoves
  <2> QED BY <1>1, <2>1, <2>2, <2>3, <2>4 DEF FilesOK
<1>4. FileStep(w, d, v, d)
  BY <1>1 DEF FileStep, TornOf, OnShelf, RowMoves
<1> QED BY <1>2, <1>3, <1>4

LEMMA SameWork ==
    ASSUME NEW r, NEW w, NEW v, NEW d, NEW x, WorkOK(r, w, d, x), SameBooks(w, v),
           v.storage = w.storage \/ (w.storage \in Filed /\ v.storage = "deleting"),
           \/ v.cause # "none"
           \/ /\ v.cause = w.cause /\ v.key = w.key
              /\ w.capture \in Active => v.capture \in Active
    PROVE  WorkOK(r, v, d, x)
<1>1. /\ Ahead(v) = Ahead(w) /\ Kept(v) = Kept(w) /\ Staging(v, d) = Staging(w, d)
      /\ v.charged = w.charged /\ v.ends = w.ends
  BY SameKept DEF SameBooks
<1>2. v.storage \in {"reserved", "deleted"} => v.storage = w.storage
  OBVIOUS
<1>3. v.storage # "deleted" => w.storage # "deleted"
  BY DEF Filed
<1> QED BY <1>1, <1>2, <1>3 DEF WorkOK

\* A worker that has stopped promises nothing.
LEMMA StoppedWork ==
    ASSUME NEW r, NEW w, NEW d, NEW x, x.at \in {"none", "failed"},
           x.at = "failed" => /\ w.storage \in {"reserved", "deleting", "deleted"}
                              /\ w.cause = "none" => w.capture \in Active
    PROVE  WorkOK(r, w, d, x)
BY DEF WorkOK

LEMMA TouchedKept ==
    ASSUME NEW r \in Recs, NEW w, NEW v, NEW d, NEW x, KeptOK(r, w, d, x), SameBooks(w, v),
           w.storage # "none", v.storage = w.storage, v.cause = w.cause, v.key = w.key,
           v.capture = w.capture
    PROVE  KeptOK(r, v, d, x) /\ FileStep(w, d, v, d)
<1>1. BooksOK(w) /\ FilesOK(w, d) /\ WorkOK(r, w, d, x)
  BY DEF KeptOK
<1>2. RowMoves(w, v, d)
  BY Zenon DEF RowMoves
<1>3. BooksOK(v) /\ FilesOK(v, d) /\ FileStep(w, d, v, d)
  BY <1>1, <1>2, SameFiles
<1>4. WorkOK(r, v, d, x)
  BY <1>1, SameWork, Zenon
<1> QED BY <1>3, <1>4 DEF KeptOK

\* The capture ends with a cause; its worker has stopped, or has still to
\* learn of it.
LEMMA EndedKept ==
    ASSUME NEW r \in Recs, NEW w, NEW d, NEW x, NEW y, RowOK(r, w), KeptOK(r, w, d, x),
           w.capture = "running", NEW cause \in Causes, cause # "none",
           NEW event \in {"lost", "fail"}, y = x \/ y.at \in {"none", "failed"}
    PROVE  LET v == EndedWithGap(w, cause, event) IN
           KeptOK(r, v, d, y) /\ FileStep(w, d, v, d)
<1> DEFINE key == IF w.open > 0 THEN 0 ELSE w.key
           z == [w EXCEPT !.cause = cause, !.escrow = @ + w.open, !.open = 0, !.key = key]
           v == Journal(z, event)
<1>1. w \in Rows /\ w.storage = "reserved" /\ w.open \in Nat
      /\ w.escrow \in Int /\ w.escrow + w.open \in Int /\ key \in Ordinals \union {0}
  BY DEF RowOK, WellKept, Rows, Active
<1>2. v = EndedWithGap(w, cause, event)
  BY <1>1, Zenon DEF EndedWithGap, Rows
<1> HIDE DEF key
<1>3. z \in Rows
  <2>1. 0 \in Nat
    OBVIOUS
  <2> QED BY <1>1, <2>1, Zenon DEF Rows
<1>4. /\ z.capture = w.capture /\ z.storage = w.storage /\ z.charged = w.charged
      /\ z.ends = w.ends /\ z.released = w.released /\ z.freed = w.freed /\ z.cause = cause
  BY <1>1, Zenon DEF Rows
<1> HIDE DEF z
<1>5. After(z.capture, event) \in States
  BY <1>4, Events DEF Active, Live, States
<1>6. SameBooks(w, v) /\ v.storage = w.storage /\ v.cause # "none"
  BY <1>3, <1>4, <1>5, Journaled DEF SameBooks
<1> HIDE DEF v
<1>7. BooksOK(v) /\ FilesOK(v, d) /\ FileStep(w, d, v, d)
  <2>1. RowMoves(w, v, d)
    BY <1>1, <1>6 DEF RowMoves
  <2> QED BY <2>1, SameFiles DEF KeptOK
<1>8. WorkOK(r, v, d, x)
  <2>1. WorkOK(r, w, d, x)
    BY DEF KeptOK
  <2> QED BY <1>6, <2>1, SameWork
<1>9. WorkOK(r, v, d, y)
  <2>1. v.storage \in {"reserved", "deleting", "deleted"} /\ v.cause # "none"
    BY <1>1, <1>6
  <2> QED BY <1>8, <2>1, StoppedWork
<1> QED BY <1>2, <1>7, <1>9 DEF KeptOK, v

\* fail_recording, and recover_captures in one recording: no worker is left.
LEMMA GivenUpKept ==
    ASSUME NEW r \in Recs, NEW w, NEW d, NEW x, NEW y, RowOK(r, w), KeptOK(r, w, d, x),
           w.storage # "none", NEW event,
           \/ event = "fail" /\ w.capture \in Live
           \/ event = "lost" /\ w.capture \in Active,
           y.at = "none"
    PROVE  LET v == Journal([w EXCEPT !.escrow = @ + w.open, !.open = 0], event) IN
           KeptOK(r, v, d, y) /\ FileStep(w, d, v, d)
<1> DEFINE z == [w EXCEPT !.escrow = @ + w.open, !.open = 0]
           v == Journal(z, event)
<1>1. w \in Rows /\ w.open \in Nat /\ 0 \in Nat /\ w.escrow \in Int /\ w.escrow + w.open \in Int
  BY DEF RowOK, Rows
<1>2. z \in Rows
  BY <1>1, Zenon DEF Rows
<1>3. /\ z.capture = w.capture /\ z.storage = w.storage /\ z.charged = w.charged
      /\ z.ends = w.ends /\ z.released = w.released /\ z.freed = w.freed /\ z.cause = w.cause
      /\ z.key = w.key
  BY <1>1, Zenon DEF Rows
<1> HIDE DEF z
<1>4. After(z.capture, event) \in States
  BY <1>3, Events DEF States
<1>5. SameBooks(w, v) /\ v.storage = w.storage /\ v.cause = w.cause /\ v.key = w.key
  BY <1>2, <1>3, <1>4, Journaled DEF SameBooks
<1> HIDE DEF v
<1>6. BooksOK(v) /\ FilesOK(v, d) /\ FileStep(w, d, v, d)
  <2>1. RowMoves(w, v, d)
    BY <1>5 DEF RowMoves
  <2> QED BY <2>1, SameFiles DEF KeptOK
<1>7. WorkOK(r, v, d, y)
  BY StoppedWork
<1> QED BY <1>6, <1>7 DEF KeptOK, v, z

\* A call that moves the worker alone.
LEMMA MovedKept ==
    ASSUME NEW r \in Recs, NEW w, NEW d, NEW x, NEW y, KeptOK(r, w, d, x), WorkOK(r, w, d, y),
           w.charged \in Nat
    PROVE  KeptOK(r, w, d, y) /\ FileStep(w, d, w, d)
BY DEF KeptOK, FileStep

\* connect_recording
LEMMA ConnectedKept ==
    ASSUME NEW r \in Recs, NEW w, NEW d, NEW x, NEW y, RowOK(r, w), KeptOK(r, w, d, x),
           w.capture = "starting", x.at = "connecting", r \in Segmented, y.at = "asking"
    PROVE  LET v == Journal(w, "connected") IN KeptOK(r, v, d, y) /\ FileStep(w, d, v, d)
<1> DEFINE v == Journal(w, "connected")
<1>1. After(w.capture, "connected") = "running" /\ "running" \in States /\ w \in Rows
      /\ w.storage = "reserved"
  BY Events DEF RowOK, WellKept, States, Active
<1>2. /\ v.capture = "running" /\ v.storage = w.storage /\ SameBooks(w, v)
      /\ v.key = w.key /\ v.cause = w.cause
  BY <1>1, Journaled DEF SameBooks
<1> HIDE DEF v
<1>3. BooksOK(v) /\ FilesOK(v, d) /\ FileStep(w, d, v, d)
  <2>1. RowMoves(w, v, d)
    BY <1>1, <1>2 DEF RowMoves
  <2> QED BY <2>1, SameFiles DEF KeptOK
<1>4. Staging(v, d) = 0
  BY <1>1, <1>2, SameKept DEF KeptOK, WorkOK, SameBooks
<1>5. WorkOK(r, v, d, y)
  BY <1>1, <1>2, <1>4 DEF WorkOK, Active
<1> QED BY <1>3, <1>5 DEF KeptOK, v

\* open_segment: the ceiling of the segment is escrowed, so it fits beside
\* what is kept.
LEMMA OpenedKept ==
    ASSUME NEW r \in Recs, NEW w, NEW d, NEW x, NEW y, RowOK(r, w), KeptOK(r, w, d, x),
           CanOpen(w), w.escrow >= Ceiling, x.at = "asking",
           y.at = "reading", y.key = Len(w.ends) + 1
    PROVE  KeptOK(r, Opened(w), d, y) /\ FileStep(w, d, Opened(w), d)
<1> DEFINE v == Opened(w)
<1>1. w \in Rows /\ WellKept(r, w) /\ w.capture = "running" /\ w.storage = "reserved"
      /\ w.open = 0 /\ w.escrow \in Int
  BY DEF RowOK, CanOpen, Rows
<1>2. /\ v.key = Ahead(w) /\ v.capture = w.capture /\ v.storage = w.storage
      /\ SameBooks(w, v) /\ v.cause = w.cause
  BY <1>1, Zenon DEF Rows, Opened, Ahead, SameBooks
<1>3. RowOK(r, v) /\ v.open > 0
  <2>1. RowOK(r, v)
    BY OpenedOK
  <2>2. v.open = Ceiling
    BY <1>1, Zenon DEF Rows, Opened
  <2> QED BY <2>1, <2>2, RecordingsAssumption
<1> HIDE DEF v
<1>4. BooksOK(v) /\ FilesOK(v, d) /\ FileStep(w, d, v, d)
  <2>1. RowMoves(w, v, d)
    BY <1>1, <1>2 DEF RowMoves
  <2> QED BY <2>1, SameFiles DEF KeptOK
<1>5. /\ Staging(v, d) = 0 /\ Ahead(v) = Ahead(w) /\ Kept(v) = Kept(w) /\ v.charged = w.charged
      /\ v.ends = w.ends
  BY <1>1, <1>2, SameKept DEF KeptOK, WorkOK, SameBooks
<1>6. Ahead(v) \in Ordinals
  <2>1. v.key \in Ordinals \union {0} /\ Ahead(w) \in Nat /\ Ahead(w) > 0
    BY <1>3, RowTypes, SMTT(30) DEF RowOK, Rows, Ahead
  <2> QED BY <1>2, <1>5, <2>1
<1>7. Kept(v) + Ceiling <= v.charged
  <2>1. w.charged = w.maximum /\ w.escrow + Sealed(w) = w.maximum
    BY <1>1, RowTypes DEF WellKept
  <2>2. Kept(w) \in Nat /\ Kept(w) <= Sealed(w) /\ Sealed(w) \in Nat /\ Ceiling \in Nat
    BY KeptType, RowTypes, RecordingsAssumption DEF KeptOK
  <2> QED BY <1>1, <1>5, <2>1, <2>2
<1>8. WorkOK(r, v, d, y)
  BY <1>1, <1>2, <1>5, <1>6, <1>7 DEF WorkOK, Active, Ahead
<1> QED BY <1>4, <1>8 DEF KeptOK, v

\* release_open_segment: nothing was staged.
LEMMA WithdrawnKept ==
    ASSUME NEW r \in Recs, NEW w, NEW d, NEW x, NEW y, RowOK(r, w), KeptOK(r, w, d, x),
           w.capture = "running", w.open > 0, x.at = "reading", y.at \in {"done", "failed"},
           r \in Segmented
    PROVE  KeptOK(r, Withdrawn(w), d, y) /\ FileStep(w, d, Withdrawn(w), d)
<1> DEFINE v == Withdrawn(w)
<1>1. w \in Rows /\ w.storage = "reserved"
  BY DEF RowOK, WellKept, Active
<1>2. SameBooks(w, v) /\ v.capture = w.capture /\ v.storage = w.storage /\ v.cause = w.cause
  BY <1>1, Zenon DEF Rows, Withdrawn, SameBooks
<1> HIDE DEF v
<1>3. Staging(w, d) = 0
  BY <1>1 DEF KeptOK, WorkOK
<1>4. BooksOK(v) /\ FilesOK(v, d) /\ FileStep(w, d, v, d)
  <2>1. RowMoves(w, v, d)
    BY <1>1, <1>2, <1>3 DEF RowMoves
  <2> QED BY <2>1, SameFiles DEF KeptOK
<1>5. Staging(v, d) = 0
  BY <1>2, <1>3, SameKept DEF SameBooks
<1>6. WorkOK(r, v, d, y)
  BY <1>1, <1>2, <1>5 DEF WorkOK, Active
<1> QED BY <1>4, <1>6 DEF KeptOK, v

\* begin_delete
LEMMA DeletingKept ==
    ASSUME NEW r \in Recs, NEW w, NEW d, NEW x, RowOK(r, w), KeptOK(r, w, d, x),
           w.storage \in Filed
    PROVE  KeptOK(r, Deleting(w), d, x) /\ FileStep(w, d, Deleting(w), d)
<1> DEFINE v == Deleting(w)
<1>1. w \in Rows
  BY DEF RowOK
<1>2. /\ SameBooks(w, v) /\ v.storage = "deleting" /\ v.key = w.key
      /\ v.cause = w.cause /\ v.capture = w.capture
  BY <1>1, Zenon DEF Rows, Deleting, SameBooks
<1> HIDE DEF v
<1>3. BooksOK(v) /\ FilesOK(v, d) /\ FileStep(w, d, v, d)
  <2>1. RowMoves(w, v, d)
    BY <1>2 DEF RowMoves, Filed
  <2> QED BY <2>1, SameFiles DEF KeptOK
<1>4. WorkOK(r, v, d, x)
  <2>1. WorkOK(r, w, d, x)
    BY DEF KeptOK
  <2> QED BY <1>2, <2>1, SameWork
<1> QED BY <1>3, <1>4 DEF KeptOK, v

\* finish_delete: the row forgets its files.  A worker that has still to
\* learn of it has a cause in the row.
LEMMA DeletedKept ==
    ASSUME NEW r \in Recs, NEW w, NEW d, NEW x, RowOK(r, w), KeptOK(r, w, d, x),
           w.capture \notin Active,
           w.cause = "none" => \A n \in Ordinals : d[n] = 0
    PROVE  KeptOK(r, Deleted(w), d, x) /\ FileStep(w, d, Deleted(w), d)
<1> DEFINE z == [NoRow EXCEPT !.capture = w.capture, !.version = w.version,
                              !.storage = "deleted", !.cause = w.cause]
           v == Deleted(w)
<1>1. /\ w.capture \in States /\ w.version \in Versions /\ w.cause \in Causes
      /\ "deleted" \in {"none", "reserved", "retained", "deleting", "deleted"}
      /\ NoRow \in Rows
  BY NoRowOK DEF RowOK, Rows
<1>2. z \in Rows /\ z.storage = "deleted" /\ z.cause = w.cause /\ z.capture = w.capture
      /\ z.charged = NoRow.charged /\ z.ends = NoRow.ends /\ z.released = NoRow.released
      /\ z.freed = NoRow.freed
  BY <1>1, Zenon DEF Rows
<1>3. /\ NoRow.ends = <<>> /\ NoRow.charged = 0 /\ NoRow.released = {} /\ NoRow.freed = 0
  BY DEF NoRow
<1>4. v = IF w.capture \in {"scheduled", "interrupted"} THEN Journal(z, "cancel") ELSE z
  BY Zenon DEF Deleted
<1> HIDE DEF z, v
<1>5. /\ v.storage = "deleted" /\ v.cause = w.cause /\ v.charged = 0 /\ v.ends = <<>>
      /\ v.released = {} /\ v.freed = 0
  <2>1. CASE w.capture \in {"scheduled", "interrupted"}
    <3>1. After(z.capture, "cancel") \in States
      BY <1>2, <2>1, Events DEF States, Active, Live
    <3>2. LET y == Journal(z, "cancel") IN
          /\ y.storage = z.storage /\ y.cause = z.cause /\ y.charged = z.charged
          /\ y.ends = z.ends /\ y.released = z.released /\ y.freed = z.freed
      BY <1>2, <3>1, Journaled
    <3> QED BY <1>2, <1>3, <1>4, <2>1, <3>2
  <2>2. CASE w.capture \notin {"scheduled", "interrupted"}
    BY <1>2, <1>3, <1>4, <2>2
  <2> QED BY <2>1, <2>2
<1>6. Segments(v) = {} /\ Unfreed(v) = {} /\ Sealed(v) = 0
  BY <1>5 DEF Segments, Unfreed, Sealed
<1>7. Kept(v) = 0
  BY <1>6, TotalEmpty DEF Kept
<1>8. BooksOK(v)
  BY <1>5, <1>6, <1>7 DEF BooksOK
<1>9. FilesOK(v, d)
  BY <1>5 DEF FilesOK, Filed
<1>10. WorkOK(r, v, d, x)
  BY <1>5 DEF WorkOK, KeptOK
<1>11. FileStep(w, d, v, d)
  BY <1>5 DEF FileStep, TornOf, OnShelf, KeptOK, BooksOK
<1> QED BY <1>8, <1>9, <1>10, <1>11 DEF KeptOK, v

\* admit_recording: nothing was there, and the worker has the whole charge.
LEMMA AdmittedKept ==
    ASSUME NEW r \in Recs, NEW d, NEW y, \A n \in Ordinals : d[n] = 0,
           \/ y.at = "none"
           \/ y.at = "connecting" /\ r \in Segmented
           \/ y.at = "receiving" /\ r \notin Segmented
    PROVE  /\ KeptOK(r, Admitted(Maximum[r]), d, y)
           /\ Admitted(Maximum[r]).charged = Maximum[r]
           /\ TornOf(Admitted(Maximum[r]), d) = {}
<1> DEFINE w == [NoRow EXCEPT !.storage = "reserved", !.maximum = Maximum[r],
                              !.charged = Maximum[r], !.escrow = Maximum[r]]
           v == Journal(w, "start")
<1>1. NoRow \in Rows /\ Maximum[r] \in Nat /\ Maximum[r] \in Int
  BY NoRowOK, DvrAssumption, RecordingsAssumption DEF RowOK
<1>2. w \in Rows
  <2>1. "reserved" \in {"none", "reserved", "retained", "deleting", "deleted"}
    OBVIOUS
  <2> QED BY <1>1, <2>1, Zenon DEF Rows
<1>3. /\ w.storage = "reserved" /\ w.charged = Maximum[r] /\ w.capture = NoRow.capture
      /\ w.ends = NoRow.ends /\ w.released = NoRow.released /\ w.freed = NoRow.freed
      /\ w.cause = NoRow.cause
  BY <1>1, Zenon DEF Rows
<1>4. /\ NoRow.capture = "scheduled" /\ NoRow.ends = <<>> /\ NoRow.released = {}
      /\ NoRow.freed = 0 /\ NoRow.cause = "none"
  BY DEF NoRow
<1> HIDE DEF w
<1>5. After(w.capture, "start") = "starting" /\ "starting" \in States
  BY <1>3, <1>4, Events DEF States
<1>6. /\ v.capture = "starting" /\ v.storage = "reserved" /\ v.charged = Maximum[r]
      /\ v.ends = <<>> /\ v.released = {} /\ v.freed = 0 /\ v.cause = "none"
  BY <1>2, <1>3, <1>4, <1>5, Journaled
<1>7. v = Admitted(Maximum[r])
  BY DEF Admitted, w
<1> HIDE DEF v
<1>8. Segments(v) = {} /\ Unfreed(v) = {} /\ Sealed(v) = 0 /\ Ahead(v) = 1
  BY <1>6 DEF Segments, Unfreed, Sealed, Ahead
<1>9. Kept(v) = 0 /\ Staging(v, d) = 0
  BY <1>8, TotalEmpty DEF Kept, Staging
<1>10. BooksOK(v)
  BY <1>1, <1>6, <1>8, <1>9 DEF BooksOK
<1>11. FilesOK(v, d)
  BY <1>1, <1>6, <1>8, <1>9 DEF FilesOK
<1>12. WorkOK(r, v, d, y)
  BY <1>1, <1>6, <1>9 DEF WorkOK, Active
<1>13. TornOf(v, d) = {}
  BY <1>8 DEF TornOf
<1> QED BY <1>6, <1>7, <1>10, <1>11, <1>12, <1>13 DEF KeptOK

\* seal_segment: what was staged becomes the last segment.
LEMMA SealedKept ==
    ASSUME NEW r \in Recs, NEW w, NEW d \in Disks, NEW x, NEW y, RowOK(r, w),
           KeptOK(r, w, d, x), CanSeal(w, x.bytes), x.at = "staged", y.at = "cut"
    PROVE  LET v == SealedWith(w, x.bytes) IN KeptOK(r, v, d, y) /\ FileStep(w, d, v, d)
<1> DEFINE n0 == Ahead(w)
           bytes == x.bytes
           more == Append(w.ends, Sealed(w) + bytes)
           rest == w.escrow + w.open - bytes
           v == SealedWith(w, bytes)
<1>1. /\ w \in Rows /\ w.storage = "reserved" /\ w.capture = "running"
      /\ w.ends \in Seq(Nat) /\ Len(w.ends) \in Nat /\ Sealed(w) \in Nat
      /\ Segments(w) = 1 .. Len(w.ends) /\ n0 = Len(w.ends) + 1
  BY RowTypes DEF CanSeal, Ahead
<1>2. bytes > 0 /\ n0 \in Ordinals /\ d[n0] = bytes /\ bytes \in Nat
  <2>1. Staging(w, d) = bytes /\ bytes > 0
    BY <1>1 DEF KeptOK, WorkOK
  <2>2. n0 \in Ordinals
    BY <2>1 DEF Staging
  <2> QED BY <2>1, <2>2 DEF Staging, Disks
<1>3. /\ more \in Seq(Nat) /\ Len(more) = n0 /\ more[n0] = Sealed(w) + bytes
      /\ \A i \in 1 .. Len(w.ends) : more[i] = w.ends[i]
      /\ DOMAIN more = 1 .. n0 /\ more # <<>>
  BY <1>1, <1>2, SMTT(30)
<1>4. /\ v.ends = more /\ v.charged = w.charged /\ v.released = w.released
      /\ v.freed = w.freed /\ v.storage = w.storage /\ v.cause = w.cause
      /\ v.capture = w.capture
  <2>1. v = [w EXCEPT !.ends = more, !.escrow = rest, !.open = 0, !.key = 0]
    BY <1>1, Zenon DEF SealedWith, Rows
  <2> HIDE DEF more, rest, v
  <2> QED BY <1>1, <2>1, Zenon DEF Rows
<1> HIDE DEF more, v, n0, bytes
<1>5. /\ Segments(v) = Segments(w) \union {n0} /\ n0 \notin Segments(w) /\ Ahead(v) = n0 + 1
      /\ Unfreed(v) = Unfreed(w) \union {n0} /\ n0 \notin Unfreed(w)
      /\ Unfreed(w) \subseteq Segments(w)
  <2>1. w.released \subseteq Segments(w)
    BY DEF KeptOK, BooksOK
  <2>2. Segments(v) = Segments(w) \union {n0} /\ n0 \notin Segments(w)
    BY <1>1, <1>3, <1>4 DEF Segments
  <2>3. Ahead(v) = n0 + 1
    BY <1>3, <1>4 DEF Ahead
  <2> QED BY <1>4, <2>1, <2>2, <2>3 DEF Unfreed
<1>6. Sealed(v) = Sealed(w) + bytes
  BY <1>3, <1>4 DEF Sealed
<1>7. (\A n \in Segments(w) : Length(v, n) = Length(w, n)) /\ Length(v, n0) = bytes
  <2>1. ASSUME NEW n \in Segments(w) PROVE Length(v, n) = Length(w, n)
    <3>1. n = 1 \/ n - 1 \in 1 .. Len(w.ends)
      BY <1>1
    <3> QED BY <1>1, <1>3, <1>4, <3>1 DEF Length
  <2>2. CASE w.ends = <<>>
    <3>1. n0 = 1 /\ Sealed(w) = 0
      BY <1>1, <2>2 DEF Sealed
    <3> QED BY <1>2, <1>3, <1>4, <2>1, <3>1 DEF Length
  <2>3. CASE w.ends # <<>>
    <3>1. Len(w.ends) \in 1 .. Len(w.ends) /\ n0 # 1 /\ n0 - 1 = Len(w.ends)
      BY <1>1, <2>3
    <3>2. more[n0 - 1] = Sealed(w)
      BY <1>3, <2>3, <3>1 DEF Sealed
    <3> QED BY <1>1, <1>2, <1>3, <1>4, <2>1, <3>1, <3>2 DEF Length
  <2> QED BY <2>1, <2>2, <2>3
<1>8. Kept(v) = Kept(w) + bytes /\ Kept(w) \in Nat
  <2>1. \A n \in Unfreed(w) : Lengths(v)[n] = Lengths(w)[n] /\ Lengths(w)[n] \in Nat
    BY <1>5, <1>7 DEF Lengths, KeptOK, BooksOK
  <2>2. Lengths(v)[n0] = bytes
    BY <1>5, <1>7 DEF Lengths
  <2>3. IsFiniteSet(Unfreed(w)) /\ IsFiniteSet(Unfreed(v))
    BY <1>5, RowTypes, FS_AddElement
  <2>4. Total(Lengths(v), Unfreed(v)) = Lengths(v)[n0] + Total(Lengths(v), Unfreed(v) \ {n0})
    BY <1>2, <1>5, <2>1, <2>2, <2>3, TotalRemoves
  <2>5. Unfreed(v) \ {n0} = Unfreed(w)
    BY <1>5
  <2>6. Total(Lengths(v), Unfreed(w)) = Total(Lengths(w), Unfreed(w))
    BY <2>1, <2>3, TotalAgrees
  <2>7. Kept(w) \in Nat
    BY KeptType DEF KeptOK
  <2> QED BY <1>2, <2>2, <2>4, <2>5, <2>6, <2>7 DEF Kept
<1>9. BooksOK(v)
  BY <1>1, <1>2, <1>4, <1>5, <1>6, <1>7, <1>8 DEF KeptOK, BooksOK
<1>10. Staging(v, d) = 0
  <2>1. ASSUME n0 + 1 \in Ordinals PROVE d[n0 + 1] = 0
    <3>1. n0 + 1 > Ahead(w)
      BY <1>1 DEF n0
    <3> QED BY <1>1, <2>1, <3>1 DEF KeptOK, FilesOK, Filed
  <2> QED BY <1>5, <2>1 DEF Staging
<1>11. FilesOK(v, d)
  <2>1. \A n \in Unfreed(v) : d[n] <= Length(v, n)
    BY <1>1, <1>2, <1>5, <1>7 DEF KeptOK, FilesOK, Filed
  <2>2. \A n \in Ordinals : n \in v.released \/ n > Ahead(v) => d[n] = 0
    <3>1. \A n \in Ordinals : n > n0 + 1 => n > n0
      BY <1>1, RecordingsAssumption DEF Ordinals
    <3> QED BY <1>1, <1>4, <1>5, <3>1 DEF KeptOK, FilesOK, Filed, n0
  <2>3. Kept(v) + Staging(v, d) <= v.charged
    <3>1. Kept(w) + Staging(w, d) <= w.charged /\ Staging(w, d) = bytes
      BY <1>1, <1>2 DEF KeptOK, FilesOK, Filed, Staging, n0
    <3> QED BY <1>2, <1>4, <1>8, <1>10, <3>1
  <2> QED BY <1>1, <1>4, <1>10, <2>1, <2>2, <2>3 DEF FilesOK
<1>12. WorkOK(r, v, d, y)
  BY <1>1, <1>4, <1>10 DEF WorkOK, Active
<1>13. FileStep(w, d, v, d)
  BY <1>1, <1>2, <1>4, <1>5 DEF FileStep, TornOf, OnShelf, KeptOK, BooksOK
<1> QED BY <1>9, <1>11, <1>12, <1>13 DEF KeptOK, v, bytes

\* The row a publication leaves.
LEMMA PublishedRow ==
    ASSUME NEW w \in Rows, w.capture \in {"starting", "running"}, NEW charge \in Int
    PROVE  LET v == Published(w, charge) IN
           /\ v.storage = "retained" /\ v.charged = charge /\ v.ends = w.ends
           /\ v.released = w.released /\ v.freed = w.freed /\ v.cause = w.cause
<1> DEFINE x == [w EXCEPT !.storage = "retained", !.charged = charge, !.media = charge,
                          !.escrow = 0, !.open = 0, !.key = 0]
           z == Journal(x, "stop")
           v == Journal(z, "finalized")
<1>1. /\ 0 \in Nat /\ 0 \in Int /\ 0 \in Ordinals \union {0}
      /\ "retained" \in {"none", "reserved", "retained", "deleting", "deleted"}
  OBVIOUS
<1>2. x \in Rows
  BY <1>1, Zenon DEF Rows
<1>3. /\ x.storage = "retained" /\ x.charged = charge /\ x.capture = w.capture
      /\ x.ends = w.ends /\ x.released = w.released /\ x.freed = w.freed /\ x.cause = w.cause
  BY <1>1, Zenon DEF Rows
<1> HIDE DEF x
<1>4. After(x.capture, "stop") = "stopping" /\ {"stopping", "completed"} \subseteq States
  BY <1>3, Events DEF States, Active, Live
<1>5. /\ z \in Rows /\ z.capture = "stopping" /\ z.storage = "retained" /\ z.charged = charge
      /\ z.ends = w.ends /\ z.released = w.released /\ z.freed = w.freed /\ z.cause = w.cause
  BY <1>2, <1>3, <1>4, Journaled
<1> HIDE DEF z
<1>6. After(z.capture, "finalized") = "completed"
  BY <1>5, Events
<1>7. /\ v.storage = "retained" /\ v.charged = charge
      /\ v.ends = w.ends /\ v.released = w.released /\ v.freed = w.freed /\ v.cause = w.cause
  BY <1>4, <1>5, <1>6, Journaled
<1> QED BY <1>7 DEF Published, v, z, x

\* complete_segments: no file is staged, so what is charged is what is kept.
LEMMA CompletedKept ==
    ASSUME NEW r \in Recs, NEW w, NEW d, NEW x, NEW y, RowOK(r, w), KeptOK(r, w, d, x),
           CanComplete(w), x.at = "done", r \in Segmented, y.at = "none"
    PROVE  KeptOK(r, Completed(w), d, y) /\ FileStep(w, d, Completed(w), d)
<1> DEFINE v == Completed(w)
<1>1. w \in Rows /\ w.storage = "reserved" /\ Unreleased(w) \in Int
  BY SealedType DEF RowOK, CanComplete
<1>2. /\ v.storage = "retained" /\ v.charged = Unreleased(w) /\ v.ends = w.ends
      /\ v.released = w.released /\ v.freed = w.freed /\ v.cause = w.cause
  BY <1>1, PublishedRow DEF CanComplete, Completed
<1> HIDE DEF v
<1>3. /\ Segments(v) = Segments(w) /\ Unfreed(v) = Unfreed(w) /\ Ahead(v) = Ahead(w)
      /\ Sealed(v) = Sealed(w) /\ \A n : Length(v, n) = Length(w, n)
      /\ Kept(v) = Kept(w) /\ Staging(v, d) = Staging(w, d)
  BY <1>2, SameKept
<1>4. Staging(w, d) = 0 /\ Kept(w) \in Nat /\ v.charged = Kept(w)
  <2>1. Staging(w, d) = 0
    BY <1>1 DEF KeptOK, WorkOK
  <2>2. Kept(w) \in Nat /\ Kept(w) + w.freed = Sealed(w) /\ w.freed \in Nat
    BY KeptType DEF KeptOK, BooksOK
  <2> QED BY <1>2, <2>1, <2>2 DEF Unreleased
<1>5. BooksOK(v)
  BY <1>2, <1>3, <1>4 DEF KeptOK, BooksOK
<1>6. FilesOK(v, d)
  BY <1>1, <1>2, <1>3, <1>4 DEF KeptOK, FilesOK, Filed
<1>7. FileStep(w, d, v, d)
  BY <1>1, <1>2, <1>3, <1>4 DEF FileStep, TornOf, OnShelf, KeptOK, FilesOK, Filed
<1> QED BY <1>5, <1>6, <1>7, StoppedWork DEF KeptOK, v

\* publish_recording: one file, received whole.
LEMMA WholeKept ==
    ASSUME NEW r \in Recs, NEW w, NEW d \in Disks, NEW x, NEW y, RowOK(r, w),
           KeptOK(r, w, d, x), CanPublish(w, x.bytes), x.at = "done", r \notin Segmented,
           y.at = "none"
    PROVE  LET v == PublishedWhole(w, x.bytes) IN KeptOK(r, v, d, y) /\ FileStep(w, d, v, d)
<1> DEFINE bytes == x.bytes
           z == [w EXCEPT !.ends = <<bytes>>]
           v == Published(z, bytes)
<1>1. /\ w \in Rows /\ w.ends = <<>> /\ w.freed = 0 /\ w.storage = "reserved"
      /\ w.capture = "starting" /\ w.released = {} /\ w.charged \in Nat /\ bytes <= w.charged
  BY DEF RowOK, WellKept, CanPublish, KeptOK, BooksOK
<1>2. d[1] = bytes /\ bytes > 0 /\ 1 \in Ordinals /\ bytes \in Nat
  <2>1. d[1] = bytes /\ bytes > 0
    BY <1>1 DEF KeptOK, WorkOK
  <2>2. 1 \in Ordinals
    BY RecordingsAssumption DEF Ordinals
  <2> QED BY <2>1, <2>2 DEF Disks
<1>3. <<bytes>> \in Seq(Nat) /\ Len(<<bytes>>) = 1 /\ <<bytes>> # <<>> /\ <<bytes>>[1] = bytes
      /\ DOMAIN <<bytes>> = {1}
  BY <1>2
<1>4. /\ z \in Rows /\ z.ends = <<bytes>> /\ z.freed = w.freed /\ z.capture = w.capture
      /\ z.released = w.released /\ z.cause = w.cause
  BY <1>1, <1>3, Zenon DEF Rows
<1> HIDE DEF z
<1>5. /\ v.storage = "retained" /\ v.charged = bytes /\ v.ends = <<bytes>>
      /\ v.released = {} /\ v.freed = 0 /\ v.cause = w.cause
  BY <1>1, <1>2, <1>4, PublishedRow
<1> HIDE DEF v, bytes
<1>6. /\ Segments(v) = {1} /\ Unfreed(v) = {1} /\ Ahead(v) = 2 /\ Sealed(v) = bytes
      /\ Length(v, 1) = bytes /\ Ahead(w) = 1
  BY <1>1, <1>2, <1>3, <1>5 DEF Segments, Unfreed, Ahead, Sealed, Length
<1>7. Kept(v) = bytes
  <2>1. Lengths(v)[1] = bytes
    BY <1>6 DEF Lengths
  <2>2. IsFiniteSet({1}) /\ {1} \ {1} = {}
    BY FS_Singleton
  <2>3. Total(Lengths(v), {1}) = Lengths(v)[1] + Total(Lengths(v), {1} \ {1})
    BY <1>2, <2>1, <2>2, TotalRemoves
  <2>4. Total(Lengths(v), {1} \ {1}) = 0
    BY <2>2, TotalEmpty
  <2> QED BY <1>2, <1>6, <2>1, <2>3, <2>4 DEF Kept
<1>8. BooksOK(v)
  BY <1>2, <1>5, <1>6, <1>7 DEF BooksOK
<1>9. \A n \in Ordinals : n > 1 => d[n] = 0
  BY <1>1, <1>6 DEF KeptOK, FilesOK, Filed
<1>10. Staging(v, d) = 0
  BY <1>6, <1>9 DEF Staging
<1>11. FilesOK(v, d)
  <2>1. \A n \in Ordinals : n > 2 => n > 1
    BY RecordingsAssumption DEF Ordinals
  <2> QED BY <1>2, <1>5, <1>6, <1>7, <1>9, <1>10, <2>1 DEF FilesOK
<1>12. FileStep(w, d, v, d)
  BY <1>1, <1>2, <1>5, <1>6 DEF FileStep, TornOf, bytes
<1> QED BY <1>8, <1>11, <1>12, StoppedWork DEF KeptOK, PublishedWhole, v, z, bytes

\* mark_segment_released: its file is gone already.
LEMMA ReleasedKept ==
    ASSUME NEW r \in Recs, NEW w, NEW d \in Disks, NEW x, RowOK(r, w), KeptOK(r, w, d, x),
           OnShelf(w), NEW n \in Unfreed(w), d[n] = 0
    PROVE  LET v == Released(w, n) IN KeptOK(r, v, d, x) /\ FileStep(w, d, v, d)
<1> DEFINE freed == IF w.storage = "retained" THEN Length(w, n) ELSE 0
           gone == w.released \union {n}
           total == w.freed + Length(w, n)
           charge == w.charged - freed
           media == w.media - freed
           v == [w EXCEPT !.released = gone, !.freed = total, !.charged = charge, !.media = media]
<1>1. /\ w \in Rows /\ n \in Segments(w) /\ n \notin w.released /\ Length(w, n) \in Nat
      /\ w.freed \in Nat /\ w.charged \in Nat /\ Segments(w) \subseteq Ordinals
      /\ w.released \subseteq Segments(w)
  BY RowTypes DEF Unfreed, KeptOK, BooksOK
<1>2. v = Released(w, n)
  BY <1>1, Zenon DEF Released, Rows
<1>3. /\ total = w.freed + Length(w, n) /\ gone = w.released \union {n}
      /\ w.storage = "retained" => charge = w.charged - Length(w, n)
      /\ w.storage = "reserved" => charge = w.charged
  BY <1>1
<1> HIDE DEF gone, total, charge, media, freed
<1>4. /\ v.released = gone /\ v.freed = total /\ v.charged = charge
      /\ v.storage = w.storage /\ v.capture = w.capture /\ v.key = w.key
      /\ v.ends = w.ends /\ v.cause = w.cause
  BY <1>1, Zenon DEF Rows
<1> HIDE DEF v
<1>5. /\ Segments(v) = Segments(w) /\ Ahead(v) = Ahead(w) /\ Sealed(v) = Sealed(w)
      /\ (\A m : Length(v, m) = Length(w, m)) /\ Staging(v, d) = Staging(w, d)
      /\ Lengths(v) = Lengths(w)
  BY <1>4 DEF Segments, Ahead, Sealed, Length, Staging, Lengths
<1>6. Unfreed(v) = Unfreed(w) \ {n}
  BY <1>3, <1>4, <1>5 DEF Unfreed
<1>7. Kept(w) = Length(w, n) + Kept(v) /\ Kept(w) \in Nat /\ Kept(v) \in Nat
  <2>1. \A m \in Unfreed(w) : Lengths(w)[m] \in Nat
    BY DEF KeptOK, BooksOK, Lengths, Unfreed
  <2>2. IsFiniteSet(Unfreed(w)) /\ IsFiniteSet(Unfreed(w) \ {n})
    BY RowTypes, FS_Subset
  <2>3. Total(Lengths(w), Unfreed(w)) = Lengths(w)[n] + Total(Lengths(w), Unfreed(w) \ {n})
    BY <2>1, <2>2, TotalRemoves
  <2>4. Total(Lengths(w), Unfreed(w)) \in Nat /\ Total(Lengths(w), Unfreed(w) \ {n}) \in Nat
    BY <2>1, <2>2, TotalRemoves
  <2>5. Lengths(w)[n] = Length(w, n)
    BY <1>1 DEF Lengths
  <2> QED BY <1>5, <1>6, <2>3, <2>4, <2>5 DEF Kept
<1>8. w.storage = "retained" => w.charged >= Kept(w)
  <2> SUFFICES ASSUME w.storage = "retained" PROVE w.charged >= Kept(w)
    OBVIOUS
  <2>1. w.charged = Sealed(w) - w.freed
    BY DEF RowOK, WellKept, Unreleased
  <2>2. Kept(w) + w.freed = Sealed(w) /\ Sealed(w) \in Nat
    BY RowTypes DEF KeptOK, BooksOK
  <2> QED BY <1>1, <1>7, <2>1, <2>2
<1>9. charge \in Nat /\ charge <= w.charged
  BY <1>1, <1>3, <1>7, <1>8 DEF OnShelf
<1>10. BooksOK(v)
  <2>1. Kept(v) + v.freed = Sealed(v)
    <3>1. Kept(w) + w.freed = Sealed(w)
      BY DEF KeptOK, BooksOK
    <3> QED BY <1>1, <1>3, <1>4, <1>5, <1>7, <3>1
  <2>2. v.released \subseteq Segments(v) /\ v.freed \in Nat
    BY <1>1, <1>3, <1>4, <1>5
  <2> QED BY <1>4, <1>5, <1>9, <2>1, <2>2 DEF KeptOK, BooksOK
<1>11. FilesOK(v, d)
  <2>1. w.storage \in Filed /\ v.storage \notin {"none", "deleted"}
    BY <1>4 DEF OnShelf, Filed
  <2>2. \A m \in Unfreed(v) : d[m] <= Length(v, m)
    BY <1>5, <1>6, <2>1 DEF KeptOK, FilesOK
  <2>3. \A m \in Ordinals : m \in v.released \/ m > Ahead(v) => d[m] = 0
    BY <1>3, <1>4, <1>5, <2>1 DEF KeptOK, FilesOK
  <2>4. Kept(v) + Staging(v, d) <= v.charged
    <3>1. Kept(w) + Staging(w, d) <= w.charged /\ Staging(w, d) \in Nat
      BY <2>1 DEF KeptOK, FilesOK, Staging, Disks
    <3> QED BY <1>1, <1>3, <1>4, <1>5, <1>7, <3>1 DEF OnShelf
  <2> QED BY <1>4, <1>5, <2>1, <2>2, <2>3, <2>4 DEF KeptOK, FilesOK
<1>12. WorkOK(r, v, d, x)
  <2>1. x.at # "none" => w.storage = "reserved"
    BY DEF KeptOK, WorkOK, OnShelf
  <2>2. x.at # "none" => v.charged = w.charged
    BY <1>3, <1>4, <2>1
  <2>3. x.at = "reading" => Kept(v) + Ceiling <= v.charged
    <3> SUFFICES ASSUME x.at = "reading" PROVE Kept(v) + Ceiling <= v.charged
      OBVIOUS
    <3>1. Kept(w) + Ceiling <= w.charged
      BY <2>1 DEF KeptOK, WorkOK
    <3> QED BY <1>1, <1>7, <2>2, <3>1, RecordingsAssumption
  <2> QED BY <1>4, <1>5, <2>1, <2>2, <2>3 DEF KeptOK, WorkOK
<1>13. FileStep(w, d, v, d)
  BY <1>4, <1>6, <1>9 DEF FileStep, TornOf, OnShelf
<1> QED BY <1>2, <1>10, <1>11, <1>12, <1>13 DEF KeptOK

\* ------------------------------------------------------ steps of the files --

Put(d, n, bytes) == [d EXCEPT ![n] = bytes]

LEMMA PutTypes ==
    ASSUME NEW d \in Disks, NEW n \in Ordinals, NEW bytes \in Nat
    PROVE  /\ Put(d, n, bytes) \in Disks /\ Put(d, n, bytes)[n] = bytes
           /\ \A m \in Ordinals : m # n => Put(d, n, bytes)[m] = d[m]
BY DEF Put, Disks

\* A removal makes room.  The file staged by a worker is not removed while
\* the worker may seal it.
LEMMA ErasedKept ==
    ASSUME NEW r \in Recs, NEW w, NEW d \in Disks, NEW x, NEW n \in Ordinals, RowOK(r, w),
           KeptOK(r, w, d, x), w.storage \in Filed,
           w.storage # "deleting" => n \in Segments(w)
    PROVE  KeptOK(r, w, Put(d, n, 0), x)
<1> DEFINE e == Put(d, n, 0)
<1>1. e \in Disks /\ e[n] = 0 /\ \A m \in Ordinals : m # n => e[m] = d[m]
  BY PutTypes
<1> HIDE DEF e
<1>2. \A m \in Ordinals : e[m] \in Nat /\ d[m] \in Nat /\ e[m] <= d[m] /\ (d[m] = 0 => e[m] = 0)
  BY <1>1 DEF Disks
<1>3. /\ Staging(w, e) <= Staging(w, d) /\ Staging(w, e) \in Nat /\ Staging(w, d) \in Nat
      /\ Staging(w, d) = 0 => Staging(w, e) = 0
  BY <1>2 DEF Staging
<1>4. w.storage # "deleting" => Staging(w, e) = Staging(w, d)
  <2>1. Ahead(w) \notin Segments(w)
    BY RowTypes
  <2> QED BY <1>1, <2>1 DEF Staging
<1>5. FilesOK(w, e)
  <2>1. \A m \in Unfreed(w) : e[m] <= Length(w, m)
    <3> SUFFICES ASSUME NEW m \in Unfreed(w) PROVE e[m] <= Length(w, m)
      OBVIOUS
    <3>1. m \in Ordinals /\ Length(w, m) \in Nat /\ d[m] <= Length(w, m)
      BY RowTypes DEF KeptOK, FilesOK, BooksOK, Unfreed
    <3> QED BY <1>2, <3>1
  <2>2. \A m \in Ordinals : m \in w.released \/ m > Ahead(w) => e[m] = 0
    BY <1>2 DEF KeptOK, FilesOK
  <2>3. Kept(w) + Staging(w, e) <= w.charged
    <3>1. Kept(w) + Staging(w, d) <= w.charged /\ Kept(w) \in Nat /\ w.charged \in Nat
      BY KeptType DEF KeptOK, FilesOK, BooksOK
    <3> QED BY <1>3, <3>1
  <2> QED BY <1>3, <2>1, <2>2, <2>3 DEF KeptOK, FilesOK, Filed
<1>6. WorkOK(r, w, e, x)
  <2>1. w.storage = "reserved" /\ x.at \in {"received", "done"} /\ r \notin Segmented =>
           w.ends = <<>> /\ e[1] = x.bytes
    <3>1. w.storage = "reserved" => w.ends # <<>>
      BY DEF Segments
    <3> QED BY <3>1 DEF KeptOK, WorkOK
  <2> QED BY <1>3, <1>4, <2>1 DEF KeptOK, WorkOK
<1> QED BY <1>5, <1>6 DEF KeptOK, e

\* read_segment: the file is new, and it has room in the charge.
LEMMA StagedKept ==
    ASSUME NEW r \in Recs, NEW w, NEW d \in Disks, NEW x, NEW y, NEW bytes \in 1 .. Ceiling,
           RowOK(r, w), KeptOK(r, w, d, x), x.at = "reading", w.storage # "deleted",
           y.at = "staged", y.bytes = bytes
    PROVE  LET e == Put(d, x.key, bytes) IN
           /\ KeptOK(r, w, e, y) /\ FileStep(w, d, w, e)
           /\ x.key \in Ordinals \ Segments(w) /\ e \in Disks
<1> DEFINE n == x.key
           e == Put(d, n, bytes)
<1>1. /\ w.storage \in {"reserved", "deleting"} /\ n = Ahead(w) /\ n \in Ordinals
      /\ Kept(w) + Ceiling <= w.charged /\ (w.cause = "none" => w.key = Ahead(w))
      /\ w.cause = "none" => w.capture \in Active
  BY DEF KeptOK, WorkOK
<1>2. bytes \in Nat /\ bytes > 0 /\ bytes <= Ceiling /\ Ceiling \in Nat
  BY RecordingsAssumption
<1>3. e \in Disks /\ e[n] = bytes /\ \A m \in Ordinals : m # n => e[m] = d[m]
  BY <1>1, <1>2, PutTypes
<1>4. n \notin Segments(w) /\ Segments(w) \subseteq Ordinals /\ n \in Nat
  BY <1>1, RowTypes
<1> HIDE DEF e
<1>5. Staging(w, e) = bytes
  BY <1>1, <1>3 DEF Staging
<1>6. FilesOK(w, e)
  <2>1. \A m \in Unfreed(w) : e[m] <= Length(w, m)
    BY <1>1, <1>3, <1>4 DEF KeptOK, FilesOK, Filed, Unfreed
  <2>2. \A m \in Ordinals : m \in w.released \/ m > Ahead(w) => e[m] = 0
    <3> SUFFICES ASSUME NEW m \in Ordinals, m \in w.released \/ m > Ahead(w) PROVE e[m] = 0
      OBVIOUS
    <3>1. m # n
      BY <1>1, <1>4 DEF KeptOK, BooksOK
    <3> QED BY <1>1, <1>3, <3>1 DEF KeptOK, FilesOK, Filed
  <2>3. Kept(w) + Staging(w, e) <= w.charged
    <3>1. Kept(w) \in Nat /\ w.charged \in Nat
      BY KeptType DEF KeptOK, BooksOK
    <3> QED BY <1>1, <1>2, <1>5, <3>1
  <2> QED BY <1>1, <2>1, <2>2, <2>3 DEF FilesOK
<1>7. WorkOK(r, w, e, y)
  BY <1>1, <1>2, <1>5 DEF WorkOK
<1>8. FileStep(w, d, w, e)
  <2>1. w.charged \in Nat
    BY DEF KeptOK, BooksOK
  <2> QED BY <1>3, <1>4, <2>1 DEF FileStep, TornOf, Unfreed
<1> QED BY <1>1, <1>3, <1>4, <1>6, <1>7, <1>8 DEF KeptOK, e

\* single_file: the one file may take the whole charge.
LEMMA ReceivedKept ==
    ASSUME NEW r \in Recs, NEW w, NEW d \in Disks, NEW x, NEW y, NEW bytes \in 1 .. Maximum[r],
           RowOK(r, w), KeptOK(r, w, d, x), x.at = "receiving", w.storage # "deleted",
           y.at = "received", y.bytes = bytes
    PROVE  LET e == Put(d, 1, bytes) IN
           KeptOK(r, w, e, y) /\ FileStep(w, d, w, e) /\ Segments(w) = {} /\ e \in Disks
<1> DEFINE e == Put(d, 1, bytes)
<1>1. /\ w.storage \in {"reserved", "deleting"} /\ w.ends = <<>> /\ Maximum[r] <= w.charged
      /\ r \notin Segmented /\ (w.cause = "none" => w.capture \in Active)
  BY DEF KeptOK, WorkOK
<1>2. /\ bytes \in Nat /\ bytes > 0 /\ bytes <= Maximum[r] /\ Maximum[r] \in Nat
      /\ 1 \in Ordinals
  BY DvrAssumption, RecordingsAssumption DEF Ordinals
<1>3. e \in Disks /\ e[1] = bytes /\ \A m \in Ordinals : m # 1 => e[m] = d[m]
  BY <1>2, PutTypes
<1> HIDE DEF e
<1>4. Segments(w) = {} /\ Unfreed(w) = {} /\ Ahead(w) = 1 /\ w.released = {}
  BY <1>1 DEF Segments, Unfreed, Ahead, KeptOK, BooksOK
<1>5. Staging(w, e) = bytes /\ Kept(w) = 0
  BY <1>2, <1>3, <1>4, TotalEmpty DEF Staging, Kept
<1>6. FilesOK(w, e)
  <2>1. \A m \in Ordinals : m > 1 => e[m] = 0
    BY <1>1, <1>3, <1>4 DEF KeptOK, FilesOK, Filed
  <2>2. Kept(w) + Staging(w, e) <= w.charged
    <3>1. w.charged \in Nat
      BY DEF KeptOK, BooksOK
    <3> QED BY <1>1, <1>2, <1>5, <3>1
  <2> QED BY <1>1, <1>4, <2>1, <2>2 DEF FilesOK
<1>7. WorkOK(r, w, e, y)
  BY <1>1, <1>2, <1>3 DEF WorkOK
<1>8. FileStep(w, d, w, e)
  <2>1. w.charged \in Nat
    BY DEF KeptOK, BooksOK
  <2> QED BY <1>4, <2>1 DEF FileStep, TornOf
<1> QED BY <1>3, <1>4, <1>6, <1>7, <1>8 DEF KeptOK, e

\* ------------------------------------------------- the files of a library --

AllKept == \A r \in Recs : KeptOK(r, rec[r], disk[r], worker[r])

\* A turn that has removed its files has removed all of them, however the
\* workers wrote meanwhile.
UnlinkedOK ==
    turn.step = "unlink" =>
        /\ turn.segment = 0 /\ rec[turn.rec].cause = "none" =>
              \A n \in Ordinals \ turn.keys : disk[turn.rec][n] = 0
        /\ turn.segment # 0 /\ turn.segment \notin turn.keys => disk[turn.rec][turn.segment] = 0

\* Apart from the file the turn has in hand, every torn file is due to an
\* interruption of its own.
Hand == IF turn.segment = 0 THEN {} ELSE {<<turn.rec, turn.segment>>}
TornBounded == Cardinality(TornFiles \ Hand) <= mishaps

ChargesFit == Charged <= Quota

FInv == AllKept /\ UnlinkedOK /\ TornBounded /\ ChargesFit

LEMMA TornFinite == IsFiniteSet(TornFiles) /\ IsFiniteSet(TornFiles \ Hand)
<1>1. IsFiniteSet(Ordinals) /\ IsFiniteSet(Recs)
  BY RecordingsAssumption, DvrAssumption, FS_Interval DEF Ordinals
<1>2. IsFiniteSet(Recs \X Ordinals)
  BY <1>1, FS_Product
<1>3. TornFiles \subseteq Recs \X Ordinals
  BY DEF TornFiles
<1> QED BY <1>2, <1>3, FS_Subset

\* Fewer torn files, no fewer interruptions.
LEMMA TornHolds ==
    ASSUME TornBounded, (TornFiles \ Hand)' \subseteq TornFiles \ Hand,
           mishaps \in Nat, mishaps' \in Nat, mishaps <= mishaps'
    PROVE  TornBounded'
<1>1. /\ IsFiniteSet((TornFiles \ Hand)')
      /\ Cardinality((TornFiles \ Hand)') <= Cardinality(TornFiles \ Hand)
      /\ Cardinality((TornFiles \ Hand)') \in Nat /\ Cardinality(TornFiles \ Hand) \in Nat
  BY TornFinite, FS_Subset, FS_CardinalityType
<1> QED BY <1>1 DEF TornBounded

\* No charge grows.
LEMMA ChargesFall ==
    ASSUME AllKept, AllKept', ChargesFit,
           \A x \in Recs : rec'[x].charged <= rec[x].charged
    PROVE  ChargesFit'
<1> DEFINE a == [x \in Recs |-> rec[x].charged]
           b == [x \in Recs |-> rec'[x].charged]
<1>1. \A x \in Recs : a[x] \in Nat /\ b[x] \in Nat /\ b[x] <= a[x]
  BY DEF AllKept, KeptOK, BooksOK
<1>2. Charged = Total(a, Recs) /\ Charged' = Total(b, Recs)
  BY DEF Charged
<1> HIDE DEF a, b
<1>3. Total(b, Recs) <= Total(a, Recs) /\ Total(a, Recs) \in Nat /\ Total(b, Recs) \in Nat
  BY <1>1, DvrAssumption, TotalGrows, TotalRemoves
<1> QED BY <1>2, <1>3, DvrAssumption DEF ChargesFit

\* Recordings that each keep their files keep those of the library.  What
\* the turn had in hand it still has, or it is not torn.
LEMMA EachStep ==
    ASSUME IInv, IInv', FInv,
           \A x \in Recs : /\ KeptOK(x, rec'[x], disk'[x], worker'[x])
                           /\ FileStep(rec[x], disk[x], rec'[x], disk'[x]),
           TornFiles' \cap Hand \subseteq Hand', mishaps' = mishaps, UnlinkedOK'
    PROVE  FInv'
<1>1. AllKept'
  BY DEF AllKept
<1>2. TornFiles' \subseteq TornFiles
  <2> SUFFICES ASSUME NEW p \in Recs \X Ordinals, OnShelf(rec'[p[1]]),
                      p[2] \in Unfreed(rec'[p[1]]), disk'[p[1]][p[2]] = 0
               PROVE  OnShelf(rec[p[1]]) /\ p[2] \in Unfreed(rec[p[1]]) /\ disk[p[1]][p[2]] = 0
    BY DEF TornFiles, Torn, Unfreed
  <2> QED BY DEF FileStep, TornOf
<1>3. (TornFiles \ Hand)' \subseteq TornFiles \ Hand
  BY <1>2
<1>4. TornBounded'
  <2>1. mishaps \in Nat /\ mishaps' \in Nat /\ mishaps <= mishaps'
    BY DvrAssumption DEF IInv, TypeOK
  <2> QED BY <1>3, <2>1, TornHolds DEF FInv
<1>5. ChargesFit'
  <2>1. \A x \in Recs : rec'[x].charged <= rec[x].charged
    BY DEF FileStep
  <2> QED BY <1>1, <2>1, ChargesFall DEF FInv
<1> QED BY <1>1, <1>4, <1>5 DEF FInv

\* A step of one recording.
LEMMA OneStep ==
    ASSUME IInv, IInv', FInv, NEW r \in Recs,
           \A x \in Recs \ {r} : /\ rec'[x] = rec[x] /\ disk'[x] = disk[x]
                                 /\ worker'[x] = worker[x],
           KeptOK(r, rec'[r], disk'[r], worker'[r]),
           FileStep(rec[r], disk[r], rec'[r], disk'[r]),
           \/ turn' = turn
           \/ turn.segment = 0
           \/ turn.rec = r /\ turn.segment \notin TornOf(rec'[r], disk'[r]),
           mishaps' = mishaps, UnlinkedOK'
    PROVE  FInv'
<1>1. ASSUME NEW x \in Recs
      PROVE  /\ KeptOK(x, rec'[x], disk'[x], worker'[x])
             /\ FileStep(rec[x], disk[x], rec'[x], disk'[x])
  <2>1. CASE x = r
    BY <2>1
  <2>2. CASE x # r
    BY <2>2 DEF FInv, AllKept, KeptOK, BooksOK, FileStep
  <2> QED BY <2>1, <2>2
<1>2. TornFiles' \cap Hand \subseteq Hand'
  BY DEF Hand, TornFiles, Torn, TornOf, Unfreed
<1> QED BY <1>1, <1>2, EachStep

\* A step of readers, jobs or the turn alone.
LEMMA QuietFiles ==
    ASSUME IInv, IInv', FInv, UNCHANGED <<rec, disk, worker>>,
           turn' = turn \/ (turn.segment = 0 /\ turn'.step # "unlink"),
           mishaps <= mishaps'
    PROVE  FInv'
<1>1. AllKept' /\ ChargesFit'
  BY DEF FInv, AllKept, ChargesFit, Charged
<1>2. UnlinkedOK'
  BY DEF FInv, UnlinkedOK
<1>3. TornBounded'
  <2>1. (TornFiles \ Hand)' \subseteq TornFiles \ Hand
    BY DEF TornFiles, Torn, Hand
  <2>2. mishaps \in Nat /\ mishaps' \in Nat
    BY DvrAssumption DEF IInv, TypeOK
  <2> QED BY <2>1, <2>2, TornHolds DEF FInv
<1> QED BY <1>1, <1>2, <1>3 DEF FInv

\* ---------------------------------------------------- requests and calls --

LEMMA FilesInHand ==
    ASSUME IInv, FInv, NEW r \in Recs
    PROVE  /\ KeptOK(r, rec[r], disk[r], worker[r]) /\ BooksOK(rec[r])
           /\ FilesOK(rec[r], disk[r]) /\ WorkOK(r, rec[r], disk[r], worker[r])
           /\ rec[r].charged \in Nat /\ disk[r] \in Disks
           /\ rec \in [Recs -> Rows] /\ disk \in [Recs -> Disks]
           /\ worker[r].at # "none" /\ rec[r].storage # "deleted" /\ rec[r].storage # "deleting"
                => rec[r].storage = "reserved"
           /\ worker[r].at # "none" /\ rec[r].storage # "reserved" => rec[r].cause # "none"
<1>1. KeptOK(r, rec[r], disk[r], worker[r])
  BY DEF FInv, AllKept
<1>2. BooksOK(rec[r]) /\ FilesOK(rec[r], disk[r]) /\ WorkOK(r, rec[r], disk[r], worker[r])
  BY <1>1 DEF KeptOK
<1>3. rec \in [Recs -> Rows] /\ disk \in [Recs -> Disks]
  BY DEF IInv, TypeOK, Disks
<1>4. rec[r].capture \in Active => rec[r].storage = "reserved"
  BY InHand
<1> QED BY <1>1, <1>2, <1>3, <1>4 DEF WorkOK, BooksOK

\* A transaction on one row, its worker waiting or not there.
LEMMA CallFiles ==
    ASSUME IInv, IInv', FInv, NEW r \in Recs, NEW v, Row(r, v),
           \A x \in Recs \ {r} : worker'[x] = worker[x],
           UNCHANGED <<disk, turn, mishaps>>,
           KeptOK(r, v, disk[r], worker'[r]), FileStep(rec[r], disk[r], v, disk[r]),
           turn.step # "unlink" \/ v.cause = rec[r].cause
    PROVE  FInv'
<1>1. rec'[r] = v /\ \A x \in Recs \ {r} : rec'[x] = rec[x]
  BY FilesInHand DEF Row
<1>2. UnlinkedOK'
  <2>1. turn.step = "unlink" => turn.rec \in Recs
    BY DEF IInv, TurnOK
  <2> QED BY <1>1, <2>1 DEF FInv, UnlinkedOK
<1> QED BY <1>1, <1>2, OneStep

\* Requests about kept audio change nothing that is said of files.
Touches(w, v) ==
    /\ SameBooks(w, v) /\ v.storage = w.storage /\ v.cause = w.cause
    /\ v.key = w.key /\ v.capture = w.capture

LEMMA TouchedFields ==
    ASSUME NEW w \in Rows
    PROVE  /\ Touches(w, [w EXCEPT !.temporary = ~@])
           /\ Touches(w, [w EXCEPT !.receipt = TRUE])
           /\ \A n : Touches(w, [w EXCEPT !.aged = TRUE, !.agedTo = n])
           /\ \A range : Touches(w, HeldBy(w, range))
BY Zenon DEF Touches, SameBooks, HeldBy, Rows

LEMMA RequestFiles ==
    ASSUME IInv, IInv', FInv, NEW r \in Recs,
           Retain(r) \/ HoldRange(r) \/ Acknowledge(r) \/ Age(r)
    PROVE  FInv'
<1>1. PICK v : Row(r, v) /\ Touches(rec[r], v)
  <2>1. rec[r] \in Rows
    BY InHand
  <2>2. CASE Retain(r)
    BY <2>1, <2>2, TouchedFields, Zenon DEF Retain
  <2>3. CASE HoldRange(r)
    <3>1. PICK lo, hi \in Segments(rec[r]) : Row(r, HeldBy(rec[r], lo .. hi))
      BY <2>3 DEF HoldRange
    <3>2. Touches(rec[r], HeldBy(rec[r], lo .. hi))
      BY <2>1, TouchedFields
    <3> QED BY <3>1, <3>2
  <2>4. CASE Acknowledge(r)
    BY <2>1, <2>4, TouchedFields, Zenon DEF Acknowledge
  <2>5. CASE Age(r)
    <3>1. PICK n \in rec[r].agedTo .. Len(rec[r].ends) :
             Row(r, [rec[r] EXCEPT !.aged = TRUE, !.agedTo = n])
      BY <2>5 DEF Age
    <3>2. Touches(rec[r], [rec[r] EXCEPT !.aged = TRUE, !.agedTo = n])
      BY <2>1, TouchedFields
    <3> QED BY <3>1, <3>2
  <2> QED BY <2>2, <2>3, <2>4, <2>5
<1>2. UNCHANGED <<disk, worker, turn, mishaps>> /\ rec[r].storage # "none"
  BY DEF Retain, HoldRange, Acknowledge, Age, RowOnly, CanHold, OnShelf
<1>3. KeptOK(r, v, disk[r], worker[r]) /\ FileStep(rec[r], disk[r], v, disk[r])
  BY <1>1, <1>2, FilesInHand, TouchedKept, Zenon DEF Touches
<1> QED BY <1>1, <1>2, <1>3, CallFiles DEF Touches

LEMMA PauseFiles == ASSUME IInv, IInv', FInv, NEW r \in Recs, Pause(r) PROVE FInv'
<1> DEFINE v == EndedWithGap(rec[r], "capture_pause", "lost")
<1>1. /\ Row(r, v) /\ UNCHANGED <<disk, worker, turn, mishaps>> /\ turn.step # "unlink"
      /\ rec[r].capture = "running"
  BY NoTurnType DEF Pause, Serving
<1>2. "capture_pause" \in Causes /\ "capture_pause" # "none" /\ "lost" \in {"lost", "fail"}
  BY DEF Causes
<1>3. KeptOK(r, v, disk[r], worker[r]) /\ FileStep(rec[r], disk[r], v, disk[r])
  BY <1>1, <1>2, InHand, FilesInHand, EndedKept
<1> HIDE DEF v
<1> QED BY <1>1, <1>3, CallFiles

LEMMA EndedInCallFiles == ASSUME IInv, IInv', FInv, NEW r \in Recs, EndedInCall(r) PROVE FInv'
<1>1. PICK cause \in {"backward_clock", "refused_renewal"} :
         Row(r, EndedWithGap(rec[r], cause, "fail"))
  BY DEF EndedInCall
<1> DEFINE v == EndedWithGap(rec[r], cause, "fail")
<1>2. /\ UNCHANGED <<disk, turn, mishaps>> /\ turn.step # "unlink"
      /\ rec[r].capture = "running" /\ Broken(r)
  BY NoTurnType DEF EndedInCall, Catalog, CallOnly
<1>3. cause \in Causes /\ cause # "none" /\ "fail" \in {"lost", "fail"}
  BY DEF Causes
<1>4. worker'[r].at = "failed" /\ \A x \in Recs \ {r} : worker'[x] = worker[x]
  BY <1>2, InHand, BrokenMoves DEF WorkerMoves
<1>5. KeptOK(r, v, disk[r], worker'[r]) /\ FileStep(rec[r], disk[r], v, disk[r])
  BY <1>2, <1>3, <1>4, InHand, FilesInHand, EndedKept
<1>6. Row(r, v)
  BY <1>1
<1> HIDE DEF v
<1> QED BY <1>2, <1>4, <1>5, <1>6, CallFiles

\* ------------------------------------------------------- worker and row --

LEMMA WorkerFiles ==
    ASSUME IInv, IInv', FInv, NEW r \in Recs, UNCHANGED <<rec, disk, turn, mishaps>>,
           \A x \in Recs \ {r} : worker'[x] = worker[x],
           WorkOK(r, rec[r], disk[r], worker'[r])
    PROVE  FInv'
<1>1. KeptOK(r, rec[r], disk[r], worker'[r]) /\ FileStep(rec[r], disk[r], rec[r], disk[r])
  BY FilesInHand, MovedKept
<1>2. UnlinkedOK'
  BY DEF FInv, UnlinkedOK
<1> QED BY <1>1, <1>2, OneStep

\* A worker that fails leaves what it staged.
LEMMA FailsFiles ==
    ASSUME IInv, IInv', FInv, NEW r \in Recs, StaleCall(r) \/ WorkerFails(r)
    PROVE  FInv'
<1>1. /\ UNCHANGED <<rec, disk, turn, mishaps>> /\ worker[r].at # "none" /\ Broken(r)
  BY DEF StaleCall, WorkerFails, CallOnly
<1>2. worker'[r].at = "failed" /\ \A x \in Recs \ {r} : worker'[x] = worker[x]
  BY <1>1, InHand, BrokenMoves DEF WorkerMoves
<1>3. /\ rec[r].storage \in {"reserved", "deleting", "deleted"}
      /\ rec[r].cause = "none" => rec[r].capture \in Active
  BY <1>1, FilesInHand DEF WorkOK
<1>4. WorkOK(r, rec[r], disk[r], worker'[r])
  BY <1>2, <1>3, StoppedWork
<1> QED BY <1>1, <1>2, <1>4, WorkerFiles

LEMMA GoesOnFiles ==
    ASSUME IInv, IInv', FInv, NEW r \in Recs, Renew(r) \/ EndOfBody(r) \/ VerifyFile(r)
    PROVE  FInv'
<1>1. UNCHANGED <<rec, disk, turn, mishaps>>
  BY DEF Renew, EndOfBody, VerifyFile, CallOnly
<1>2. WorkOK(r, rec[r], disk[r], worker[r])
  BY FilesInHand
<1>3. CASE Renew(r) \/ EndOfBody(r)
  <2>1. worker[r].at = "cut" /\ r \in Segmented
    BY <1>3, InHand DEF Renew, EndOfBody, Call, WorkerOK
  <2>2. PICK place \in {"asking", "done"} : Step(r, place)
    BY <1>3 DEF Renew, EndOfBody
  <2>3. WorkerMoves(r, place)
    BY <2>2, InHand, StepMoves DEF Places
  <2>4. WorkOK(r, rec[r], disk[r], worker'[r])
    BY <1>2, <2>1, <2>3 DEF WorkOK, WorkerMoves
  <2> QED BY <1>1, <2>3, <2>4, WorkerFiles DEF WorkerMoves
<1>4. CASE VerifyFile(r)
  <2>1. worker[r].at = "received" /\ Step(r, "done")
    BY <1>4 DEF VerifyFile
  <2>2. WorkerMoves(r, "done") /\ worker'[r].bytes = worker[r].bytes
    BY <2>1, InHand, StepMoves DEF Places
  <2>3. WorkOK(r, rec[r], disk[r], worker'[r])
    BY <1>2, <2>1, <2>2 DEF WorkOK, WorkerMoves
  <2> QED BY <1>1, <2>2, <2>3, WorkerFiles DEF WorkerMoves
<1> QED BY <1>3, <1>4

LEMMA ConnectFiles == ASSUME IInv, IInv', FInv, NEW r \in Recs, Connect(r) PROVE FInv'
<1> DEFINE v == Journal(rec[r], "connected")
<1>1. /\ worker[r].at = "connecting" /\ rec[r].capture = "starting" /\ Row(r, v)
      /\ worker' = [worker EXCEPT ![r].at = "asking", ![r].token = v.version]
      /\ UNCHANGED <<disk, turn, mishaps>> /\ turn.step # "unlink"
  BY NoTurnType, Zenon DEF Connect, Call, Catalog, CallOnly
<1>2. r \in Segmented /\ RowOK(r, v)
  BY <1>1, InHand, ConnectedOK DEF WorkerOK
<1>3. WorkerMoves(r, "asking")
  <2>1. v.version \in Versions
    BY <1>2 DEF RowOK, Rows
  <2> HIDE DEF v
  <2>2. "asking" \in Places
    BY DEF Places
  <2> QED BY <1>1, <2>1, <2>2, InHand, HoldsMoves
<1>4. KeptOK(r, v, disk[r], worker'[r]) /\ FileStep(rec[r], disk[r], v, disk[r])
  <2>1. RowOK(r, rec[r]) /\ KeptOK(r, rec[r], disk[r], worker[r])
    BY InHand, FilesInHand
  <2>2. worker'[r].at = "asking"
    BY <1>3 DEF WorkerMoves
  <2> DEFINE y == worker'[r]
  <2> HIDE DEF y
  <2>3. y.at = "asking"
    BY <2>2 DEF y
  <2>4. KeptOK(r, v, disk[r], y) /\ FileStep(rec[r], disk[r], v, disk[r])
    BY <1>1, <1>2, <2>1, <2>3, ConnectedKept
  <2> QED BY <2>4 DEF y
<1> HIDE DEF v
<1> QED BY <1>1, <1>3, <1>4, CallFiles DEF WorkerMoves

LEMMA OpenFiles == ASSUME IInv, IInv', FInv, NEW r \in Recs, OpenSegment(r) PROVE FInv'
<1>1. /\ worker[r].at = "asking" /\ CanOpen(rec[r]) /\ r \in Segmented
      /\ UNCHANGED <<disk, turn, mishaps>> /\ turn.step # "unlink"
      /\ Len(rec[r].ends) \in Nat /\ rec[r].escrow \in Int /\ Ceiling \in Nat
  BY NoTurnType, InHand, RecordingsAssumption, SMTT(30)
     DEF OpenSegment, Call, Catalog, CallOnly, WorkerOK, Rows
<1>2. CASE rec[r].escrow < Ceiling
  <2>1. UNCHANGED rec /\ WorkerMoves(r, "done")
    BY <1>2, InHand, StepMoves DEF OpenSegment, Places
  <2>2. WorkOK(r, rec[r], disk[r], worker'[r])
    BY <1>1, <2>1, FilesInHand DEF WorkOK, WorkerMoves
  <2> QED BY <1>1, <2>1, <2>2, WorkerFiles DEF WorkerMoves
<1>3. CASE ~(rec[r].escrow < Ceiling)
  <2> DEFINE v == Opened(rec[r])
             key == Len(rec[r].ends) + 1
  <2>1. /\ Row(r, v) /\ worker' = [worker EXCEPT ![r].at = "reading", ![r].key = key]
    BY <1>3 DEF OpenSegment
  <2>2. WorkerMoves(r, "reading") /\ worker'[r].key = key
    <3>1. "reading" \in Places /\ key \in Nat /\ NoRow.version \in Versions
      BY <1>1, NoRowOK DEF Places, RowOK, Rows
    <3> HIDE DEF key
    <3> QED BY <2>1, <3>1, InHand, HoldsMoves, ZenonT(30)
  <2>3. KeptOK(r, v, disk[r], worker'[r]) /\ FileStep(rec[r], disk[r], v, disk[r])
    <3>1. /\ rec[r].escrow >= Ceiling /\ worker'[r].at = "reading"
          /\ worker'[r].key = Len(rec[r].ends) + 1
      BY <1>1, <1>3, <2>2 DEF WorkerMoves
    <3>2. RowOK(r, rec[r]) /\ KeptOK(r, rec[r], disk[r], worker[r])
      BY InHand, FilesInHand
    <3> QED BY <1>1, <3>1, <3>2, OpenedKept
  <2> HIDE DEF v
  <2> QED BY <1>1, <2>1, <2>2, <2>3, CallFiles DEF WorkerMoves
<1> QED BY <1>2, <1>3

LEMMA ReleaseOpenFiles == ASSUME IInv, IInv', FInv, NEW r \in Recs, ReleaseOpen(r) PROVE FInv'
<1>1. /\ worker[r].at = "reading" /\ r \in Segmented
      /\ UNCHANGED <<disk, turn, mishaps>> /\ turn.step # "unlink"
  BY NoTurnType, InHand DEF ReleaseOpen, Call, Catalog, CallOnly, WorkerOK
<1>2. PICK place \in {"failed", "done"} : WorkerMoves(r, place)
  <2>1. Broken(r) \/ Step(r, "done")
    BY DEF ReleaseOpen
  <2> QED BY <2>1, InHand, BrokenMoves, StepMoves DEF Places
<1>3. CASE Current(r) /\ rec[r].capture = "running" /\ rec[r].open > 0
  <2> DEFINE v == Withdrawn(rec[r])
  <2>1. Row(r, v)
    BY <1>3 DEF ReleaseOpen
  <2>2. KeptOK(r, v, disk[r], worker'[r]) /\ FileStep(rec[r], disk[r], v, disk[r])
    BY <1>1, <1>2, <1>3, InHand, FilesInHand, WithdrawnKept DEF WorkerMoves
  <2> HIDE DEF v
  <2> QED BY <1>1, <1>2, <2>1, <2>2, CallFiles DEF WorkerMoves
<1>4. CASE ~(Current(r) /\ rec[r].capture = "running" /\ rec[r].open > 0)
  <2>1. UNCHANGED rec /\ worker'[r].at = "failed"
    BY <1>1, <1>4, InHand, BrokenMoves DEF ReleaseOpen, WorkerMoves
  <2>2. /\ rec[r].storage \in {"reserved", "deleting", "deleted"}
        /\ rec[r].cause = "none" => rec[r].capture \in Active
    BY <1>1, FilesInHand DEF WorkOK
  <2>3. WorkOK(r, rec[r], disk[r], worker'[r])
    BY <2>1, <2>2, StoppedWork
  <2> QED BY <1>1, <1>2, <2>1, <2>3, WorkerFiles DEF WorkerMoves
<1> QED BY <1>3, <1>4

LEMMA SealFiles == ASSUME IInv, IInv', FInv, NEW r \in Recs, SealSegment(r) PROVE FInv'
<1> DEFINE v == SealedWith(rec[r], worker[r].bytes)
<1>1. /\ worker[r].at = "staged" /\ CanSeal(rec[r], worker[r].bytes) /\ Row(r, v)
      /\ worker' = [worker EXCEPT ![r].at = "cut", ![r].key = 0, ![r].bytes = 0]
      /\ UNCHANGED <<disk, turn, mishaps>> /\ turn.step # "unlink"
  BY NoTurnType DEF SealSegment, Call, Catalog, CallOnly
<1>2. WorkerMoves(r, "cut")
  <2>1. "cut" \in Places /\ 0 \in Nat /\ NoRow.version \in Versions
    BY NoRowOK DEF Places, RowOK, Rows
  <2> HIDE DEF v
  <2> QED BY <1>1, <2>1, InHand, HoldsMoves
<1>3. KeptOK(r, v, disk[r], worker'[r]) /\ FileStep(rec[r], disk[r], v, disk[r])
  BY <1>1, <1>2, InHand, FilesInHand, SealedKept DEF WorkerMoves
<1> HIDE DEF v
<1> QED BY <1>1, <1>2, <1>3, CallFiles DEF WorkerMoves

LEMMA FinishFiles == ASSUME IInv, IInv', FInv, NEW r \in Recs, Finish(r) PROVE FInv'
<1> DEFINE w == rec[r]
           bytes == worker[r].bytes
<1>1. /\ UNCHANGED <<disk, turn, mishaps>> /\ turn.step # "unlink"
      /\ worker[r].at \in {"done", "failed"} /\ w.storage # "none"
      /\ worker'[r] = NoWorker /\ worker'[r].at = "none"
      /\ \A x \in Recs \ {r} : worker'[x] = worker[x]
  BY NoTurnType, NoWorkerType, InHand DEF Finish, Catalog
<1>2. PICK v : /\ Row(r, v) /\ KeptOK(r, v, disk[r], worker'[r])
               /\ FileStep(w, disk[r], v, disk[r])
  <2>1. CASE /\ worker[r].at = "done" /\ r \in Segmented /\ CanComplete(w)
             /\ Row(r, Completed(w))
    BY <1>1, <2>1, InHand, FilesInHand, CompletedKept
  <2>2. CASE /\ worker[r].at = "done" /\ r \notin Segmented /\ CanPublish(w, bytes)
             /\ Row(r, PublishedWhole(w, bytes))
    BY <1>1, <2>2, InHand, FilesInHand, WholeKept
  <2>3. CASE Allowed(w.capture, "fail") /\ Row(r, Failed(w))
    <3>1. w.capture \in Live
      BY <2>3, FailAllowed
    <3>2. LET v == Failed(w) IN
          KeptOK(r, v, disk[r], worker'[r]) /\ FileStep(w, disk[r], v, disk[r])
      BY <1>1, <3>1, InHand, FilesInHand, GivenUpKept DEF Failed
    <3> QED BY <2>3, <3>2
  <2>4. CASE UNCHANGED rec
    <3>1. Row(r, w)
      BY <2>4, FilesInHand DEF Row
    <3>2. WorkOK(r, w, disk[r], worker'[r])
      BY <1>1, StoppedWork
    <3> QED BY <3>1, <3>2, FilesInHand, MovedKept
  <2> QED BY <2>1, <2>2, <2>3, <2>4 DEF Finish, Finished, ServiceFails
<1> QED BY <1>1, <1>2, CallFiles

\* ---------------------------------------------------- the worker's files --

\* A file that arrives after its recording was deleted: nothing is promised
\* of a capture that ended inside a call.
LEMMA LateKept ==
    ASSUME NEW r \in Recs, NEW w, NEW d, NEW e, NEW x, NEW y, KeptOK(r, w, d, x),
           w.storage = "deleted", w.cause # "none", w.charged \in Nat,
           y.at = "staged" \/ (y.at = "received" /\ r \notin Segmented)
    PROVE  KeptOK(r, w, e, y) /\ FileStep(w, d, w, e)
<1>1. BooksOK(w)
  BY DEF KeptOK
<1>2. FilesOK(w, e)
  BY DEF FilesOK, Filed
<1>3. WorkOK(r, w, e, y)
  BY DEF WorkOK
<1>4. FileStep(w, d, w, e)
  BY DEF FileStep, TornOf, OnShelf
<1> QED BY <1>1, <1>2, <1>3, <1>4 DEF KeptOK

\* A worker writes one file, never one the turn has removed.
LEMMA WrittenFiles ==
    ASSUME IInv, IInv', FInv, NEW r \in Recs, NEW n, NEW bytes \in Nat,
           disk' = [disk EXCEPT ![r][n] = bytes], worker[r].at # "none",
           \A x \in Recs \ {r} : worker'[x] = worker[x], UNCHANGED <<rec, turn, mishaps>>,
           rec[r].storage # "deleted" => n \in Ordinals \ Segments(rec[r]),
           KeptOK(r, rec[r], Put(disk[r], n, bytes), worker'[r]),
           FileStep(rec[r], disk[r], rec[r], Put(disk[r], n, bytes))
    PROVE  FInv'
<1>1. /\ disk'[r] = Put(disk[r], n, bytes)
      /\ \A x \in Recs \ {r} : disk'[x] = disk[x]
  BY FilesInHand, Zenon DEF Put
<1>2. UnlinkedOK'
  <2> SUFFICES ASSUME turn.step = "unlink"
               PROVE  /\ turn.segment = 0 /\ rec[turn.rec].cause = "none" =>
                            \A m \in Ordinals \ turn.keys : disk'[turn.rec][m] = 0
                      /\ turn.segment # 0 /\ turn.segment \notin turn.keys
                            => disk'[turn.rec][turn.segment] = 0
    BY DEF UnlinkedOK
  <2>1. turn.rec \in Recs
    BY DEF IInv, TurnOK
  <2>2. CASE turn.rec # r
    BY <1>1, <2>1, <2>2 DEF FInv, UnlinkedOK
  <2>3. CASE turn.rec = r
    <3>1. turn.segment = 0 => rec[r].cause # "none"
      BY <2>3, FilesInHand DEF IInv, TurnOK
    <3>2. ASSUME turn.segment # 0 PROVE disk'[r][turn.segment] = disk[r][turn.segment]
      <4>1. OnShelf(rec[r]) /\ turn.segment \in Segments(rec[r])
        BY <2>3, <3>2 DEF IInv, TurnOK
      <4>2. n # turn.segment /\ n \in Ordinals /\ turn.segment \in Ordinals
        <5>1. rec[r].storage # "deleted"
          BY <4>1 DEF OnShelf
        <5> QED BY <4>1, <5>1, InHand, RowTypes
      <4>3. disk[r] \in Disks
        BY FilesInHand
      <4> QED BY <1>1, <4>2, <4>3, PutTypes
    <3> QED BY <2>3, <3>1, <3>2 DEF FInv, UnlinkedOK
  <2> QED BY <2>2, <2>3
<1>3. KeptOK(r, rec'[r], disk'[r], worker'[r]) /\ FileStep(rec[r], disk[r], rec'[r], disk'[r])
  BY <1>1
<1> QED BY <1>1, <1>2, <1>3, OneStep

LEMMA ReadFiles == ASSUME IInv, IInv', FInv, NEW r \in Recs, ReadSegment(r) PROVE FInv'
<1>1. PICK bytes \in 1 .. Ceiling :
         /\ disk' = [disk EXCEPT ![r][worker[r].key] = bytes]
         /\ worker' = [worker EXCEPT ![r].at = "staged", ![r].bytes = bytes]
  BY DEF ReadSegment
<1>2. worker[r].at = "reading" /\ UNCHANGED <<rec, turn, mishaps>>
  BY DEF ReadSegment
<1>3. WorkerMoves(r, "staged") /\ worker'[r].bytes = bytes
  <2>1. "staged" \in Places /\ bytes \in Nat /\ 0 \in Nat /\ NoRow.version \in Versions
    BY NoRowOK, RecordingsAssumption DEF Places, RowOK, Rows
  <2> QED BY <1>1, <2>1, InHand, HoldsMoves, ZenonT(30)
<1>4. /\ KeptOK(r, rec[r], Put(disk[r], worker[r].key, bytes), worker'[r])
      /\ FileStep(rec[r], disk[r], rec[r], Put(disk[r], worker[r].key, bytes))
      /\ rec[r].storage # "deleted" => worker[r].key \in Ordinals \ Segments(rec[r])
  <2>1. CASE rec[r].storage # "deleted"
    <3>1. /\ RowOK(r, rec[r]) /\ KeptOK(r, rec[r], disk[r], worker[r]) /\ disk[r] \in Disks
          /\ worker'[r].at = "staged" /\ worker'[r].bytes = bytes
      BY <1>3, InHand, FilesInHand DEF WorkerMoves
    <3> QED BY <1>2, <2>1, <3>1, StagedKept
  <2>2. CASE rec[r].storage = "deleted"
    <3>1. /\ KeptOK(r, rec[r], disk[r], worker[r]) /\ rec[r].charged \in Nat
          /\ rec[r].cause # "none" /\ worker'[r].at = "staged"
      BY <1>2, <1>3, <2>2, FilesInHand DEF WorkerMoves
    <3> QED BY <2>2, <3>1, LateKept
  <2> QED BY <2>1, <2>2
<1>5. bytes \in Nat /\ worker[r].at # "none" /\ \A x \in Recs \ {r} : worker'[x] = worker[x]
  BY <1>2, <1>3, RecordingsAssumption DEF WorkerMoves
<1> QED BY <1>1, <1>2, <1>4, <1>5, WrittenFiles

LEMMA ReceiveFiles == ASSUME IInv, IInv', FInv, NEW r \in Recs, ReceiveFile(r) PROVE FInv'
<1>1. PICK bytes \in 1 .. Maximum[r] :
         /\ disk' = [disk EXCEPT ![r][1] = bytes]
         /\ worker' = [worker EXCEPT ![r].at = "received", ![r].bytes = bytes]
  BY DEF ReceiveFile
<1>2. worker[r].at = "receiving" /\ UNCHANGED <<rec, turn, mishaps>>
  BY DEF ReceiveFile
<1>3. WorkerMoves(r, "received") /\ worker'[r].bytes = bytes
  <2>1. Maximum[r] \in Nat
    BY DvrAssumption, RecordingsAssumption
  <2>2. "received" \in Places /\ bytes \in Nat /\ 0 \in Nat /\ NoRow.version \in Versions
    BY <2>1, NoRowOK DEF Places, RowOK, Rows
  <2> QED BY <1>1, <2>2, InHand, HoldsMoves, ZenonT(30)
<1>4. r \notin Segmented
  BY <1>2, FilesInHand DEF WorkOK
<1>5. /\ KeptOK(r, rec[r], Put(disk[r], 1, bytes), worker'[r])
      /\ FileStep(rec[r], disk[r], rec[r], Put(disk[r], 1, bytes))
      /\ rec[r].storage # "deleted" => 1 \in Ordinals \ Segments(rec[r])
  <2>1. CASE rec[r].storage # "deleted"
    <3>1. 1 \in Ordinals
      BY RecordingsAssumption DEF Ordinals
    <3>2. /\ RowOK(r, rec[r]) /\ KeptOK(r, rec[r], disk[r], worker[r]) /\ disk[r] \in Disks
          /\ worker'[r].at = "received" /\ worker'[r].bytes = bytes
      BY <1>3, InHand, FilesInHand DEF WorkerMoves
    <3> QED BY <1>2, <2>1, <3>1, <3>2, ReceivedKept
  <2>2. CASE rec[r].storage = "deleted"
    BY <1>2, <1>3, <1>4, <2>2, FilesInHand, LateKept DEF WorkerMoves
  <2> QED BY <2>1, <2>2
<1>6. bytes \in Nat /\ worker[r].at # "none" /\ \A x \in Recs \ {r} : worker'[x] = worker[x]
  BY <1>2, <1>3, DvrAssumption, RecordingsAssumption DEF WorkerMoves
<1> QED BY <1>1, <1>2, <1>5, <1>6, WrittenFiles

\* ------------------------------------------------------------- admission --

\* A recording that comes in is charged its ceiling, which fits.
LEMMA ChargesAdmit ==
    ASSUME AllKept, AllKept', NEW r \in Recs, Fits(r), rec[r].charged = 0,
           rec'[r].charged <= Maximum[r],
           \A x \in Recs \ {r} : rec'[x].charged = rec[x].charged
    PROVE  ChargesFit'
<1> DEFINE a == [x \in Recs |-> rec[x].charged]
           b == [x \in Recs |-> rec'[x].charged]
           others == Recs \ {r}
<1>1. \A x \in Recs : a[x] \in Nat /\ b[x] \in Nat
  BY DEF AllKept, KeptOK, BooksOK
<1>2. /\ Charged = Total(a, Recs) /\ Charged' = Total(b, Recs)
      /\ a[r] = 0 /\ b[r] <= Maximum[r] /\ \A x \in others : a[x] = b[x]
  BY DEF Charged
<1> HIDE DEF a, b
<1>3. IsFiniteSet(others) /\ IsFiniteSet(Recs)
  BY DvrAssumption, FS_Subset
<1>4. Total(a, Recs) = a[r] + Total(a, others) /\ Total(b, Recs) = b[r] + Total(b, others)
  BY <1>1, <1>3, TotalRemoves
<1>5. Total(a, others) \in Nat /\ Total(a, others) = Total(b, others)
  <2>1. \A x \in others : a[x] \in Nat
    BY <1>1
  <2> QED BY <1>2, <1>3, <2>1, TotalRemoves, TotalAgrees
<1>6. Maximum[r] \in Nat /\ Quota \in Nat
  BY DvrAssumption, RecordingsAssumption
<1>7. Maximum[r] <= Quota - Total(a, Recs)
  BY <1>2 DEF Fits
<1> QED BY <1>1, <1>2, <1>4, <1>5, <1>6, <1>7 DEF ChargesFit

LEMMA AdmitFiles ==
    ASSUME IInv, IInv', FInv, NEW r \in Recs, NEW space \in BOOLEAN, Admit(r, space), Fits(r),
           rec[r].storage = "none", turn.segment = 0, turn'.step # "unlink",
           UNCHANGED <<disk, mishaps>>
    PROVE  FInv'
<1> DEFINE w == Admitted(Maximum[r])
           v == IF space THEN w ELSE Failed(w)
<1>1. rec[r] = NoRow /\ worker[r].at = "none" /\ \A n \in Ordinals : disk[r][n] = 0
  <2>1. rec[r] = NoRow /\ worker[r].at = "none"
    BY InHand DEF RowOK, WellKept
  <2>2. NoRow.cause = "none" /\ FilesOK(rec[r], disk[r])
    BY FilesInHand DEF NoRow
  <2> QED BY <2>1, <2>2 DEF FilesOK
<1>2. /\ Row(r, v)
      /\ ~space => worker' = worker
      /\ space => /\ \A x \in Recs \ {r} : worker'[x] = worker[x]
                  /\ worker'[r].at = IF r \in Segmented THEN "connecting" ELSE "receiving"
  <2>1. Row(r, v) /\ (~space => worker' = worker)
    BY DEF Admit
  <2>2. ASSUME space
        PROVE  /\ \A x \in Recs \ {r} : worker'[x] = worker[x]
               /\ worker'[r].at = IF r \in Segmented THEN "connecting" ELSE "receiving"
    <3> DEFINE at == IF r \in Segmented THEN "connecting" ELSE "receiving"
               x0 == [NoWorker EXCEPT !.at = at, !.token = w.version,
                                      !.generation = w.version.generation]
    <3>1. worker' = [worker EXCEPT ![r] = x0]
      BY <2>2, Zenon DEF Admit
    <3>2. x0.at = at
      BY Zenon DEF NoWorker
    <3> HIDE DEF x0
    <3>3. worker'[r] = x0
      BY <3>1, InHand
    <3> QED BY <3>1, <3>2, <3>3, InHand
  <2> QED BY <2>1, <2>2
<1>3. /\ KeptOK(r, v, disk[r], worker'[r]) /\ v.charged <= Maximum[r]
      /\ TornOf(v, disk[r]) = {}
  <2>1. CASE space
    <3>1. KeptOK(r, w, disk[r], worker'[r]) /\ w.charged = Maximum[r] /\ TornOf(w, disk[r]) = {}
      BY <1>1, <1>2, <2>1, AdmittedKept
    <3>2. Maximum[r] \in Nat
      BY DvrAssumption, RecordingsAssumption
    <3> HIDE DEF w
    <3> QED BY <2>1, <3>1, <3>2
  <2>2. CASE ~space
    <3>1. KeptOK(r, w, disk[r], worker[r]) /\ w.charged = Maximum[r] /\ TornOf(w, disk[r]) = {}
      BY <1>1, AdmittedKept
    <3>2. RowOK(r, w) /\ w.capture \in Live /\ w.storage # "none"
      BY AdmittedOK DEF RowOK, WellKept, Live, Active
    <3>3. KeptOK(r, v, disk[r], worker[r]) /\ FileStep(w, disk[r], v, disk[r])
      <4>1. v = Failed(w)
        BY <2>2
      <4> HIDE DEF v, w
      <4> QED BY <1>1, <3>1, <3>2, <4>1, GivenUpKept DEF Failed
    <3> HIDE DEF v, w
    <3> QED BY <1>2, <2>2, <3>1, <3>3 DEF FileStep
  <2> QED BY <2>1, <2>2
<1> HIDE DEF v
<1>4. /\ rec'[r] = v /\ \A x \in Recs \ {r} : rec'[x] = rec[x] /\ worker'[x] = worker[x]
  BY <1>2, FilesInHand DEF Row
<1>5. AllKept'
  BY <1>3, <1>4 DEF FInv, AllKept
<1>6. ChargesFit'
  <2>1. rec[r].charged = 0
    BY <1>1 DEF NoRow
  <2> QED BY <1>3, <1>4, <1>5, <2>1, ChargesAdmit DEF FInv
<1>7. UnlinkedOK'
  BY DEF UnlinkedOK
<1>8. TornBounded'
  <2>1. TornFiles' \subseteq TornFiles
    <3> SUFFICES ASSUME NEW p \in Recs \X Ordinals, OnShelf(rec'[p[1]]),
                        p[2] \in Unfreed(rec'[p[1]]), disk[p[1]][p[2]] = 0
                 PROVE  OnShelf(rec[p[1]]) /\ p[2] \in Unfreed(rec[p[1]])
      BY DEF TornFiles, Torn, Unfreed
    <3>1. CASE p[1] = r
      BY <1>3, <1>4, <3>1 DEF TornOf
    <3>2. CASE p[1] # r
      BY <1>4, <3>2
    <3> QED BY <3>1, <3>2
  <2>2. (TornFiles \ Hand)' \subseteq TornFiles \ Hand
    BY <2>1 DEF Hand
  <2>3. mishaps \in Nat /\ mishaps' \in Nat /\ mishaps <= mishaps'
    BY DvrAssumption DEF IInv, TypeOK
  <2> QED BY <2>2, <2>3, TornHolds DEF FInv
<1> QED BY <1>5, <1>6, <1>7, <1>8 DEF FInv

LEMMA StartFiles == ASSUME IInv, IInv', FInv, NEW r \in Recs, Start(r) PROVE FInv'
<1>1. turn = NoTurn /\ rec[r].storage = "none" /\ UNCHANGED <<disk, mishaps>>
  BY DEF Start, Serving
<1>2. turn.segment = 0 /\ turn.step # "unlink"
  BY <1>1, NoTurnType
<1>3. ASSUME Fits(r), NEW space \in BOOLEAN, Admit(r, space), UNCHANGED turn PROVE FInv'
  BY <1>1, <1>2, <1>3, AdmitFiles
<1>4. ASSUME turn' = [NoTurn EXCEPT !.by = "reclaim", !.step = "release", !.want = r],
             UNCHANGED <<rec, worker>>
      PROVE  FInv'
  <2>1. turn'.step = "release"
    BY <1>4, Zenon DEF NoTurn
  <2>2. mishaps <= mishaps'
    BY <1>1, DvrAssumption DEF IInv, TypeOK
  <2> QED BY <1>1, <1>2, <1>4, <2>1, <2>2, QuietFiles
<1> QED BY <1>3, <1>4 DEF Start

LEMMA AdmitReclaimedFiles == ASSUME IInv, IInv', FInv, AdmitReclaimed PROVE FInv'
<1>1. PICK space \in BOOLEAN : Admit(turn.want, space)
  BY DEF AdmitReclaimed
<1>2. /\ Fits(turn.want) /\ turn' = NoTurn /\ UNCHANGED <<disk, mishaps>>
      /\ turn.step = "admit"
  BY DEF AdmitReclaimed
<1>3. turn.segment = 0 /\ turn.want \in Recs /\ rec[turn.want].storage = "none"
  BY <1>2 DEF IInv, TurnOK
<1> QED BY <1>1, <1>2, <1>3, NoTurnType, AdmitFiles

\* -------------------------------------------------------- the actor's turn --

\* A deletion begins with every file of the recording in hand.
LEMMA DeletingFiles ==
    ASSUME IInv, IInv', FInv, NEW r \in Recs, NEW pruning, MayDelete(r, pruning),
           NEW t \in Turns, NEW next \in {"idle", "candidates", "prune"},
           BeginDelete(t, r, next), t.segment = 0, turn.segment = 0,
           UNCHANGED <<disk, worker, mishaps>>
    PROVE  FInv'
<1> DEFINE w == rec[r]
           v == Deleting(w)
           keys == ObjectKeys(w)
<1>1. /\ RowOK(r, w) /\ w \in Rows /\ w.storage \in Filed /\ KeptOK(r, w, disk[r], worker[r])
      /\ FilesOK(w, disk[r])
  <2>1. w \in Rows
    BY InHand
  <2>2. w.storage \in Filed
    BY <2>1 DEF MayDelete, Filed, Rows
  <2> QED BY <2>2, InHand, FilesInHand
<1>2. Row(r, v) /\ turn' = [t EXCEPT !.step = "unlink", !.rec = r, !.keys = keys, !.next = next]
  BY Zenon DEF BeginDelete
<1>3. KeptOK(r, v, disk[r], worker[r]) /\ FileStep(w, disk[r], v, disk[r])
  BY <1>1, DeletingKept
<1>4. v.cause = w.cause
  BY <1>1, Zenon DEF Deleting, Rows
<1>5. turn'.rec = r /\ turn'.segment = 0 /\ turn'.keys = keys
  BY <1>2, Zenon DEF Turns
<1>6. ASSUME w.cause = "none", NEW n \in Ordinals \ keys PROVE disk[r][n] = 0
  <2>1. /\ n \notin Segments(w) /\ n # 1 /\ n # w.key /\ n \in Nat /\ n >= 1
    BY <1>6 DEF ObjectKeys, Ordinals
  <2>2. /\ Segments(w) = 1 .. Len(w.ends) /\ Len(w.ends) \in Nat /\ w.ends \in Seq(Nat)
    BY <1>1, RowTypes
  <2>3. CASE n > Ahead(w)
    BY <1>1, <2>3 DEF FilesOK
  <2>4. CASE n = Ahead(w)
    <3>1. w.ends # <<>>
      BY <2>1, <2>4 DEF Ahead
    <3>2. Staging(w, disk[r]) = disk[r][n]
      BY <2>4 DEF Staging
    <3> QED BY <1>1, <1>6, <2>1, <2>4, <3>1, <3>2 DEF FilesOK
  <2> QED BY <2>1, <2>2, <2>3, <2>4 DEF Ahead
<1> HIDE DEF v, keys
<1>7. rec'[r] = v /\ \A x \in Recs \ {r} : rec'[x] = rec[x]
  BY <1>2, FilesInHand DEF Row
<1>8. UnlinkedOK'
  BY <1>4, <1>5, <1>6, <1>7 DEF UnlinkedOK
<1> QED BY <1>3, <1>7, <1>8, OneStep

LEMMA DeleteFiles == ASSUME IInv, IInv', FInv, NEW r \in Recs, Delete(r) PROVE FInv'
<1> DEFINE t == [NoTurn EXCEPT !.by = "user"]
<1>1. /\ turn = NoTurn /\ MayDelete(r, FALSE) /\ BeginDelete(t, r, "idle")
      /\ UNCHANGED <<disk, worker, mishaps>>
  BY DEF Delete, Serving
<1>2. t \in Turns /\ t.segment = NoTurn.segment
  BY NoTurnType, Zenon DEF Turns
<1> HIDE DEF t
<1> QED BY <1>1, <1>2, NoTurnType, DeletingFiles

LEMMA BeginPruneFiles ==
    ASSUME IInv, IInv', FInv, NEW by \in {"sweep", "prune"}, BeginPrune(by)
    PROVE  FInv'
<1>1. /\ turn' = [NoTurn EXCEPT !.by = by, !.step = "release"] /\ turn = NoTurn
      /\ UNCHANGED <<rec, disk, worker, mishaps>>
  BY DEF BeginPrune, TurnOnly, Serving
<1>2. turn'.step = "release"
  BY <1>1, NoTurnType, Zenon DEF Turns
<1>3. mishaps <= mishaps'
  BY <1>1, DvrAssumption DEF IInv, TypeOK
<1> QED BY <1>1, <1>2, <1>3, NoTurnType, QuietFiles

\* A turn that goes on to another step than a removal.
LEMMA TurnMoves ==
    ASSUME IInv, IInv', FInv, turn.step \notin {"idle", "unlink"}, turn'.step # "unlink",
           UNCHANGED <<rec, disk, worker, mishaps>>
    PROVE  FInv'
<1>1. turn.segment = 0 /\ mishaps <= mishaps'
  BY TurnInHand, DvrAssumption DEF IInv, TypeOK
<1> QED BY <1>1, QuietFiles

LEMMA ReleaseNextFiles == ASSUME IInv, IInv', FInv, ReleaseNext PROVE FInv'
<1>1. /\ turn.step = "release" /\ turn.step \notin {"idle", "unlink"}
      /\ UNCHANGED <<disk, worker, mishaps>> /\ turn \in Turns /\ turn.segment = 0
  BY TurnInHand DEF ReleaseNext, TurnOnly
<1>2. CASE turn' = [turn EXCEPT !.step = "candidates"] /\ UNCHANGED rec
  <2>1. turn'.step = "candidates"
    BY <1>1, <1>2, Zenon DEF Turns
  <2> QED BY <1>1, <1>2, <2>1, TurnMoves
<1>3. ASSUME NEW choice \in Recs \X Ordinals, MayDelete(choice[1], TRUE),
             BeginDelete(turn, choice[1], "candidates")
      PROVE  FInv'
  BY <1>1, <1>3, DeletingFiles
<1>4. ASSUME NEW choice \in Recs \X Ordinals, UNCHANGED rec,
             turn' = [turn EXCEPT !.step = "unlink", !.rec = choice[1], !.segment = choice[2],
                                  !.keys = {choice[2]}, !.next = "candidates"]
      PROVE  FInv'
  <2> DEFINE r == choice[1]
             n == choice[2]
  <2>1. r \in Recs /\ n \in Ordinals /\ n # 0
    BY DEF Ordinals
  <2> HIDE DEF r, n
  <2>2. turn' = [turn EXCEPT !.step = "unlink", !.rec = r, !.segment = n, !.keys = {n},
                             !.next = "candidates"]
    BY <1>4 DEF r, n
  <2>3. turn'.segment = n /\ turn'.keys = {n}
    BY <1>1, <2>2, Zenon DEF Turns
  <2>4. UnlinkedOK'
    BY <2>1, <2>3 DEF UnlinkedOK
  <2>5. KeptOK(r, rec[r], disk[r], worker[r]) /\ FileStep(rec[r], disk[r], rec[r], disk[r])
    BY <2>1, FilesInHand, MovedKept
  <2> QED BY <1>1, <1>4, <2>1, <2>4, <2>5, OneStep
<1>5. ReleaseChoices(turn.by = "reclaim") \subseteq Recs \X Ordinals
  BY DEF ReleaseChoices
<1> QED BY <1>2, <1>3, <1>4, <1>5, Zenon DEF ReleaseNext

LEMMA CandidatesFiles == ASSUME IInv, IInv', FInv, Candidates PROVE FInv'
<1> DEFINE todo == PruneCandidates(turn.by = "reclaim")
<1>1. /\ turn.step = "candidates" /\ turn \in Turns
      /\ UNCHANGED <<rec, disk, worker, mishaps>>
      /\ turn' = IF todo = {} THEN NoTurn ELSE [turn EXCEPT !.step = "prune", !.todo = todo]
  BY Zenon DEF Candidates, TurnOnly, IInv, TypeOK
<1> HIDE DEF todo
<1>2. CASE todo = {}
  BY <1>1, <1>2, NoTurnType, TurnMoves
<1>3. CASE todo # {}
  <2>1. turn' = [turn EXCEPT !.step = "prune", !.todo = todo]
    BY <1>1, <1>3
  <2>2. turn'.step = "prune"
    BY <1>1, <2>1, Zenon DEF Turns
  <2> QED BY <1>1, <2>2, TurnMoves
<1> QED BY <1>2, <1>3

LEMMA PruneNextFiles == ASSUME IInv, IInv', FInv, PruneNext PROVE FInv'
<1>1. /\ turn.step = "prune" /\ turn.step \notin {"idle", "unlink"} /\ turn \in Turns
      /\ UNCHANGED <<disk, worker, mishaps>> /\ turn.segment = 0
  BY TurnInHand DEF PruneNext, TurnOnly
<1>2. CASE /\ turn' = IF turn.by = "reclaim" THEN [turn EXCEPT !.step = "release"] ELSE NoTurn
           /\ UNCHANGED rec
  <2>1. ASSUME turn' = [turn EXCEPT !.step = "release"] PROVE turn'.step = "release"
    BY <1>1, <2>1, Zenon DEF Turns
  <2> QED BY <1>1, <1>2, <2>1, NoTurnType, TurnMoves
<1>3. ASSUME NEW r \in turn.todo, MayDelete(r, TRUE),
             BeginDelete([turn EXCEPT !.todo = @ \ {r}], r, "prune")
      PROVE  FInv'
  <2> DEFINE left == turn.todo \ {r}
             t == [turn EXCEPT !.todo = left]
  <2>1. left \in SUBSET Recs /\ r \in Recs
    BY <1>1 DEF Turns
  <2>2. BeginDelete(t, r, "prune")
    BY <1>3
  <2> HIDE DEF left
  <2>3. t \in Turns /\ t.segment = turn.segment
    BY <1>1, <2>1, Zenon DEF Turns
  <2> HIDE DEF t
  <2> QED BY <1>1, <1>3, <2>1, <2>2, <2>3, DeletingFiles
<1> QED BY <1>2, <1>3, Zenon DEF PruneNext

LEMMA RecoverDeletionsFiles == ASSUME IInv, IInv', FInv, RecoverDeletions PROVE FInv'
<1>1. turn = NoTurn /\ UNCHANGED <<disk, worker, mishaps>>
  BY DEF RecoverDeletions, TurnOnly
<1>2. ASSUME NEW r \in PendingDeletions, MayDelete(r, FALSE),
             BeginDelete([NoTurn EXCEPT !.by = "boot"], r, "idle")
      PROVE  FInv'
  <2> DEFINE t == [NoTurn EXCEPT !.by = "boot"]
  <2>1. r \in Recs
    BY DEF PendingDeletions
  <2>2. t \in Turns /\ t.segment = NoTurn.segment
    BY NoTurnType, Zenon DEF Turns
  <2>3. BeginDelete(t, r, "idle")
    BY <1>2
  <2> HIDE DEF t
  <2> QED BY <1>1, <1>2, <2>1, <2>2, <2>3, NoTurnType, DeletingFiles
<1>3. CASE UNCHANGED <<rec, turn>>
  <2>1. mishaps <= mishaps'
    BY <1>1, DvrAssumption DEF IInv, TypeOK
  <2> QED BY <1>1, <1>3, <2>1, QuietFiles
<1> QED BY <1>2, <1>3 DEF RecoverDeletions

\* A file goes: no other is torn by it, and its own only while it is in hand.
LEMMA UnlinkFiles == ASSUME IInv, IInv', FInv, Unlink PROVE FInv'
<1> DEFINE r == turn.rec
           w == rec[r]
<1>1. PICK n \in turn.keys : /\ disk' = [disk EXCEPT ![r][n] = 0]
                            /\ turn' = [turn EXCEPT !.keys = @ \ {n}]
  BY DEF Unlink
<1>2. /\ turn.step = "unlink" /\ turn \in Turns /\ r \in Recs /\ n \in Ordinals
      /\ UNCHANGED <<rec, worker, mishaps>>
      /\ disk[r] \in Disks /\ disk \in [Recs -> Disks]
      /\ RowOK(r, w) /\ KeptOK(r, w, disk[r], worker[r])
  <2>1. turn.step = "unlink" /\ turn \in Turns /\ UNCHANGED <<rec, worker, mishaps>>
    BY DEF Unlink, TurnOnly, IInv, TypeOK
  <2>2. r \in Recs
    BY <2>1 DEF IInv, TurnOK
  <2> QED BY <2>1, <2>2, InHand, FilesInHand DEF Turns
<1>3. /\ turn.segment = 0 => w.storage = "deleting"
      /\ turn.segment # 0 => OnShelf(w) /\ n = turn.segment /\ n \in Segments(w)
  BY <1>2 DEF IInv, TurnOK
<1>4. /\ turn'.rec = r /\ turn'.segment = turn.segment /\ turn'.keys = turn.keys \ {n}
      /\ turn'.step = "unlink"
  <2> DEFINE left == turn.keys \ {n}
  <2>1. turn' = [turn EXCEPT !.keys = left]
    BY <1>1
  <2> HIDE DEF left
  <2>2. /\ turn'.rec = r /\ turn'.segment = turn.segment /\ turn'.keys = left
        /\ turn'.step = turn.step
    BY <1>2, <2>1, Zenon DEF Turns
  <2> QED BY <1>2, <2>2 DEF left
<1>5. /\ disk'[r] = Put(disk[r], n, 0) /\ \A x \in Recs \ {r} : disk'[x] = disk[x]
      /\ disk'[r][n] = 0 /\ \A m \in Ordinals : m # n => disk'[r][m] = disk[r][m]
  <2>1. disk'[r] = Put(disk[r], n, 0) /\ \A x \in Recs \ {r} : disk'[x] = disk[x]
    BY <1>1, <1>2, Zenon DEF Put
  <2> QED BY <1>2, <2>1, PutTypes
<1>6. KeptOK(r, w, disk'[r], worker[r])
  <2>1. w.storage \in Filed /\ (w.storage # "deleting" => n \in Segments(w))
    BY <1>3 DEF OnShelf, Filed
  <2> QED BY <1>2, <1>5, <2>1, ErasedKept
<1>7. AllKept'
  <2> SUFFICES ASSUME NEW x \in Recs PROVE KeptOK(x, rec[x], disk'[x], worker[x])
    BY <1>2 DEF AllKept
  <2> QED BY <1>5, <1>6 DEF FInv, AllKept
<1>8. UnlinkedOK'
  <2>1. ASSUME turn.segment = 0, w.cause = "none", NEW m \in Ordinals \ (turn.keys \ {n})
        PROVE  disk'[r][m] = 0
    BY <1>2, <1>5, <2>1 DEF FInv, UnlinkedOK
  <2>2. ASSUME turn.segment # 0 PROVE disk'[r][turn.segment] = 0
    BY <1>3, <1>5, <2>2
  <2> QED BY <1>2, <1>4, <2>1, <2>2 DEF UnlinkedOK
<1>9. TornBounded'
  <2>1. (TornFiles \ Hand)' \subseteq TornFiles \ Hand
    <3> SUFFICES ASSUME NEW p \in Recs \X Ordinals, OnShelf(rec[p[1]]),
                        p[2] \in Unfreed(rec[p[1]]), disk'[p[1]][p[2]] = 0, p \notin Hand
                 PROVE  disk[p[1]][p[2]] = 0
      BY <1>2, <1>4 DEF TornFiles, Torn, Unfreed, Hand
    <3>1. ~(p[1] = r /\ p[2] = n)
      <4> SUFFICES ASSUME p[1] = r, p[2] = n PROVE FALSE
        OBVIOUS
      <4>1. turn.segment # 0 /\ n = turn.segment
        BY <1>3 DEF OnShelf
      <4>2. p = <<r, turn.segment>>
        BY <4>1
      <4> QED BY <4>1, <4>2 DEF Hand
    <3> QED BY <1>5, <3>1
  <2>2. mishaps \in Nat /\ mishaps' \in Nat /\ mishaps <= mishaps'
    BY <1>2, DvrAssumption DEF IInv, TypeOK
  <2> QED BY <2>1, <2>2, TornHolds DEF FInv
<1>10. ChargesFit'
  BY <1>2 DEF FInv, ChargesFit, Charged
<1> QED BY <1>7, <1>8, <1>9, <1>10 DEF FInv

\* An interruption leaves the file in hand torn, at most.
LEMMA Interrupted ==
    ASSUME IInv, FInv, UNCHANGED <<rec, disk>>, turn' = NoTurn, mishaps' = mishaps + 1, AllKept'
    PROVE  FInv'
<1>1. TornBounded'
  <2> DEFINE rest == TornFiles \ Hand
             p == <<turn.rec, turn.segment>>
  <2>1. (TornFiles \ Hand)' \subseteq rest \union {p}
    BY DEF TornFiles, Torn, Hand
  <2>2. /\ IsFiniteSet(rest) /\ Cardinality(rest) \in Nat /\ Cardinality(rest) <= mishaps
        /\ mishaps \in Nat
    BY TornFinite, FS_CardinalityType, DvrAssumption DEF FInv, TornBounded, IInv, TypeOK
  <2> HIDE DEF rest, p
  <2>3. /\ IsFiniteSet(rest \union {p}) /\ Cardinality(rest \union {p}) \in Nat
        /\ Cardinality(rest \union {p}) <= Cardinality(rest) + 1
    BY <2>2, FS_AddElement, FS_CardinalityType, SMTT(30)
  <2>4. /\ Cardinality((TornFiles \ Hand)') <= Cardinality(rest \union {p})
        /\ Cardinality((TornFiles \ Hand)') \in Nat
    BY <2>1, <2>3, FS_Subset, FS_CardinalityType
  <2> QED BY <2>2, <2>3, <2>4 DEF TornBounded
<1>2. UnlinkedOK'
  BY NoTurnType DEF UnlinkedOK
<1>3. ChargesFit'
  BY DEF FInv, ChargesFit, Charged
<1> QED BY <1>1, <1>2, <1>3 DEF FInv

LEMMA UnlinkFailsFiles == ASSUME IInv, FInv, UnlinkFails PROVE FInv'
<1>1. /\ UNCHANGED <<rec, disk, worker>> /\ turn' = NoTurn /\ mishaps' = mishaps + 1
  BY DEF UnlinkFails, TurnOnly, Mishap
<1>2. AllKept'
  BY <1>1 DEF FInv, AllKept
<1> QED BY <1>1, <1>2, Interrupted

LEMMA CrashFiles == ASSUME IInv, FInv, Crash PROVE FInv'
<1>1. /\ UNCHANGED <<rec, disk>> /\ turn' = NoTurn /\ mishaps' = mishaps + 1
      /\ worker' = [r \in Recs |-> NoWorker]
  BY DEF Crash, Mishap
<1>2. AllKept'
  <2> SUFFICES ASSUME NEW x \in Recs PROVE KeptOK(x, rec[x], disk[x], worker'[x])
    BY <1>1 DEF AllKept
  <2>1. worker'[x].at = "none"
    BY <1>1, NoWorkerType
  <2>2. WorkOK(x, rec[x], disk[x], worker'[x])
    BY <2>1, StoppedWork
  <2> QED BY <2>2, FilesInHand, MovedKept
<1> QED BY <1>1, <1>2, Interrupted

\* The row records what the turn removed.
LEMMA CommitFiles == ASSUME IInv, IInv', FInv, Commit PROVE FInv'
<1> DEFINE r == turn.rec
           n == turn.segment
           w == rec[r]
<1>1. /\ turn.step = "unlink" /\ turn.keys = {} /\ r \in Recs /\ turn \in Turns
      /\ turn' = Continued /\ UNCHANGED <<disk, worker, mishaps>>
  BY DEF Commit, TurnOnly, IInv, TypeOK, TurnOK
<1>2. RowOK(r, w) /\ KeptOK(r, w, disk[r], worker[r]) /\ disk[r] \in Disks
  BY <1>1, InHand, FilesInHand
<1>3. UnlinkedOK'
  BY <1>1, ContinuedTurn, NoTurnType DEF UnlinkedOK
<1>4. CASE n = 0 /\ w.capture \notin Active /\ Row(r, Deleted(w))
  <2>1. w.cause = "none" => \A m \in Ordinals : disk[r][m] = 0
    BY <1>1, <1>4 DEF FInv, UnlinkedOK
  <2>2. KeptOK(r, Deleted(w), disk[r], worker[r]) /\ FileStep(w, disk[r], Deleted(w), disk[r])
    BY <1>1, <1>2, <1>4, <2>1, DeletedKept
  <2>3. rec'[r] = Deleted(w) /\ \A x \in Recs \ {r} : rec'[x] = rec[x]
    BY <1>1, <1>4, FilesInHand DEF Row
  <2> QED BY <1>1, <1>3, <1>4, <2>2, <2>3, OneStep
<1>5. CASE n # 0 /\ Row(r, Released(w, n))
  <2> DEFINE v == Released(w, n)
  <2>1. OnShelf(w) /\ n \in Unfreed(w) /\ disk[r][n] = 0
    BY <1>1, <1>5 DEF IInv, TurnOK, Unfreed, FInv, UnlinkedOK
  <2>2. KeptOK(r, v, disk[r], worker[r]) /\ FileStep(w, disk[r], v, disk[r])
    BY <1>1, <1>2, <2>1, ReleasedKept
  <2>3. v.released = w.released \union {n}
    BY <1>2, Zenon DEF Released, RowOK, Rows
  <2>4. rec'[r] = v /\ \A x \in Recs \ {r} : rec'[x] = rec[x]
    BY <1>1, <1>5, FilesInHand DEF Row
  <2> HIDE DEF v
  <2>5. n \notin TornOf(v, disk[r])
    BY <2>3 DEF TornOf, Unfreed
  <2> QED BY <1>1, <1>3, <2>2, <2>4, <2>5, OneStep
<1> QED BY <1>4, <1>5 DEF Commit

\* ------------------------------------------------------ start-up, readers --

LEMMA RecoverCapturesFiles == ASSUME IInv, IInv', FInv, RecoverCaptures PROVE FInv'
<1>1. /\ service = "down" /\ UNCHANGED <<disk, worker, turn, mishaps>>
      /\ rec' = [r \in Recs |-> IF rec[r].capture \in Active THEN Recovered(rec[r]) ELSE rec[r]]
  BY DEF RecoverCaptures
<1>2. turn = NoTurn /\ \A r \in Recs : worker[r].at = "none"
  BY <1>1 DEF IInv, ServiceOK
<1>3. ASSUME NEW x \in Recs
      PROVE  KeptOK(x, rec'[x], disk[x], worker[x]) /\ FileStep(rec[x], disk[x], rec'[x], disk[x])
  <2>1. RowOK(x, rec[x]) /\ KeptOK(x, rec[x], disk[x], worker[x]) /\ worker[x].at = "none"
    BY <1>2, InHand, FilesInHand
  <2>2. CASE rec[x].capture \in Active
    <3>1. rec'[x] = Recovered(rec[x]) /\ rec[x].storage # "none"
      BY <1>1, <2>2, InHand
    <3>2. LET v == Recovered(rec[x]) IN
          KeptOK(x, v, disk[x], worker[x]) /\ FileStep(rec[x], disk[x], v, disk[x])
      BY <2>1, <2>2, <3>1, GivenUpKept DEF Recovered
    <3> QED BY <3>1, <3>2
  <2>3. CASE rec[x].capture \notin Active
    <3>1. rec'[x] = rec[x]
      BY <1>1, <2>3
    <3> QED BY <3>1, FilesInHand, MovedKept
  <2> QED BY <2>2, <2>3
<1>4. Hand = {} /\ UnlinkedOK'
  BY <1>1, <1>2, NoTurnType DEF Hand, UnlinkedOK
<1> QED BY <1>1, <1>3, <1>4, EachStep

LEMMA OtherFiles ==
    ASSUME IInv, IInv', FInv,
           \/ \E r \in Recs : Analyse(r)
           \/ \E q \in Readers : StartReader(q) \/ StopReader(q) \/ FinishReader(q)
           \/ Stop \/ Exit \/ RecoverReaders
           \/ UNCHANGED vars
    PROVE  FInv'
<1>1. UNCHANGED <<rec, disk, worker, turn>> /\ (mishaps' = mishaps \/ mishaps' = mishaps + 1)
  BY DEF Analyse, StartReader, StopReader, FinishReader, Stop, Exit, RecoverReaders, Mishap, vars
<1>2. mishaps <= mishaps'
  BY <1>1, DvrAssumption DEF IInv, TypeOK
<1> QED BY <1>1, <1>2, QuietFiles

\* ----------------------------------------------------------- the theorems --

LEMMA InitFiles == ASSUME Init PROVE FInv
<1>1. IInv
  BY InitIInv
<1>2. AllKept
  <2> SUFFICES ASSUME NEW r \in Recs PROVE KeptOK(r, NoRow, [n \in Ordinals |-> 0], NoWorker)
    BY DEF Init, AllKept
  <2>1. /\ NoRow.storage = "none" /\ NoRow.ends = <<>> /\ NoRow.released = {} /\ NoRow.freed = 0
        /\ NoRow.charged = 0
    BY DEF NoRow
  <2>2. Segments(NoRow) = {} /\ Sealed(NoRow) = 0 /\ Unfreed(NoRow) = {}
    BY <2>1 DEF Segments, Sealed, Unfreed
  <2>3. BooksOK(NoRow)
    BY <2>1, <2>2, TotalEmpty DEF BooksOK, Kept
  <2>4. FilesOK(NoRow, [n \in Ordinals |-> 0])
    BY <2>1 DEF FilesOK, Filed
  <2>5. WorkOK(r, NoRow, [n \in Ordinals |-> 0], NoWorker)
    BY NoWorkerType, StoppedWork
  <2> QED BY <2>3, <2>4, <2>5 DEF KeptOK
<1>3. UnlinkedOK
  BY NoTurnType DEF Init, UnlinkedOK
<1>4. TornBounded
  <2>1. TornFiles = {}
    BY DEF Init, TornFiles, OnShelf, NoRow
  <2> QED BY <2>1, FS_EmptySet DEF Init, TornBounded
<1>5. ChargesFit
  <2> DEFINE a == [r \in Recs |-> rec[r].charged]
             z == [r \in {} |-> 0]
  <2>1. \A r \in Recs : a[r] = 0
    BY DEF Init, NoRow
  <2>2. Charged = Total(a, Recs)
    BY DEF Charged
  <2> HIDE DEF a
  <2>3. Total(a, Recs) = Total(a, {})
    BY <2>1, DvrAssumption, TotalOutside
  <2> QED BY <2>2, <2>3, TotalEmpty, DvrAssumption DEF ChargesFit
<1> QED BY <1>2, <1>3, <1>4, <1>5 DEF FInv

LEMMA NextFiles == ASSUME IInv, FInv, [Next]_vars PROVE FInv'
<1>1. IInv'
  BY NextKeeps
<1>2. ASSUME NEW r \in Recs, Request(r) PROVE FInv'
  BY <1>1, <1>2, StartFiles, PauseFiles, RequestFiles, OtherFiles, DeleteFiles DEF Request
<1>3. ASSUME NEW r \in Recs, WorkerStep(r) \/ Age(r) PROVE FInv'
  BY <1>1, <1>3, ReadFiles, ReceiveFiles, GoesOnFiles, FailsFiles, RequestFiles DEF WorkerStep
<1>4. ASSUME NEW r \in Recs, WorkerCall(r) PROVE FInv'
  BY <1>1, <1>4, FailsFiles, ConnectFiles, OpenFiles, ReleaseOpenFiles, SealFiles, GoesOnFiles,
     EndedInCallFiles, FinishFiles DEF WorkerCall
<1>5. ASSUME NEW q \in Readers, StartReader(q) \/ StopReader(q) \/ FinishReader(q) PROVE FInv'
  BY <1>1, <1>5, OtherFiles
<1>6. ASSUME NEW by \in {"sweep", "prune"}, BeginPrune(by) PROVE FInv'
  BY <1>1, <1>6, BeginPruneFiles
<1>7. CASE TurnStep
  BY <1>1, <1>7, ReleaseNextFiles, CandidatesFiles, PruneNextFiles, UnlinkFiles,
     UnlinkFailsFiles, CommitFiles, AdmitReclaimedFiles DEF TurnStep
<1>8. CASE Stop \/ Exit \/ Crash
  BY <1>1, <1>8, OtherFiles, CrashFiles
<1>9. CASE Recovery
  BY <1>1, <1>9, RecoverCapturesFiles, OtherFiles, RecoverDeletionsFiles DEF Recovery
<1>10. CASE UNCHANGED vars
  BY <1>1, <1>10, OtherFiles
<1> QED BY <1>2, <1>3, <1>4, <1>5, <1>6, <1>7, <1>8, <1>9, <1>10 DEF Next

\* In every state the charges fit the quota, each charge covers the segments
\* that were not released and the file being staged, nothing else is on
\* disk, and every torn file is in the turn's hand or due to an interruption.
THEOREM FilesKept == Spec => [](IInv /\ FInv)
<1>1. Init => IInv /\ FInv
  BY InitIInv, InitFiles
<1>2. IInv /\ FInv /\ [Next]_vars => (IInv /\ FInv)'
  BY NextKeeps, NextFiles
<1> QED BY <1>1, <1>2, PTL DEF Spec

\* The quota bounds the bytes on disk: the charges never exceed it, and until
\* a recording is deleted its files, abandoned ones too, fit in its charge.
THEOREM QuotaCovers == Spec => []QuotaCoversDisk
<1>1. IInv /\ FInv => QuotaCoversDisk
  <2> SUFFICES ASSUME IInv, FInv, NEW r \in Recs, rec[r].storage # "deleted"
               PROVE  Charged <= Quota /\ Stored(r) <= rec[r].charged
    BY DEF QuotaCoversDisk, FInv, ChargesFit
  <2>1. /\ RowOK(r, rec[r]) /\ BooksOK(rec[r]) /\ FilesOK(rec[r], disk[r]) /\ disk[r] \in Disks
        /\ rec[r] \in Rows
    BY InHand, FilesInHand
  <2>2. CASE rec[r].storage \in Filed
    BY <2>1, <2>2, StoredFits DEF Stored, FInv, ChargesFit
  <2>3. CASE rec[r].storage = "none"
    <3>1. rec[r] = NoRow
      BY <2>1, <2>3 DEF RowOK, WellKept
    <3>2. \A n \in Ordinals : disk[r][n] = 0
      BY <2>1, <3>1 DEF FilesOK, NoRow
    <3>3. IsFiniteSet(Ordinals) /\ {} \subseteq Ordinals
      BY RecordingsAssumption, FS_Interval DEF Ordinals
    <3>4. Stored(r) = 0
      BY <3>2, <3>3, TotalOutside, TotalEmpty DEF Stored
    <3> QED BY <3>1, <3>4 DEF NoRow, FInv, ChargesFit
  <2>4. rec[r].storage \in Filed \union {"none"}
    BY <2>1 DEF Rows, Filed
  <2> QED BY <2>2, <2>3, <2>4
<1> QED BY <1>1, FilesKept, PTL

\* Each row that promises a file that is not there is due to an interruption
\* of its own, but for the one the turn has in hand.
THEOREM TornByInterruption == Spec => []TornOnlyByInterruption
<1>1. IInv /\ FInv => TornOnlyByInterruption
  <2> SUFFICES ASSUME IInv, FInv PROVE TornOnlyByInterruption
    OBVIOUS
  <2> DEFINE rest == TornFiles \ Hand
             p == <<turn.rec, turn.segment>>
  <2>1. /\ IsFiniteSet(rest) /\ Cardinality(rest) \in Nat /\ Cardinality(rest) <= mishaps
        /\ mishaps \in Nat
    BY TornFinite, FS_CardinalityType, DvrAssumption DEF FInv, TornBounded, IInv, TypeOK
  <2>2. CASE turn.segment = 0
    <3>1. rest = TornFiles
      BY <2>2 DEF Hand
    <3> QED BY <2>1, <2>2, <3>1 DEF TornOnlyByInterruption
  <2>3. CASE turn.segment # 0
    <3>1. TornFiles \subseteq rest \union {p}
      BY DEF Hand
    <3> HIDE DEF rest, p
    <3>2. /\ IsFiniteSet(rest \union {p}) /\ Cardinality(rest \union {p}) \in Nat
          /\ Cardinality(rest \union {p}) <= Cardinality(rest) + 1
      BY <2>1, FS_AddElement, FS_CardinalityType
    <3>3. Cardinality(TornFiles) <= Cardinality(rest \union {p}) /\ Cardinality(TornFiles) \in Nat
      BY <3>1, <3>2, FS_Subset, FS_CardinalityType
    <3> QED BY <2>1, <2>3, <3>2, <3>3 DEF TornOnlyByInterruption
  <2> QED BY <2>2, <2>3
<1> QED BY <1>1, FilesKept, PTL

\* A deleted recording has left no file, the staged one of an interrupted
\* capture included, unless its capture ended inside a call.
THEOREM DeletionsComplete == Spec => []DeletionLeavesNothing
<1>1. IInv /\ FInv => DeletionLeavesNothing
  BY DEF FInv, AllKept, KeptOK, FilesOK, DeletionLeavesNothing
<1> QED BY <1>1, FilesKept, PTL
=============================================================================
