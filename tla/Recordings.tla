------------------------------ MODULE Recordings ------------------------------
(***************************************************************************)
(* A recording's row and the catalog transactions on it (storage/dvr.rs):  *)
(* the bytes reserved for it, the open segment, the sealed intervals,      *)
(* their releases, the holds and the gap.  Each transaction is a guard on  *)
(* the row and the row it leaves; the Dvr module says who runs it when.    *)
(*                                                                         *)
(* An object key is the ordinal it was made for (the recording's own key   *)
(* is ordinal 1).  The timeline is left out: where a segment or a gap lies *)
(* on it decides no transaction here, and of a gap its cause is kept.      *)
(***************************************************************************)
EXTENDS CaptureJournal, Sequences, FiniteSets, FiniteSetsExt

CONSTANTS
    Ceiling,     \* OPEN_SEGMENT_CEILING
    MaxSegments  \* bound of the model: segments of one recording

ASSUME RecordingsAssumption == Ceiling \in Nat \ {0} /\ MaxSegments \in Nat \ {0}

Ordinals == 1 .. MaxSegments
Causes == {"none", "refused_renewal", "capture_pause", "backward_clock"}

Rows == [capture : States, version : Versions,
         storage : {"none", "reserved", "retained", "deleting", "deleted"},
         maximum : Nat, temporary : BOOLEAN, charged : Int, escrow : Int, open : Nat,
         key : Ordinals \union {0}, ends : Seq(Nat), released : SUBSET Ordinals, freed : Int,
         held : SUBSET Ordinals, media : Int, cause : Causes, receipt : BOOLEAN,
         aged : BOOLEAN, agedTo : Nat]

NoRow == [capture |-> "scheduled", version |-> [generation |-> 0, revision |-> 0],
          storage |-> "none", maximum |-> 0, temporary |-> TRUE, charged |-> 0, escrow |-> 0,
          open |-> 0, key |-> 0, ends |-> <<>>, released |-> {}, freed |-> 0, held |-> {},
          media |-> 0, cause |-> "none", receipt |-> FALSE, aged |-> FALSE, agedTo |-> 0]

Segments(w) == DOMAIN w.ends
Sealed(w) == IF w.ends = <<>> THEN 0 ELSE w.ends[Len(w.ends)]
Length(w, n) == w.ends[n] - (IF n = 1 THEN 0 ELSE w.ends[n - 1])
Unreleased(w) == Sealed(w) - w.freed  \* freed: the sum over recording_releases
OnShelf(w) == w.storage \in {"reserved", "retained"}

\* One journal event: the state it leads to and the version it leaves.
Journal(w, event) == [w EXCEPT !.capture = After(@, event), !.version = NextVersion(@, event)]

\* Admission reserves the whole ceiling and starts the capture.  A request
\* to retain it is the retain that may follow at once.
Admitted(maximum) ==
    Journal([NoRow EXCEPT !.storage = "reserved", !.maximum = maximum, !.charged = maximum,
                          !.escrow = maximum], "start")

\* end_with_gap: the capture ends in the same transaction as its gap.  The
\* key of an open segment is forgotten.
EndedWithGap(w, cause, event) ==
    Journal([w EXCEPT !.cause = cause, !.escrow = @ + w.open, !.open = 0,
                      !.key = IF w.open > 0 THEN 0 ELSE @], event)

\* Mutant: a recovered capture does not get its open segment's bytes back.
RecoveredShort(w) == Journal([w EXCEPT !.open = 0], "lost")

\* fail_recording and recover_captures keep the key of the open segment.
Failed(w) == Journal([w EXCEPT !.escrow = @ + w.open, !.open = 0], "fail")
Recovered(w) == Journal([w EXCEPT !.escrow = @ + w.open, !.open = 0], "lost")

CanOpen(w) == w.capture = "running" /\ w.storage = "reserved" /\ w.open = 0

\* Mutant: a new segment takes the key after the next.
OpenedAhead(w) == [w EXCEPT !.escrow = @ - Ceiling, !.open = Ceiling, !.key = Len(w.ends) + 2]

Opened(w) == [w EXCEPT !.escrow = @ - Ceiling, !.open = Ceiling, !.key = Len(w.ends) + 1]
Withdrawn(w) == [w EXCEPT !.escrow = @ + w.open, !.open = 0, !.key = 0]

CanSeal(w, bytes) ==
    w.capture = "running" /\ w.storage = "reserved" /\ bytes <= w.open /\ w.key # 0
SealedWith(w, bytes) ==
    [w EXCEPT !.ends = Append(@, Sealed(w) + bytes),
              !.escrow = @ + w.open - bytes, !.open = 0, !.key = 0]

\* Publication: the charge becomes what is still on disk.
Published(w, charge) ==
    Journal(Journal([w EXCEPT !.storage = "retained", !.charged = charge, !.media = charge,
                              !.escrow = 0, !.open = 0, !.key = 0], "stop"), "finalized")
CanComplete(w) ==
    /\ w.capture = "running" /\ w.storage = "reserved" /\ w.open = 0 /\ w.key = 0
    /\ w.escrow + Sealed(w) = w.maximum
    /\ Unreleased(w) > 0  \* CHECK(media_bytes > 0)
Completed(w) == Published(w, Unreleased(w))
CanPublish(w, bytes) ==
    w.capture = "starting" /\ w.storage = "reserved" /\ bytes <= w.charged /\ w.open = 0
PublishedWhole(w, bytes) == Published([w EXCEPT !.ends = <<bytes>>], bytes)

CanHold(w, range) == OnShelf(w) /\ (range \intersect Segments(w)) \ w.released # {}
HeldBy(w, range) == [w EXCEPT !.held = @ \union ((range \intersect Segments(w)) \ w.released)]

\* Mutant: the bytes are returned but the release is not recorded.
ReleasedUnrecorded(w, n) ==
    LET freed == IF w.storage = "retained" THEN Length(w, n) ELSE 0
    IN  [w EXCEPT !.charged = @ - freed, !.media = @ - freed]

\* mark_segment_released: a running reservation stays charged in full.
Released(w, n) ==
    LET freed == IF w.storage = "retained" THEN Length(w, n) ELSE 0
    IN  [w EXCEPT !.released = @ \union {n}, !.freed = @ + Length(w, n),
                  !.charged = @ - freed, !.media = @ - freed]

\* Mutant: the quota is freed when a deletion starts.
DeletingFreed(w) == [w EXCEPT !.storage = "deleting", !.charged = 0]

Deleting(w) == [w EXCEPT !.storage = "deleting"]

\* What a deleted row still lists (intervals, releases, holds) no transaction
\* reads again: the model forgets it.
Deleted(w) ==
    LET gone == [NoRow EXCEPT !.capture = w.capture, !.version = w.version,
                              !.storage = "deleted", !.cause = w.cause]
    IN  IF w.capture \in {"scheduled", "interrupted"} THEN Journal(gone, "cancel") ELSE gone

\* Mutant: the staged file of an open segment is not looked for.
ObjectKeysSealed(w) == {1} \union Segments(w)

\* The objects a deletion removes: the recording's own, the open segment's
\* and each interval's.
ObjectKeys(w) == ({1, w.key} \ {0}) \union Segments(w)
===============================================================================
