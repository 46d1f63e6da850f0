------------------------------- MODULE RunLog -------------------------------
(***************************************************************************)
(* The ring under the run history (and, with another length, under the     *)
(* fault log): a fixed array, the index of its newest row and a count.  A  *)
(* ring is a record; what its callers see of it is the sequence of its     *)
(* rows, oldest first, and that is also what is written to flash.          *)
(***************************************************************************)
EXTENDS Integers, Sequences

CONSTANTS
  Depth,            \* RUNLOG_DEPTH
  EmptyRow          \* what an unwritten place of the array holds

ASSUME DepthAssumption == Depth \in Nat \ {0}

Rings(Row) == [slot : [0 .. Depth - 1 -> Row], head : 0 .. Depth - 1, count : 0 .. Depth]

EmptyRing == [slot |-> [i \in 0 .. Depth - 1 |-> EmptyRow], head |-> 0, count |-> 0]

\* RunLog::push.  The first row goes to place 0; once full, the newest takes
\* the oldest one's place.
push_NoLap(r, e) ==
  IF r.count = Depth THEN r
  ELSE LET h == IF r.count = 0 THEN 0 ELSE (r.head + 1) % Depth
       IN  [slot |-> [r.slot EXCEPT ![h] = e], head |-> h, count |-> r.count + 1]

push(r, e) ==
  LET h == IF r.count = 0 THEN 0 ELSE (r.head + 1) % Depth
  IN  [slot  |-> [r.slot EXCEPT ![h] = e],
       head  |-> h,
       count |-> IF r.count < Depth THEN r.count + 1 ELSE Depth]

\* RunLog::at: newest first.
at(r, i) == IF i < r.count THEN r.slot[(r.head + Depth - i) % Depth] ELSE EmptyRow

\* RunLog::head.
head(r) == at(r, 0)

\* RunLog::serialize: oldest first.
serialize(r) == [k \in 1 .. r.count |-> at(r, r.count - k)]

\* RunLog::deserialize, into the empty ring of a boot: the last Depth rows of
\* the blob, pushed in order.
LastOf(blob) == IF Len(blob) > Depth
                  THEN SubSeq(blob, Len(blob) - Depth + 1, Len(blob)) ELSE blob
deserialize(blob) ==
  LET rows == LastOf(blob)
      n    == Len(rows)
  IN  [slot  |-> [i \in 0 .. Depth - 1 |-> IF i < n THEN rows[i + 1] ELSE EmptyRow],
       head  |-> IF n = 0 THEN 0 ELSE n - 1,
       count |-> n]

-----------------------------------------------------------------------------
(* What a ring promises: a sequence that forgets its oldest row when full. *)
Remember(rows, e) == LastOf(Append(rows, e))
=============================================================================
