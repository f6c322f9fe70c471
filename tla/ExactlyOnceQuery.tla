-------------------------- MODULE ExactlyOnceQuery --------------------------
(***************************************************************************)
(* What a streaming query with a checkpoint promises, with no checkpoint   *)
(* and no failure in it: it takes transactions.validated in contiguous     *)
(* batches, each in one step, and each batch adds its rows to the table    *)
(* once. Batches are cut anywhere, and the watermark may lag behind what   *)
(* the events allow, but it never runs ahead of them.                      *)
(***************************************************************************)
EXTENDS EventTime

CONSTANT Kind   \* "silver" or "gold": which rows go to the table

VARIABLES
  input,     \* transactions.validated
  done,      \* the number of records taken
  wm,        \* the watermark of the last batch
  seen,      \* the rows accepted so far
  counted,   \* the rows counted in windows that are still open
  table      \* the rows of each batch

vars == <<input, done, wm, seen, counted, table>>

Init ==
  /\ input = << >> /\ done = 0 /\ wm = 0 /\ seen = {} /\ counted = {}
  /\ table = << >>

Arrive(r) ==
  /\ input' = Append(input, r)
  /\ UNCHANGED <<done, wm, seen, counted, table>>

Batch(end, w) ==
  LET new    == Accepted(input, done + 1 .. end, wm, seen)
      all    == IF Kind = "gold" THEN counted \cup Counts(input, new, wm) ELSE {}
      closed == Closed(all, input, w)
  IN /\ wm <= w /\ w <= Advance(0, input, 1 .. done)
     /\ done' = end
     /\ wm' = w
     /\ seen' = seen \cup new
     /\ counted' = all \ closed
     /\ table' = Append(table, IF Kind = "gold" THEN GoldRows(closed, input) ELSE new)
     /\ UNCHANGED input

Next ==
  \/ \E r \in Records : Arrive(r)
  \/ \E end \in done .. Len(input), w \in Watermarks : Batch(end, w)

Spec == Init /\ [][Next]_vars

=============================================================================
