----------------------------- MODULE Inspector -----------------------------
(***************************************************************************)
(* producer.inspect_topic: a reader of its own group that prints records   *)
(* from the beginning of a topic until it has as many as it was asked for  *)
(* or its time is over. A record is readable or not: JSON that is an       *)
(* object, under a key in UTF-8.                                           *)
(***************************************************************************)
EXTENDS Naturals, Sequences

CONSTANT MaxMessages   \* --max-messages

VARIABLES
  topic,     \* the topic: whether each record is readable
  status,    \* "idle", "reading", or how it exited: "ok" (0), "failed" (1)
  position,  \* the next record it reads
  printed    \* the records it has printed

vars == <<topic, status, position, printed>>

Init == status = "idle" /\ position = 0 /\ printed = << >>

\* Mutant of Start: auto.offset.reset is latest.
StartAtEnd ==
  /\ status = "idle"
  /\ status' = "reading" /\ position' = Len(topic) + 1
  /\ UNCHANGED <<topic, printed>>

\* main: the group is new and auto.offset.reset is earliest.
Start ==
  /\ status = "idle"
  /\ status' = "reading" /\ position' = 1
  /\ UNCHANGED <<topic, printed>>

Wanting == status = "reading" /\ Len(printed) < MaxMessages

PrintRecord ==
  /\ Wanting
  /\ position <= Len(topic) /\ topic[position]
  /\ printed' = Append(printed, position)
  /\ position' = position + 1
  /\ UNCHANGED <<topic, status>>

\* parse_payload or decode_key raises.
ReadRaises ==
  /\ Wanting
  /\ position <= Len(topic) /\ ~topic[position]
  /\ status' = "failed"
  /\ UNCHANGED <<topic, position, printed>>

\* poll returns an error.
PollFails ==
  /\ Wanting
  /\ status' = "failed"
  /\ UNCHANGED <<topic, position, printed>>

\* Mutant of TimesOut: without a deadline.
WaitsForever == FALSE

\* The deadline passes with records missing.
TimesOut ==
  /\ Wanting
  /\ status' = "failed"
  /\ UNCHANGED <<topic, position, printed>>

Finish ==
  /\ status = "reading" /\ Len(printed) = MaxMessages
  /\ status' = "ok"
  /\ UNCHANGED <<topic, position, printed>>

Step == Start \/ PrintRecord \/ ReadRaises \/ TimesOut \/ Finish

-----------------------------------------------------------------------------
(* Properties *)

(***************************************************************************)
(* PrintedTheFirst: status 0 says that the first records of the topic, as  *)
(* many as asked for, are printed, and nothing else: none was passed over  *)
(* because it could not be read.                                           *)
(***************************************************************************)
PrintedTheFirst ==
  status = "ok" =>
    /\ printed = [i \in 1 .. MaxMessages |-> i]
    /\ \A i \in 1 .. MaxMessages : topic[i]

(***************************************************************************)
(* InspectionEnds: it exits although the topic may stay silent             *)
(* (consume_and_print, deadline).                                          *)
(***************************************************************************)
InspectionEnds == status = "reading" ~> status \in {"ok", "failed"}

=============================================================================
