-------------------------- MODULE AtLeastOnceRelay --------------------------
(***************************************************************************)
(* What the validator promises to the rest of the pipeline, without any    *)
(* process, client or fault in it: raw records are relayed in order and at *)
(* least once, and the group's offset never runs ahead of what is relayed. *)
(* A record may be relayed again at any time, and the offset may move      *)
(* back: both happen when a member of the group is replaced mid-record.    *)
(***************************************************************************)
EXTENDS Topics

vars == <<raw, out, committed>>

\* A producer appends a record to transactions.raw.
Submit(class) ==
  /\ raw' = Append(raw, class)
  /\ UNCHANGED <<out, committed>>

\* Mutant of Relay: any record may go first.
RelayUnordered(o) ==
  /\ Routable(raw[o + 1])
  /\ out' = [out EXCEPT ![Dest(raw[o + 1])] = Append(@, o)]
  /\ UNCHANGED <<raw, committed>>

\* The record at o, or one more copy of it, reaches its topic.
Relay(o) ==
  /\ Routable(raw[o + 1])
  /\ AllBefore(o)
  /\ out' = [out EXCEPT ![Dest(raw[o + 1])] = Append(@, o)]
  /\ UNCHANGED <<raw, committed>>

\* The group's offset becomes n.
Acknowledge(n) ==
  /\ AllBefore(n)
  /\ committed' = n
  /\ UNCHANGED <<raw, out>>

Init == TopicsInit

Next ==
  \/ \E class \in Class : Submit(class)
  \/ \E o \in Offsets : Relay(o)
  \/ \E n \in 0 .. Len(raw) : Acknowledge(n)

Spec == Init /\ [][Next]_vars

=============================================================================
