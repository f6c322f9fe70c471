------------------------------ MODULE Validator ------------------------------
(***************************************************************************)
(* The validation service (validation/service.py): the members of one      *)
(* consumer group each run ValidationService.run, which takes a raw        *)
(* record, publishes its result to the validated or the dead-letter topic, *)
(* waits for the delivery report and commits the input offset.             *)
(*                                                                         *)
(* Around the code of src/ stand the parts of Kafka it relies on: the      *)
(* producer client's background thread (Transmit, RequestTimeout,          *)
(* DeliveryFailed), the broker (AppendResult, AppendOrphan) and the group  *)
(* coordinator (Assign, Rebalance).                                        *)
(*                                                                         *)
(* One instance handles one record at a time, so its producer client holds *)
(* at most one result: delivery[i] is that result's state, and its offset  *)
(* is current[i].                                                          *)
(***************************************************************************)
EXTENDS Topics, FiniteSets

CONSTANTS
  Instances,   \* the processes that may run the service
  NoOne,       \* the partition has no owner
  MaxRaw,      \* bound: records put in transactions.raw
  MaxFaults    \* bound: faults of clients, network, group and operator, and
               \* those after which the partition is still assigned

ASSUME InstancesAssumption == NoOne \notin Instances
ASSUME BoundsAssumption == MaxRaw \in Nat /\ MaxFaults \in Nat

VARIABLES
  owner,      \* the member the coordinator has assigned the raw partition to
  assigned,   \* the members whose consumer believes it has the partition
  pc,         \* where each instance is in run / process_message / close
  position,   \* next offset the instance's consumer fetches
  current,    \* offset of the record in process_message
  delivery,   \* the producer client's one result, see Delivery
  orphans,    \* per offset: requests on the network that no client waits for
  faults      \* faults so far

groupVars == <<owner, assigned, position>>
vars == <<raw, out, committed, owner, assigned, pc, position, current, delivery,
          orphans, faults>>

\* "polling", "processing", "flushing" and "committing" are inside run();
\* "closing" is the finally of main; "down" is a process that is gone.
Loop == {"polling", "processing", "flushing", "committing"}
PC == Loop \cup {"closing", "down"}

\* "queued": in the client's queue; "sent": the request is on the network;
\* "acked" / "failed": the report waits for poll or flush to serve it.
Delivery == {"none", "queued", "sent", "acked", "failed"}
InFlight == {"queued", "sent"}

TypeOK ==
  /\ TopicsTypeOK
  /\ owner \in Instances \cup {NoOne}
  /\ assigned \subseteq Instances
  /\ pc \in [Instances -> PC]
  /\ position \in [Instances -> Nat]
  /\ current \in [Instances -> Nat]
  /\ delivery \in [Instances -> Delivery]
  /\ orphans \in [0 .. MaxRaw - 1 -> Nat]
  /\ faults \in Nat

Init ==
  /\ TopicsInit
  /\ owner = NoOne
  /\ assigned = {}
  /\ pc = [i \in Instances |-> "down"]
  /\ position = [i \in Instances |-> 0]
  /\ current = [i \in Instances |-> 0]
  /\ delivery = [i \in Instances |-> "none"]
  /\ orphans = [o \in 0 .. MaxRaw - 1 |-> 0]
  /\ faults = 0

-----------------------------------------------------------------------------
(* Helpers *)

Fault == faults < MaxFaults /\ faults' = faults + 1

\* A call that waits for the broker gives up: counted, and never excluded, for
\* a broker may leave any number of requests unanswered.
Unanswered == faults' = faults + 1

Goto(i, where) == pc' = [pc EXCEPT ![i] = where]

\* The request of i's result, when it is on the network, outlives the
\* client that sent it.
Abandon(i) ==
  orphans' = IF delivery[i] = "sent" THEN [orphans EXCEPT ![current[i]] = @ + 1] ELSE orphans

\* The group has one member less.
Leave(i) ==
  /\ owner' = IF owner = i THEN NoOne ELSE owner
  /\ assigned' = assigned \ {i}

\* Mutant of StartOffset: auto.offset.reset latest.
StartLatest == IF committed = 0 THEN Len(raw) ELSE committed

\* Mutant of StartOffset: the group's offset is ignored.
StartEarliest == 0

\* Mutant of StartOffset: the last processed offset, not the next.
StartOneBefore == committed - 1

\* Where a member starts: the group's offset, or the start of the topic when
\* there is none (auto.offset.reset earliest).
StartOffset == committed

-----------------------------------------------------------------------------
(* The rest of the world *)

\* Producers append to transactions.raw.
ProduceRaw(class) ==
  /\ Len(raw) < MaxRaw
  /\ raw' = Append(raw, class)
  /\ UNCHANGED <<out, committed, owner, assigned, pc, position, current, delivery,
                 orphans, faults>>

\* The coordinator gives the unowned partition to a live member. (Its bound
\* keeps the calls that give up finite: each ends the life of a member.)
Assign(i) ==
  /\ faults <= MaxFaults
  /\ owner = NoOne
  /\ pc[i] # "down"
  /\ owner' = i
  /\ assigned' = assigned \cup {i}
  /\ position' = [position EXCEPT ![i] = StartOffset]
  /\ UNCHANGED <<raw, out, committed, pc, current, delivery, orphans, faults>>

\* The group rebalances while its owner lives, at any point of the owner's
\* process_message; the next owner (perhaps the same) starts from the
\* committed offset. The old one goes on until its consumer notices.
Rebalance(i) ==
  /\ owner # NoOne
  /\ pc[i] # "down"
  /\ Fault
  /\ owner' = i
  /\ assigned' = assigned \cup {i}
  /\ position' = [position EXCEPT ![i] = StartOffset]
  /\ UNCHANGED <<raw, out, committed, pc, current, delivery, orphans>>

\* A consumer learns that the partition is no longer its own.
Revoke(i) ==
  /\ i \in assigned
  /\ owner # i
  /\ assigned' = assigned \ {i}
  /\ UNCHANGED <<raw, out, committed, owner, pc, position, current, delivery,
                 orphans, faults>>

-----------------------------------------------------------------------------
(* ValidationService *)

\* main builds a service, which subscribes.
Start(i) ==
  /\ pc[i] = "down"
  /\ Goto(i, "polling")
  /\ UNCHANGED <<raw, out, committed, groupVars, current, delivery, orphans,
                 faults>>

\* run: poll(1.0) returned no message.
PollEmpty(i) ==
  /\ pc[i] = "polling"
  /\ i \in assigned => position[i] >= Len(raw)
  /\ UNCHANGED vars

\* run: poll(1.0) returned a record, whose error() is None.
Poll(i) ==
  /\ pc[i] = "polling"
  /\ i \in assigned
  /\ position[i] < Len(raw)
  /\ current' = [current EXCEPT ![i] = position[i]]
  /\ position' = [position EXCEPT ![i] = @ + 1]
  /\ Goto(i, "processing")
  /\ UNCHANGED <<raw, out, committed, owner, assigned, delivery, orphans, faults>>

\* process_message raises KafkaException for a message with an error, which
\* ends run.
PollError(i) ==
  /\ pc[i] = "polling"
  /\ Fault
  /\ Goto(i, "closing")
  /\ UNCHANGED <<raw, out, committed, groupVars, current, delivery, orphans>>

\* process_message: validate, then _publish up to produce and poll(0).
Publish(i) ==
  /\ pc[i] = "processing"
  /\ Routable(raw[current[i] + 1])
  /\ delivery' = [delivery EXCEPT ![i] = "queued"]
  /\ Goto(i, "flushing")
  /\ UNCHANGED <<raw, out, committed, groupVars, current, orphans, faults>>

\* Validation, serialisation or produce raises for this record: out of run.
PublishRaises(i) ==
  /\ pc[i] = "processing"
  /\ ~Routable(raw[current[i] + 1])
  /\ Goto(i, "closing")
  /\ UNCHANGED <<raw, out, committed, groupVars, current, delivery, orphans,
                 faults>>

\* produce refuses a record it could take another time (BufferError or
\* KafkaException, raised as KafkaPublishError).
ProduceRefused(i) ==
  /\ pc[i] = "processing"
  /\ Fault
  /\ Goto(i, "closing")
  /\ UNCHANGED <<raw, out, committed, groupVars, current, delivery, orphans>>

\* Mutant of FlushDone: the report is not waited for.
FlushUnchecked(i) ==
  /\ pc[i] = "flushing"
  /\ Goto(i, "committing")
  /\ UNCHANGED <<raw, out, committed, groupVars, current, delivery, orphans,
                 faults>>

\* _publish: flush served a successful report.
FlushDone(i) ==
  /\ pc[i] = "flushing"
  /\ delivery[i] = "acked"
  /\ delivery' = [delivery EXCEPT ![i] = "none"]
  /\ Goto(i, "committing")
  /\ UNCHANGED <<raw, out, committed, groupVars, current, orphans, faults>>

\* Mutant of FlushRaises: _delivery_errors is not looked at.
FlushIgnoresErrors(i) ==
  /\ pc[i] = "flushing"
  /\ delivery[i] = "failed"
  /\ delivery' = [delivery EXCEPT ![i] = "none"]
  /\ Goto(i, "committing")
  /\ UNCHANGED <<raw, out, committed, groupVars, current, orphans, faults>>

\* _publish: flush served a failed report, _raise_if_delivery_errors raises.
FlushRaises(i) ==
  /\ pc[i] = "flushing"
  /\ delivery[i] = "failed"
  /\ delivery' = [delivery EXCEPT ![i] = "none"]
  /\ Goto(i, "closing")
  /\ UNCHANGED <<raw, out, committed, groupVars, current, orphans, faults>>


\* _publish: flush(10.0) returned with the result still in the client.
FlushTimeout(i) ==
  /\ pc[i] = "flushing"
  /\ delivery[i] \in InFlight
  /\ Unanswered
  /\ Goto(i, "closing")
  /\ UNCHANGED <<raw, out, committed, groupVars, current, delivery, orphans>>

\* Mutant of Commit: offset(), not offset() + 1.
CommitSameOffset(i) ==
  /\ pc[i] = "committing"
  /\ owner = i \/ i \notin assigned
  /\ committed' = current[i]
  /\ Goto(i, "polling")
  /\ UNCHANGED <<raw, out, groupVars, current, delivery, orphans, faults>>

\* process_message: the synchronous commit of offset() + 1 succeeds. The
\* coordinator checks that the member is of the current generation, not that
\* the partition is its own: a member that has rejoined without it may commit.
Commit(i) ==
  /\ pc[i] = "committing"
  /\ owner = i \/ i \notin assigned
  /\ committed' = current[i] + 1
  /\ Goto(i, "polling")
  /\ UNCHANGED <<raw, out, groupVars, current, delivery, orphans, faults>>

\* The commit raises KafkaException: refused to a member that is no longer
\* the owner.
CommitRefused(i) ==
  /\ pc[i] = "committing"
  /\ owner # i
  /\ Goto(i, "closing")
  /\ UNCHANGED <<raw, out, committed, groupVars, current, delivery, orphans,
                 faults>>

\* The commit raises for another reason (no answer in time, no coordinator),
\* perhaps after the broker has stored the offset.
CommitFails(i) ==
  /\ pc[i] = "committing"
  /\ owner = i \/ i \notin assigned
  /\ Unanswered
  /\ committed' \in {committed, current[i] + 1}
  /\ Goto(i, "closing")
  /\ UNCHANGED <<raw, out, groupVars, current, delivery, orphans>>

\* run ends: max_messages, the deadline (both tested between records), or a
\* KeyboardInterrupt anywhere in the loop.
Stop(i) ==
  /\ pc[i] \in Loop
  /\ Fault
  /\ Goto(i, "closing")
  /\ UNCHANGED <<raw, out, committed, groupVars, current, delivery, orphans>>

\* close and the end of the process: flush(10) serves the report or times out.
\* Whether or not close raises, the process ends and the group loses a member.
Close(i) ==
  /\ pc[i] = "closing"
  /\ Goto(i, "down")
  /\ Leave(i)
  /\ Abandon(i)
  /\ delivery' = [delivery EXCEPT ![i] = "none"]
  /\ UNCHANGED <<raw, out, committed, position, current, faults>>

\* The process is killed; the coordinator notices (session timeout).
Crash(i) ==
  /\ pc[i] # "down"
  /\ Fault
  /\ Goto(i, "down")
  /\ Leave(i)
  /\ Abandon(i)
  /\ delivery' = [delivery EXCEPT ![i] = "none"]
  /\ UNCHANGED <<raw, out, committed, position, current>>

-----------------------------------------------------------------------------
(* The producer client's background thread, and the broker *)

Transmit(i) ==
  /\ delivery[i] = "queued"
  /\ delivery' = [delivery EXCEPT ![i] = "sent"]
  /\ UNCHANGED <<raw, out, committed, groupVars, pc, current, orphans, faults>>

AppendTo(o) == out' = [out EXCEPT ![Dest(raw[o + 1])] = Append(@, o)]

\* The broker appends the result and its acknowledgement arrives.
AppendResult(i) ==
  /\ delivery[i] = "sent"
  /\ AppendTo(current[i])
  /\ delivery' = [delivery EXCEPT ![i] = "acked"]
  /\ UNCHANGED <<raw, committed, groupVars, pc, current, orphans, faults>>

\* No answer to the request: the client retries (there is no idempotent
\* producer); the broker may still append the first request, now or later.
RequestTimeout(i) ==
  /\ delivery[i] = "sent"
  /\ Fault
  /\ delivery' = [delivery EXCEPT ![i] = "queued"]
  /\ Abandon(i)
  /\ UNCHANGED <<raw, out, committed, groupVars, pc, current>>

\* The client gives up: _on_delivery will get an error, although the request
\* may have reached the broker.
DeliveryFailed(i) ==
  /\ delivery[i] \in InFlight
  /\ Fault
  /\ delivery' = [delivery EXCEPT ![i] = "failed"]
  /\ Abandon(i)
  /\ UNCHANGED <<raw, out, committed, groupVars, pc, current>>

\* A request nobody waits for reaches the broker.
AppendOrphan(o) ==
  /\ orphans[o] > 0
  /\ AppendTo(o)
  /\ orphans' = [orphans EXCEPT ![o] = @ - 1]
  /\ UNCHANGED <<raw, committed, groupVars, pc, current, delivery, faults>>

-----------------------------------------------------------------------------
(* The instance's own thread: what it calls comes back, with an answer or,
   in flush and commit, without one. *)
Work(i) ==
  \/ Poll(i) \/ Publish(i) \/ PublishRaises(i)
  \/ FlushDone(i) \/ FlushRaises(i) \/ FlushTimeout(i)
  \/ Commit(i) \/ CommitRefused(i) \/ CommitFails(i) \/ Close(i)

Next ==
  \/ \E class \in Class : ProduceRaw(class)
  \/ \E i \in Instances :
       \/ Assign(i) \/ Rebalance(i) \/ Revoke(i)
       \/ Start(i) \/ PollEmpty(i) \/ Poll(i) \/ PollError(i)
       \/ Publish(i) \/ PublishRaises(i) \/ ProduceRefused(i)
       \/ FlushDone(i) \/ FlushRaises(i) \/ FlushTimeout(i)
       \/ Commit(i) \/ CommitRefused(i) \/ CommitFails(i)
       \/ Stop(i) \/ Close(i) \/ Crash(i)
       \/ Transmit(i) \/ AppendResult(i) \/ RequestTimeout(i) \/ DeliveryFailed(i)
  \/ \E o \in DOMAIN orphans : AppendOrphan(o)

Spec == Init /\ [][Next]_vars

\* A process that lives goes on. Nothing is assumed of the broker: flush has
\* its ten seconds, a synchronous commit the client library's own timeout.
ProcessFairness == \A i \in Instances : WF_vars(Work(i))

\* A broker that is there: it assigns the partition, takes what is sent and
\* acknowledges it.
BrokerFairness ==
  \A i \in Instances :
    WF_vars(Transmit(i)) /\ WF_vars(AppendResult(i)) /\ WF_vars(Revoke(i)) /\ WF_vars(Assign(i))

\* Somebody starts a stopped validator again (an operator; src/ has no
\* supervisor).
RestartFairness == \A i \in Instances : WF_vars(Start(i))

\* No more goes wrong than the bound, the calls that give up included.
FaultsCease == [](faults <= MaxFaults)

LiveSpec == Spec /\ ProcessFairness
FairSpec == LiveSpec /\ BrokerFairness /\ RestartFairness /\ FaultsCease

-----------------------------------------------------------------------------
(* Properties; NoLoss and FirstPublishedInOrder are in Topics *)

(***************************************************************************)
(* RelaysAtLeastOnce: with all its crashes, retries, orphaned requests and *)
(* rebalances the group does what AtLeastOnceRelay promises, no more.      *)
(***************************************************************************)
Relay == INSTANCE AtLeastOnceRelay

RelaysAtLeastOnce == Relay!Spec

(***************************************************************************)
(* DuplicatesBoundedByFaults: a single validator publishes one extra copy  *)
(* per fault at most; without a fault it publishes each record once. It    *)
(* holds because process_message commits after every record.               *)
(***************************************************************************)
Extra(t) == Len(out[t]) - Cardinality(Range(out[t]))

DuplicatesBoundedByFaults ==
  Extra("validated") + Extra("dlq") <= faults

(***************************************************************************)
(* CommittedNeverRegresses: the offset of a group with a single member     *)
(* only grows, so what it has acknowledged it never reads again.           *)
(***************************************************************************)
CommittedNeverRegresses == [][committed' >= committed]_vars

(***************************************************************************)
(* RoutableEventuallyPublished: a record that has no unroutable record     *)
(* before it is published in the end, if the broker answers, stopped       *)
(* validators are started again and faults cease.                          *)
(***************************************************************************)
Reachable(o) == o \in Offsets /\ \A p \in 0 .. o : Routable(raw[p + 1])

RoutableEventuallyPublished ==
  BrokerFairness /\ RestartFairness /\ FaultsCease =>
    \A o \in 0 .. MaxRaw - 1 : Reachable(o) ~> (o \in Offsets /\ Published(o))


(***************************************************************************)
(* EveryRecordPublished: "malformed messages routed to a dead-letter topic *)
(* so the pipeline does not fail" (PRD.md). The code does not do that for  *)
(* a record whose handling raises: the offset stays uncommitted and every  *)
(* restart meets the same record.                                          *)
(***************************************************************************)
EveryRecordPublished ==
  \A o \in 0 .. MaxRaw - 1 : o \in Offsets ~> (o \in Offsets /\ Published(o))

=============================================================================
