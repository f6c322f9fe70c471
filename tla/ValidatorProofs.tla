--------------------------- MODULE ValidatorProofs ---------------------------
(***************************************************************************)
(* TLAPS proofs about Validator, for every set of Instances and all bounds *)
(* MaxRaw and MaxFaults: type correctness, NoLoss, FirstPublishedInOrder,  *)
(* and that Validator implements AtLeastOnceRelay; and about a single      *)
(* instance, that its offset only grows and that faults bound the copies.  *)
(*                                                                         *)
(* The inductive invariant says, for each place of the state that names an *)
(* offset, what has been published before that offset.                     *)
(***************************************************************************)
EXTENDS Validator, FiniteSetTheorems, FunctionTheorems, TLAPS

\* A safe place to resume from.
Resumable(o) == o \in 0 .. Len(raw) /\ AllBefore(o)

\* A record that may be published now: every earlier one is.
Relayable(o) == o \in Offsets /\ Routable(raw[o + 1]) /\ AllBefore(o)

MidRecord == {"processing", "flushing", "committing"}

\* What instance i knows about its position, its record and its result.
PositionInv(i) ==
  /\ pc[i] = "down" => i \notin assigned
  /\ i \in assigned /\ pc[i] = "polling" => Resumable(position[i])
  /\ i \in assigned /\ pc[i] \in MidRecord =>
       Resumable(position[i]) \/ position[i] = current[i] + 1

CurrentInv(i) ==
  /\ pc[i] \in MidRecord => current[i] \in Offsets /\ AllBefore(current[i])
  /\ pc[i] = "committing" => Published(current[i])

DeliveryInv(i) ==
  /\ delivery[i] # "none" => pc[i] \in {"flushing", "closing"}
  /\ delivery[i] \in InFlight => Relayable(current[i])
  /\ delivery[i] = "acked" => current[i] \in Offsets /\ Published(current[i])

OutInv == \A t \in Topic : \A k \in DOMAIN out[t] : out[t][k] \in Offsets

IInv ==
  /\ TypeOK
  /\ OutInv
  /\ Resumable(committed)
  /\ \A o \in DOMAIN orphans : orphans[o] > 0 => Relayable(o)
  /\ \A i \in Instances : PositionInv(i) /\ CurrentInv(i) /\ DeliveryInv(i)

-----------------------------------------------------------------------------
(* Logs only grow *)

LEMMA RangeAppend ==
  ASSUME NEW s \in Seq(Nat), NEW x \in Nat
  PROVE  /\ Range(Append(s, x)) = Range(s) \cup {x}
         /\ \A k \in DOMAIN Append(s, x) :
              \/ k \in DOMAIN s /\ Append(s, x)[k] = s[k]
              \/ Append(s, x)[k] = x
<1>1. DOMAIN Append(s, x) = (DOMAIN s) \cup {Len(s) + 1}
  OBVIOUS
<1>2. \A k \in DOMAIN s : Append(s, x)[k] = s[k]
  OBVIOUS
<1>3. Append(s, x)[Len(s) + 1] = x
  OBVIOUS
<1>4. Len(s) + 1 \notin DOMAIN s
  OBVIOUS
<1>5. QED
  BY <1>1, <1>2, <1>3, <1>4 DEF Range

\* A step that removes nothing from a log.
Grows ==
  /\ Len(raw) <= Len(raw')
  /\ \A o \in Offsets : raw'[o + 1] = raw[o + 1]
  /\ \A t \in Topic : Range(out[t]) \subseteq Range(out'[t])

LEMMA AppendShape ==
  ASSUME NEW s \in Seq(Nat), NEW x \in Nat
  PROVE  /\ Len(s) \in Nat /\ DOMAIN s = 1 .. Len(s)
         /\ DOMAIN Append(s, x) = 1 .. Len(s) + 1
         /\ \A k \in 1 .. Len(s) : Append(s, x)[k] = s[k]
         /\ Append(s, x)[Len(s) + 1] = x
OBVIOUS

LEMMA DestTopic == \A class : Dest(class) \in Topic
BY DEF Dest, Topic

\* What is published, resumable or relayable stays so.
LEMMA GrowsKeeps ==
  ASSUME TopicsTypeOK, TopicsTypeOK', Grows
  PROVE  /\ \A o \in Offsets : o \in Offsets' /\ (Published(o) => Published(o)')
         /\ \A o \in 0 .. Len(raw) : AllBefore(o) => AllBefore(o)'
         /\ \A o : Resumable(o) => Resumable(o)'
         /\ \A o : Relayable(o) => Relayable(o)'
<1>0. Len(raw) \in Nat /\ Len(raw') \in Nat
  BY DEF TopicsTypeOK
<1>1. \A o \in Offsets : o \in Offsets'
  BY <1>0 DEF Grows, Offsets
<1>2. \A o \in Offsets : Published(o) => Published(o)'
  BY DestTopic DEF Grows, Published
<1>3. \A o \in 0 .. Len(raw) : AllBefore(o) => AllBefore(o)'
  <2>1. \A o \in 0 .. Len(raw) : \A p \in 0 .. o - 1 : p \in Offsets
    BY <1>0 DEF Offsets
  <2>2. QED
    BY <2>1, <1>2 DEF AllBefore
<1>4. \A o : Resumable(o) => Resumable(o)'
  BY <1>0, <1>3 DEF Resumable, Grows
<1>5. \A o : Relayable(o) => Relayable(o)'
  <2>1. \A o \in Offsets : o \in 0 .. Len(raw)
    BY <1>0 DEF Offsets
  <2>2. \A o \in Offsets : raw'[o + 1] = raw[o + 1]
    BY DEF Grows
  <2>3. QED
    BY <2>1, <2>2, <1>1, <1>3 DEF Relayable
<1>6. QED
  BY <1>1, <1>2, <1>3, <1>4, <1>5

-----------------------------------------------------------------------------
(* Type correctness *)

LEMMA InitType == Init => TypeOK
BY BoundsAssumption DEF Init, TopicsInit, TypeOK, TopicsTypeOK, PC, Delivery,
   Class, Topic

LEMMA AppendToType ==
  ASSUME TopicsTypeOK, NEW o \in Nat, AppendTo(o)
  PROVE  out' \in [Topic -> Seq(Nat)]
BY DestTopic DEF TopicsTypeOK, AppendTo

LEMMA AbandonType ==
  ASSUME TypeOK, NEW i \in Instances
  PROVE  Abandon(i) => orphans' \in [0 .. MaxRaw - 1 -> Nat]
<1>0. orphans \in [0 .. MaxRaw - 1 -> Nat]
  BY DEF TypeOK
<1>1. \A o \in 0 .. MaxRaw - 1 : orphans[o] + 1 \in Nat
  BY <1>0
<1>2. [orphans EXCEPT ![current[i]] = @ + 1] \in [0 .. MaxRaw - 1 -> Nat]
  BY <1>0, <1>1
<1>3. QED
  BY <1>0, <1>2 DEF Abandon

\* Every action keeps every variable in its set.
LEMMA NextType == TypeOK /\ [Next]_vars => TypeOK'
<1> SUFFICES ASSUME TypeOK, [Next]_vars PROVE TypeOK'
  OBVIOUS
<1> USE BoundsAssumption DEF TypeOK, TopicsTypeOK, groupVars
<1>1. ASSUME NEW class \in Class, ProduceRaw(class) PROVE TypeOK'
  BY <1>1 DEF ProduceRaw
<1>2. ASSUME NEW i \in Instances, Assign(i) PROVE TypeOK'
  BY <1>2 DEF Assign, StartOffset
<1>3. ASSUME NEW i \in Instances, Rebalance(i) PROVE TypeOK'
  BY <1>3 DEF Rebalance, StartOffset, Fault
<1>4. ASSUME NEW i \in Instances, Revoke(i) PROVE TypeOK'
  BY <1>4 DEF Revoke
<1>5. ASSUME NEW i \in Instances, Start(i) PROVE TypeOK'
  BY <1>5 DEF Start, Goto, PC, Loop
<1>6. ASSUME NEW i \in Instances, PollEmpty(i) PROVE TypeOK'
  BY <1>6 DEF PollEmpty, vars
<1>7. ASSUME NEW i \in Instances, Poll(i) PROVE TypeOK'
  BY <1>7 DEF Poll, Goto, PC, Loop
<1>8. ASSUME NEW i \in Instances, PollError(i) PROVE TypeOK'
  BY <1>8 DEF PollError, Goto, PC, Fault
<1>9. ASSUME NEW i \in Instances, Publish(i) PROVE TypeOK'
  BY <1>9 DEF Publish, Goto, PC, Loop, Delivery
<1>10. ASSUME NEW i \in Instances, PublishRaises(i) PROVE TypeOK'
  BY <1>10 DEF PublishRaises, Goto, PC
<1>11. ASSUME NEW i \in Instances, ProduceRefused(i) PROVE TypeOK'
  BY <1>11 DEF ProduceRefused, Goto, PC, Fault
<1>12. ASSUME NEW i \in Instances, FlushDone(i) PROVE TypeOK'
  BY <1>12 DEF FlushDone, Goto, PC, Loop, Delivery
<1>13. ASSUME NEW i \in Instances, FlushRaises(i) PROVE TypeOK'
  BY <1>13 DEF FlushRaises, Goto, PC, Delivery
<1>14. ASSUME NEW i \in Instances, FlushTimeout(i) PROVE TypeOK'
  BY <1>14 DEF FlushTimeout, Goto, PC, Unanswered
<1>15. ASSUME NEW i \in Instances, Commit(i) PROVE TypeOK'
  BY <1>15 DEF Commit, Goto, PC, Loop
<1>16. ASSUME NEW i \in Instances, CommitRefused(i) PROVE TypeOK'
  BY <1>16 DEF CommitRefused, Goto, PC
<1>17. ASSUME NEW i \in Instances, CommitFails(i) PROVE TypeOK'
  BY <1>17 DEF CommitFails, Goto, PC, Unanswered
<1>18. ASSUME NEW i \in Instances, Stop(i) PROVE TypeOK'
  BY <1>18 DEF Stop, Goto, PC, Fault
<1>19. ASSUME NEW i \in Instances, Close(i) PROVE TypeOK'
  <2>1. orphans' \in [0 .. MaxRaw - 1 -> Nat]
    BY <1>19, AbandonType DEF Close
  <2>2. QED
    BY <1>19, <2>1 DEF Close, Goto, PC, Leave, Delivery
<1>20. ASSUME NEW i \in Instances, Crash(i) PROVE TypeOK'
  <2>1. orphans' \in [0 .. MaxRaw - 1 -> Nat]
    BY <1>20, AbandonType DEF Crash
  <2>2. QED
    BY <1>20, <2>1 DEF Crash, Goto, PC, Leave, Delivery, Fault
<1>21. ASSUME NEW i \in Instances, Transmit(i) PROVE TypeOK'
  BY <1>21 DEF Transmit, Delivery
<1>22. ASSUME NEW i \in Instances, AppendResult(i) PROVE TypeOK'
  BY <1>22, AppendToType DEF AppendResult, Delivery
<1>23. ASSUME NEW i \in Instances, RequestTimeout(i) PROVE TypeOK'
  <2>1. orphans' \in [0 .. MaxRaw - 1 -> Nat]
    BY <1>23, AbandonType DEF RequestTimeout
  <2>2. QED
    BY <1>23, <2>1 DEF RequestTimeout, Delivery, Fault
<1>24. ASSUME NEW i \in Instances, DeliveryFailed(i) PROVE TypeOK'
  <2>1. orphans' \in [0 .. MaxRaw - 1 -> Nat]
    BY <1>24, AbandonType DEF DeliveryFailed
  <2>2. QED
    BY <1>24, <2>1 DEF DeliveryFailed, Delivery, Fault
<1>25. ASSUME NEW o \in DOMAIN orphans, AppendOrphan(o) PROVE TypeOK'
  <2>1. o \in 0 .. MaxRaw - 1 /\ orphans[o] - 1 \in Nat
    BY <1>25 DEF AppendOrphan
  <2>2. orphans' \in [0 .. MaxRaw - 1 -> Nat]
    BY <1>25, <2>1 DEF AppendOrphan
  <2>3. QED
    BY <1>25, <2>1, <2>2, AppendToType DEF AppendOrphan
<1>26. CASE UNCHANGED vars
  BY <1>26 DEF vars
<1>27. QED
  BY <1>1, <1>2, <1>3, <1>4, <1>5, <1>6, <1>7, <1>8, <1>9, <1>10, <1>11,
     <1>12, <1>13, <1>14, <1>15, <1>16, <1>17, <1>18, <1>19, <1>20, <1>21,
     <1>22, <1>23, <1>24, <1>25, <1>26 DEF Next

\* TypeCorrect: the group, the clients and the topics stay in their types.
THEOREM TypeCorrect == Spec => []TypeOK
BY InitType, NextType, PTL DEF Spec

-----------------------------------------------------------------------------
(* The inductive invariant *)

LEMMA AppendGrows ==
  ASSUME TopicsTypeOK, NEW o \in Nat, AppendTo(o), UNCHANGED raw
  PROVE  Grows
<1>1. ASSUME NEW t \in Topic PROVE Range(out[t]) \subseteq Range(out'[t])
  <2>1. out[t] \in Seq(Nat)
    BY DEF TopicsTypeOK
  <2>2. out'[t] = out[t] \/ out'[t] = Append(out[t], o)
    BY DEF AppendTo, TopicsTypeOK
  <2>3. Range(Append(out[t], o)) = Range(out[t]) \cup {o}
    BY <2>1, RangeAppend
  <2>4. QED
    BY <2>2, <2>3
<1>2. QED
  BY <1>1 DEF Grows, TopicsTypeOK

\* No step takes a record out of a log.
LEMMA NextGrows == TypeOK /\ [Next]_vars => Grows
<1> SUFFICES ASSUME TypeOK, [Next]_vars PROVE Grows
  OBVIOUS
<1> USE DEF TypeOK, TopicsTypeOK
<1>1. ASSUME NEW class \in Class, ProduceRaw(class) PROVE Grows
  BY <1>1 DEF ProduceRaw, Grows, Offsets
<1>3. ASSUME NEW i \in Instances, AppendResult(i) PROVE Grows
  BY <1>3, AppendGrows DEF AppendResult
<1>4. ASSUME NEW o \in DOMAIN orphans, AppendOrphan(o) PROVE Grows
  BY <1>4, AppendGrows DEF AppendOrphan
<1>5. CASE UNCHANGED <<raw, out>>
  BY <1>5 DEF Grows
<1>6. UNCHANGED vars => UNCHANGED <<raw, out>>
  BY DEF vars
<1>7. QED
  BY <1>1, <1>3, <1>4, <1>5, <1>6 DEF Next, groupVars, vars,
     Assign, Rebalance, Revoke, Start, PollEmpty, Poll, PollError, Publish,
     PublishRaises, ProduceRefused, FlushDone, FlushRaises, FlushTimeout,
     Commit, CommitRefused, CommitFails, Stop, Close, Crash, Transmit,
     RequestTimeout, DeliveryFailed

\* A safe place to resume from moves past a record once it is published.
LEMMA ResumeAfter ==
  ASSUME NEW o \in Offsets, TopicsTypeOK, AllBefore(o), Published(o)
  PROVE  Resumable(o + 1)
BY DEF Resumable, AllBefore, Offsets, TopicsTypeOK

\* Appending a record's result publishes it.
LEMMA AppendPublishes ==
  ASSUME TopicsTypeOK, NEW o \in Offsets, AppendTo(o), UNCHANGED raw
  PROVE  Published(o)'
<1>1. Dest(raw[o + 1]) \in Topic /\ o \in Nat
  BY DestTopic DEF Offsets, TopicsTypeOK
<1>2. out'[Dest(raw[o + 1])] = Append(out[Dest(raw[o + 1])], o)
  BY <1>1 DEF AppendTo, TopicsTypeOK
<1>3. QED
  BY <1>1, <1>2, RangeAppend DEF Published, TopicsTypeOK

LEMMA OutInvStep == IInv /\ [Next]_vars => OutInv'
<1> SUFFICES ASSUME IInv, [Next]_vars PROVE OutInv'
  OBVIOUS
<1>0. TypeOK /\ TypeOK' /\ Grows /\ TopicsTypeOK /\ TopicsTypeOK'
  BY NextType, NextGrows DEF IInv, TypeOK
<1>1. \A o \in Offsets : o \in Offsets'
  BY <1>0, GrowsKeeps
<1>2. ASSUME NEW o \in Offsets, AppendTo(o), UNCHANGED raw PROVE OutInv'
  <2>1. o \in Nat
    BY DEF Offsets
  <2>2. \A t \in Topic : out'[t] = out[t] \/ out'[t] = Append(out[t], o)
    BY <1>2, <1>0 DEF AppendTo, TopicsTypeOK
  <2>3. \A t \in Topic : \A k \in DOMAIN Append(out[t], o) :
          Append(out[t], o)[k] \in Offsets
    <3>1. TAKE t \in Topic
    <3>2. out[t] \in Seq(Nat)
      BY <1>0 DEF TopicsTypeOK
    <3>3. \A k \in DOMAIN out[t] : out[t][k] \in Offsets
      BY DEF IInv, OutInv
    <3>4. QED
      BY <2>1, <3>2, <3>3, RangeAppend
  <2>4. QED
    BY <2>2, <2>3, <1>1 DEF IInv, OutInv
<1>3. ASSUME NEW i \in Instances, AppendResult(i) PROVE OutInv'
  BY <1>3, <1>2 DEF AppendResult, IInv, DeliveryInv, InFlight, Relayable
<1>4. ASSUME NEW o \in DOMAIN orphans, AppendOrphan(o) PROVE OutInv'
  BY <1>4, <1>2 DEF AppendOrphan, IInv, Relayable
<1>5. CASE UNCHANGED out
  BY <1>5, <1>1 DEF IInv, OutInv
<1>6. QED
  BY <1>3, <1>4, <1>5 DEF Next, groupVars, vars, ProduceRaw,
     Assign, Rebalance, Revoke, Start, PollEmpty, Poll, PollError, Publish,
     PublishRaises, ProduceRefused, FlushDone, FlushRaises, FlushTimeout,
     Commit, CommitRefused, CommitFails, Stop, Close, Crash, Transmit,
     RequestTimeout, DeliveryFailed

\* Each instance's claims survive every step.
LEMMA InstanceStep ==
  IInv /\ [Next]_vars =>
    \A j \in Instances : PositionInv(j)' /\ CurrentInv(j)' /\ DeliveryInv(j)'
<1> SUFFICES ASSUME IInv, [Next]_vars, NEW j \in Instances
             PROVE  PositionInv(j)' /\ CurrentInv(j)' /\ DeliveryInv(j)'
  OBVIOUS
<1> DEFINE Q == PositionInv(j)' /\ CurrentInv(j)' /\ DeliveryInv(j)'
<1>0. TypeOK /\ TypeOK' /\ Grows /\ TopicsTypeOK /\ TopicsTypeOK'
  BY NextType, NextGrows DEF IInv, TypeOK
<1>k. /\ \A o \in Offsets : o \in Offsets' /\ (Published(o) => Published(o)')
      /\ \A o \in Offsets : AllBefore(o) => AllBefore(o)'
      /\ \A o : Resumable(o) => Resumable(o)'
      /\ \A o : Relayable(o) => Relayable(o)'
      /\ \A o : Relayable(o) => o \in Offsets
  <2>1. Len(raw) \in Nat
    BY <1>0 DEF TopicsTypeOK
  <2>2. QED
    BY <1>0, <2>1, GrowsKeeps DEF Relayable, Offsets
<1>j. /\ PositionInv(j) /\ CurrentInv(j) /\ DeliveryInv(j)
      /\ Resumable(committed)
  BY DEF IInv
<1>t. /\ pc \in [Instances -> PC] /\ position \in [Instances -> Nat]
      /\ current \in [Instances -> Nat] /\ delivery \in [Instances -> Delivery]
  BY <1>0 DEF TypeOK
<1> USE DEF PositionInv, CurrentInv, DeliveryInv, MidRecord, InFlight
<1> HIDE DEF Resumable, Relayable, Offsets, Published, AllBefore
<1>1. ASSUME NEW i \in Instances, Assign(i) PROVE Q
  BY <1>1, <1>k, <1>j, <1>t DEF Assign, StartOffset, groupVars
<1>2. ASSUME NEW i \in Instances, Rebalance(i) PROVE Q
  BY <1>2, <1>k, <1>j, <1>t DEF Rebalance, StartOffset, groupVars
<1>3. ASSUME NEW i \in Instances, Revoke(i) PROVE Q
  BY <1>3, <1>k, <1>j, <1>t DEF Revoke, groupVars
<1>4. ASSUME NEW i \in Instances, Start(i) PROVE Q
  BY <1>4, <1>k, <1>j, <1>t DEF Start, Goto, groupVars
<1>5. ASSUME NEW i \in Instances, PollEmpty(i) PROVE Q
  BY <1>5, <1>k, <1>j, <1>t DEF PollEmpty, vars, groupVars
<1>6. ASSUME NEW i \in Instances, Poll(i) PROVE Q
  <2>1. position[i] \in Offsets /\ AllBefore(position[i])
    BY <1>6, <1>0 DEF Poll, IInv, Resumable, Offsets, TopicsTypeOK
  <2>2. QED
    BY <1>6, <1>k, <1>j, <1>t, <2>1 DEF Poll, Goto, groupVars
<1>7. ASSUME NEW i \in Instances, PollError(i) PROVE Q
  BY <1>7, <1>k, <1>j, <1>t DEF PollError, Goto, groupVars
<1>8. ASSUME NEW i \in Instances, Publish(i) PROVE Q
  <2>1. Relayable(current[i])
    BY <1>8 DEF Publish, IInv, Relayable
  <2>2. QED
    BY <1>8, <1>k, <1>j, <1>t, <2>1 DEF Publish, Goto, groupVars
<1>9. ASSUME NEW i \in Instances, PublishRaises(i) PROVE Q
  BY <1>9, <1>k, <1>j, <1>t DEF PublishRaises, Goto, groupVars
<1>10. ASSUME NEW i \in Instances, ProduceRefused(i) PROVE Q
  BY <1>10, <1>k, <1>j, <1>t DEF ProduceRefused, Goto, groupVars
<1>11. ASSUME NEW i \in Instances, FlushDone(i) PROVE Q
  BY <1>11, <1>k, <1>j, <1>t DEF FlushDone, Goto, groupVars
<1>12. ASSUME NEW i \in Instances, FlushRaises(i) PROVE Q
  BY <1>12, <1>k, <1>j, <1>t DEF FlushRaises, Goto, groupVars
<1>13. ASSUME NEW i \in Instances, FlushTimeout(i) PROVE Q
  BY <1>13, <1>k, <1>j, <1>t DEF FlushTimeout, Goto, groupVars
<1>14. ASSUME NEW i \in Instances, Commit(i) PROVE Q
  <2>1. Resumable(current[i] + 1)
    BY <1>14, <1>0, ResumeAfter DEF Commit, IInv
  <2>2. QED
    BY <1>14, <1>k, <1>j, <1>t, <2>1 DEF Commit, Goto, groupVars
<1>15. ASSUME NEW i \in Instances, CommitRefused(i) PROVE Q
  BY <1>15, <1>k, <1>j, <1>t DEF CommitRefused, Goto, groupVars
<1>16. ASSUME NEW i \in Instances, CommitFails(i) PROVE Q
  BY <1>16, <1>k, <1>j, <1>t DEF CommitFails, Goto, groupVars
<1>17. ASSUME NEW i \in Instances, Stop(i) PROVE Q
  BY <1>17, <1>k, <1>j, <1>t DEF Stop, Goto, Loop, groupVars
<1>18. ASSUME NEW i \in Instances, Close(i) PROVE Q
  BY <1>18, <1>k, <1>j, <1>t DEF Close, Goto, Leave, groupVars
<1>19. ASSUME NEW i \in Instances, Crash(i) PROVE Q
  BY <1>19, <1>k, <1>j, <1>t DEF Crash, Goto, Leave, groupVars
<1>20. ASSUME NEW i \in Instances, Transmit(i) PROVE Q
  BY <1>20, <1>k, <1>j, <1>t DEF Transmit, groupVars
<1>21. ASSUME NEW i \in Instances, AppendResult(i) PROVE Q
  <2>1. current[i] \in Offsets
    BY <1>21, <1>k DEF IInv, AppendResult
  <2>2. Published(current[i])'
    BY <1>21, <1>0, <2>1, AppendPublishes DEF AppendResult, Published, AppendTo
  <2>3. QED
    BY <1>21, <1>k, <1>j, <1>t, <2>1, <2>2 DEF AppendResult, groupVars
<1>22. ASSUME NEW i \in Instances, RequestTimeout(i) PROVE Q
  BY <1>22, <1>k, <1>j, <1>t DEF RequestTimeout, groupVars
<1>23. ASSUME NEW i \in Instances, DeliveryFailed(i) PROVE Q
  BY <1>23, <1>k, <1>j, <1>t DEF DeliveryFailed, groupVars
<1>24. ASSUME NEW class \in Class, ProduceRaw(class) PROVE Q
  BY <1>24, <1>k, <1>j, <1>t DEF ProduceRaw
<1>25. ASSUME NEW o \in DOMAIN orphans, AppendOrphan(o) PROVE Q
  BY <1>25, <1>k, <1>j, <1>t DEF AppendOrphan, groupVars
<1>26. CASE UNCHANGED vars
  BY <1>26, <1>k, <1>j, <1>t DEF vars
<1>27. QED
  BY <1>1, <1>2, <1>3, <1>4, <1>5, <1>6, <1>7, <1>8, <1>9, <1>10, <1>11, <1>12, <1>13, <1>14, <1>15, <1>16, <1>17, <1>18, <1>19, <1>20, <1>21, <1>22, <1>23, <1>24, <1>25, <1>26 DEF Next

\* The group's offset is a safe place to resume from.
LEMMA CommittedStep == IInv /\ [Next]_vars => Resumable(committed)'
<1> SUFFICES ASSUME IInv, [Next]_vars PROVE Resumable(committed)'
  OBVIOUS
<1>0. TypeOK /\ TypeOK' /\ Grows /\ TopicsTypeOK /\ TopicsTypeOK'
  BY NextType, NextGrows DEF IInv, TypeOK
<1>1. /\ \A o : Resumable(o) => Resumable(o)'
      /\ Resumable(committed)
  BY <1>0, GrowsKeeps DEF IInv
<1>2. ASSUME NEW i \in Instances, pc[i] = "committing"
      PROVE  Resumable(current[i] + 1)
  BY <1>0, <1>2, ResumeAfter DEF IInv, CurrentInv, MidRecord
<1>3. ASSUME NEW i \in Instances, Commit(i) PROVE Resumable(committed')
  BY <1>2, <1>3 DEF Commit
<1>4. ASSUME NEW i \in Instances, CommitFails(i) PROVE Resumable(committed')
  BY <1>1, <1>2, <1>4 DEF CommitFails
<1>5. ASSUME Resumable(committed') PROVE Resumable(committed)'
  <2>1. \A o : o \in 0 .. Len(raw) /\ (\A p \in 0 .. o - 1 : Published(p))
             => o \in 0 .. Len(raw') /\ (\A p \in 0 .. o - 1 : Published(p)')
    BY <1>1 DEF Resumable, AllBefore
  <2>2. QED
    BY <1>5, <2>1 DEF Resumable, AllBefore
<1>6. CASE UNCHANGED committed
  BY <1>1, <1>5, <1>6
<1>7. QED
  BY <1>3, <1>4, <1>5, <1>6 DEF Next, groupVars, vars, ProduceRaw,
     Assign, Rebalance, Revoke, Start, PollEmpty, Poll, PollError, Publish,
     PublishRaises, ProduceRefused, FlushDone, FlushRaises, FlushTimeout,
     CommitRefused, Stop, Close, Crash, Transmit, AppendResult,
     RequestTimeout, DeliveryFailed, AppendOrphan

\* Only relayable results are left on the network.
LEMMA OrphansStep ==
  IInv /\ [Next]_vars => \A o \in DOMAIN orphans' : orphans'[o] > 0 => Relayable(o)'
<1> SUFFICES ASSUME IInv, [Next]_vars, NEW o \in DOMAIN orphans', orphans'[o] > 0
             PROVE  Relayable(o)'
  OBVIOUS
<1>0. TypeOK /\ TypeOK' /\ Grows /\ TopicsTypeOK /\ TopicsTypeOK'
  BY NextType, NextGrows DEF IInv, TypeOK
<1>1. Relayable(o) => Relayable(o)'
  BY <1>0, GrowsKeeps
<1>2. o \in DOMAIN orphans /\ orphans[o] \in Nat /\ orphans \in [0 .. MaxRaw - 1 -> Nat]
  BY <1>0 DEF TypeOK
<1>3. CASE orphans[o] > 0
  BY <1>1, <1>3, <1>2 DEF IInv
<1>4. ASSUME NEW i \in Instances, Abandon(i) PROVE Relayable(o)'
  <2>1. CASE delivery[i] = "sent" /\ o = current[i]
    BY <2>1, <1>1 DEF IInv, DeliveryInv, InFlight
  <2>2. CASE ~(delivery[i] = "sent" /\ o = current[i])
    <3>1. orphans'[o] = orphans[o]
      BY <2>2, <1>2, <1>4 DEF Abandon
    <3>2. QED
      BY <3>1, <1>3
  <2>3. QED
    BY <2>1, <2>2
<1>5. ASSUME NEW i \in Instances, Close(i) \/ Crash(i) \/ DeliveryFailed(i)
      PROVE  Relayable(o)'
  BY <1>4, <1>5 DEF Close, Crash, DeliveryFailed
<1>6. ASSUME NEW i \in Instances, RequestTimeout(i) PROVE Relayable(o)'
  BY <1>4, <1>6 DEF RequestTimeout
<1>7. ASSUME NEW p \in DOMAIN orphans, AppendOrphan(p) PROVE Relayable(o)'
  <2>1. orphans[o] > 0
    BY <1>2, <1>7 DEF AppendOrphan
  <2>2. QED
    BY <2>1, <1>3
<1>8. CASE UNCHANGED orphans
  BY <1>3, <1>8
<1>9. QED
  BY <1>5, <1>6, <1>7, <1>8 DEF Next, groupVars, vars, ProduceRaw,
     Assign, Rebalance, Revoke, Start, PollEmpty, Poll, PollError, Publish,
     PublishRaises, ProduceRefused, FlushDone, FlushRaises, FlushTimeout,
     Commit, CommitRefused, CommitFails, Stop, Transmit, AppendResult

LEMMA InitIInv == Init => IInv
<1> SUFFICES ASSUME Init PROVE IInv
  OBVIOUS
<1>1. TypeOK
  BY InitType
<1>2. OutInv
  BY DEF Init, TopicsInit, OutInv
<1>3. Resumable(committed)
  BY DEF Init, TopicsInit, Resumable, AllBefore
<1>4. QED
  BY <1>1, <1>2, <1>3 DEF Init, IInv, PositionInv, CurrentInv, DeliveryInv,
     MidRecord, InFlight

LEMMA NextIInv == IInv /\ [Next]_vars => IInv'
BY NextType, OutInvStep, InstanceStep, CommittedStep, OrphansStep DEF IInv

\* Invariance: the inductive invariant holds in every reachable state.
THEOREM Invariance == Spec => []IInv
BY InitIInv, NextIInv, PTL DEF Spec

\* NothingLost: a group that resumes from its committed offset has published
\* the result of everything before it (process_message publishes, then commits).
THEOREM NothingLost == Spec => []NoLoss
<1>1. IInv => NoLoss
  BY DEF IInv, Resumable, NoLoss, TypeOK, TopicsTypeOK
<1>2. QED
  BY <1>1, Invariance, PTL

-----------------------------------------------------------------------------
(* The order of the output topics *)

\* The record a step appends is relayable, and no step appends two.
LEMMA AppendsRelayable ==
  IInv /\ [Next]_vars =>
    \/ UNCHANGED out
    \/ UNCHANGED raw /\ \E o \in Offsets : Relayable(o) /\ AppendTo(o)
<1> SUFFICES ASSUME IInv, [Next]_vars
             PROVE  \/ UNCHANGED out
                    \/ UNCHANGED raw /\ \E o \in Offsets : Relayable(o) /\ AppendTo(o)
  OBVIOUS
<1>1. ASSUME NEW i \in Instances, AppendResult(i)
      PROVE  UNCHANGED raw /\ \E o \in Offsets : Relayable(o) /\ AppendTo(o)
  <2>1. Relayable(current[i]) /\ AppendTo(current[i]) /\ UNCHANGED raw
    BY <1>1 DEF AppendResult, IInv, DeliveryInv, InFlight
  <2>2. QED
    BY <2>1 DEF Relayable
<1>2. ASSUME NEW o \in DOMAIN orphans, AppendOrphan(o)
      PROVE  UNCHANGED raw /\ \E p \in Offsets : Relayable(p) /\ AppendTo(p)
  BY <1>2 DEF AppendOrphan, IInv, Relayable
<1>3. QED
  BY <1>1, <1>2 DEF Next, groupVars, vars, ProduceRaw,
     Assign, Rebalance, Revoke, Start, PollEmpty, Poll, PollError, Publish,
     PublishRaises, ProduceRefused, FlushDone, FlushRaises, FlushTimeout,
     Commit, CommitRefused, CommitFails, Stop, Close, Crash, Transmit,
     RequestTimeout, DeliveryFailed

\* A copy appended when everything before it is published is in order.
LEMMA OrderAfterAppend ==
  ASSUME TopicsTypeOK, FirstPublishedInOrder,
         NEW o \in Offsets, AllBefore(o), AppendTo(o), UNCHANGED raw
  PROVE  FirstPublishedInOrder'
<1> SUFFICES ASSUME NEW t \in Topic, NEW k \in DOMAIN out'[t],
                    NEW p \in 0 .. out'[t][k] - 1, Dest(raw[p + 1]) = t
             PROVE  \E j \in 1 .. k - 1 : out'[t][j] = p
  BY DEF FirstPublishedInOrder
<1>1. out[t] \in Seq(Nat) /\ o \in Nat
  BY DEF TopicsTypeOK, Offsets
<1>2. CASE out'[t] = out[t]
  BY <1>2 DEF FirstPublishedInOrder
<1>3. CASE out'[t] = Append(out[t], o)
  <2>1. /\ \A j \in DOMAIN out[t] : out'[t][j] = out[t][j]
        /\ k \in DOMAIN out[t] \/ (k = Len(out[t]) + 1 /\ out'[t][k] = o)
    <3>1. k \in DOMAIN Append(out[t], o)
      BY <1>3
    <3>2. k \in 1 .. Len(out[t]) \/ k = Len(out[t]) + 1
      BY <1>1, <3>1, AppendShape
    <3>3. /\ \A j \in 1 .. Len(out[t]) : out'[t][j] = out[t][j]
          /\ out'[t][Len(out[t]) + 1] = o
          /\ DOMAIN out[t] = 1 .. Len(out[t])
      BY <1>1, <1>3, AppendShape
    <3>4. QED
      BY <3>2, <3>3
  <2>2. CASE k \in DOMAIN out[t]
    <3>1. PICK j \in 1 .. k - 1 : out[t][j] = p
      BY <2>1, <2>2 DEF FirstPublishedInOrder
    <3>2. j \in DOMAIN out[t]
      BY <1>1, <2>2
    <3>3. QED
      BY <2>1, <3>1, <3>2
  <2>3. CASE k = Len(out[t]) + 1 /\ out'[t][k] = o
    <3>1. p \in Range(out[t])
      BY <2>3 DEF AllBefore, Published
    <3>2. PICK j \in DOMAIN out[t] : out[t][j] = p
      BY <3>1 DEF Range
    <3>3. j \in 1 .. k - 1
      BY <1>1, <2>3
    <3>4. QED
      BY <2>1, <3>2, <3>3
  <2>4. QED
    BY <2>1, <2>2, <2>3
<1>4. QED
  BY <1>2, <1>3 DEF AppendTo, TopicsTypeOK

LEMMA OrderStep ==
  IInv /\ FirstPublishedInOrder /\ [Next]_vars => FirstPublishedInOrder'
<1> SUFFICES ASSUME IInv, FirstPublishedInOrder, [Next]_vars
             PROVE  FirstPublishedInOrder'
  OBVIOUS
<1>0. TopicsTypeOK /\ TopicsTypeOK' /\ Grows
  BY NextType, NextGrows DEF IInv, TypeOK
<1>1. CASE UNCHANGED out
  <2>1. ASSUME NEW t \in Topic, NEW k \in DOMAIN out[t],
               NEW p \in 0 .. out[t][k] - 1
        PROVE  raw'[p + 1] = raw[p + 1]
    <3>1. out[t][k] \in Offsets
      BY DEF IInv, OutInv
    <3>2. p \in Offsets
      BY <1>0, <3>1 DEF Offsets, TopicsTypeOK
    <3>3. QED
      BY <1>0, <3>2 DEF Grows
  <2>2. QED
    BY <1>1, <2>1 DEF FirstPublishedInOrder
<1>2. CASE UNCHANGED raw /\ \E o \in Offsets : Relayable(o) /\ AppendTo(o)
  BY <1>0, <1>2, OrderAfterAppend DEF Relayable
<1>3. QED
  BY <1>1, <1>2, AppendsRelayable

\* OrderKept: retries, orphaned requests and rebalances repeat records but
\* never put the first copy of one before the first copy of an earlier one.
THEOREM OrderKept == Spec => []FirstPublishedInOrder
<1>1. Init => FirstPublishedInOrder
  BY DEF Init, TopicsInit, FirstPublishedInOrder
<1>2. QED
  BY <1>1, OrderStep, Invariance, PTL DEF Spec

-----------------------------------------------------------------------------
(* Refinement *)

\* The instance's definitions are those of Topics over the same variables.
LEMMA SameTopics ==
  /\ Relay!Offsets = Offsets
  /\ \A class : Relay!Dest(class) = Dest(class)
  /\ \A class : Relay!Routable(class) <=> Routable(class)
  /\ \A o : Relay!AllBefore(o) <=> AllBefore(o)
BY DEF Relay!Offsets, Offsets, Relay!Dest, Dest, Relay!Routable, Routable,
       Relay!AllBefore, AllBefore, Relay!Published, Published,
       Relay!Range, Range

LEMMA InitRelays == Init => Relay!Init
BY DEF Init, TopicsInit, Relay!Init, Relay!TopicsInit, Topic, Relay!Topic

LEMMA NextRelays == IInv /\ IInv' /\ [Next]_vars => [Relay!Next]_(Relay!vars)
<1> SUFFICES ASSUME IInv, IInv', [Next]_vars
             PROVE  Relay!Next \/ UNCHANGED <<raw, out, committed>>
  BY DEF Relay!vars
<1>1. ASSUME NEW class \in Class, ProduceRaw(class) PROVE Relay!Next
  BY <1>1 DEF ProduceRaw, Relay!Next, Relay!Submit, Relay!Class, Class
<1>2. ASSUME NEW o, Relayable(o), AppendTo(o), UNCHANGED <<raw, committed>>
      PROVE  Relay!Next
  BY <1>2, SameTopics DEF Relay!Next, Relay!Relay, Relayable, AppendTo
<1>3. ASSUME NEW i \in Instances, AppendResult(i) PROVE Relay!Next
  BY <1>2, <1>3 DEF AppendResult, IInv, DeliveryInv, InFlight
<1>4. ASSUME NEW o \in DOMAIN orphans, AppendOrphan(o) PROVE Relay!Next
  BY <1>2, <1>4 DEF AppendOrphan, IInv
<1>5. ASSUME UNCHANGED <<raw, out>> PROVE Relay!Next
  <2>1. committed' \in 0 .. Len(raw) /\ AllBefore(committed')
    BY <1>5 DEF IInv, Resumable, AllBefore, Published
  <2>2. QED
    BY <1>5, <2>1, SameTopics DEF Relay!Next, Relay!Acknowledge
<1>6. QED
  BY <1>1, <1>3, <1>4, <1>5 DEF Next, groupVars, vars,
     Assign, Rebalance, Revoke, Start, PollEmpty, Poll, PollError, Publish,
     PublishRaises, ProduceRefused, FlushDone, FlushRaises, FlushTimeout,
     Commit, CommitRefused, CommitFails, Stop, Close, Crash, Transmit,
     RequestTimeout, DeliveryFailed

\* Relays: Validator, with its processes, clients and faults hidden, does only
\* what AtLeastOnceRelay allows.
THEOREM Relays == Spec => RelaysAtLeastOnce
BY InitRelays, NextRelays, Invariance, PTL
   DEF Spec, RelaysAtLeastOnce, Relay!Spec

-----------------------------------------------------------------------------
(* A group of one *)

Alone == \A i, j \in Instances : i = j

\* The group's offset is at the record in hand or just behind it, and so is
\* the place the consumer goes on from, even when a rebalance has moved it.
AloneInv ==
  \A i \in Instances :
    /\ pc[i] = "down" => i \notin assigned
    /\ i \in assigned /\ pc[i] = "polling" =>
         committed \in {position[i], position[i] + 1}
    /\ pc[i] \in MidRecord => committed \in {current[i], current[i] + 1}
    /\ i \in assigned /\ pc[i] \in MidRecord =>
         position[i] \in {current[i], current[i] + 1}

LEMMA AloneStep ==
  ASSUME Alone, TypeOK, AloneInv, [Next]_vars
  PROVE  AloneInv' /\ committed' >= committed
<1> DEFINE Q == AloneInv' /\ committed' >= committed
<1>t. /\ pc \in [Instances -> PC] /\ position \in [Instances -> Nat]
      /\ current \in [Instances -> Nat] /\ committed \in Nat
  BY DEF TypeOK, TopicsTypeOK
<1> USE <1>t DEF AloneInv, MidRecord, Alone, groupVars
<1>1. ASSUME NEW i \in Instances, Assign(i) PROVE Q
  BY <1>1 DEF Assign, StartOffset
<1>2. ASSUME NEW i \in Instances, Rebalance(i) PROVE Q
  BY <1>2 DEF Rebalance, StartOffset
<1>3. ASSUME NEW i \in Instances, Revoke(i) PROVE Q
  BY <1>3 DEF Revoke
<1>4. ASSUME NEW i \in Instances, Start(i) PROVE Q
  BY <1>4 DEF Start, Goto
<1>5. ASSUME NEW i \in Instances, PollEmpty(i) PROVE Q
  BY <1>5 DEF PollEmpty, vars
<1>6. ASSUME NEW i \in Instances, Poll(i) PROVE Q
  BY <1>6 DEF Poll, Goto
<1>7. ASSUME NEW i \in Instances, PollError(i) PROVE Q
  BY <1>7 DEF PollError, Goto
<1>8. ASSUME NEW i \in Instances, Publish(i) PROVE Q
  BY <1>8 DEF Publish, Goto
<1>9. ASSUME NEW i \in Instances, PublishRaises(i) PROVE Q
  BY <1>9 DEF PublishRaises, Goto
<1>10. ASSUME NEW i \in Instances, ProduceRefused(i) PROVE Q
  BY <1>10 DEF ProduceRefused, Goto
<1>11. ASSUME NEW i \in Instances, FlushDone(i) PROVE Q
  BY <1>11 DEF FlushDone, Goto
<1>12. ASSUME NEW i \in Instances, FlushRaises(i) PROVE Q
  BY <1>12 DEF FlushRaises, Goto
<1>13. ASSUME NEW i \in Instances, FlushTimeout(i) PROVE Q
  BY <1>13 DEF FlushTimeout, Goto
<1>14. ASSUME NEW i \in Instances, Commit(i) PROVE Q
  BY <1>14 DEF Commit, Goto
<1>15. ASSUME NEW i \in Instances, CommitRefused(i) PROVE Q
  BY <1>15 DEF CommitRefused, Goto
<1>16. ASSUME NEW i \in Instances, CommitFails(i) PROVE Q
  BY <1>16 DEF CommitFails, Goto
<1>17. ASSUME NEW i \in Instances, Stop(i) PROVE Q
  BY <1>17 DEF Stop, Goto
<1>18. ASSUME NEW i \in Instances, Close(i) PROVE Q
  BY <1>18 DEF Close, Goto, Leave
<1>19. ASSUME NEW i \in Instances, Crash(i) PROVE Q
  BY <1>19 DEF Crash, Goto, Leave
<1>20. ASSUME NEW i \in Instances, Transmit(i) PROVE Q
  BY <1>20 DEF Transmit
<1>21. ASSUME NEW i \in Instances, AppendResult(i) PROVE Q
  BY <1>21 DEF AppendResult
<1>22. ASSUME NEW i \in Instances, RequestTimeout(i) PROVE Q
  BY <1>22 DEF RequestTimeout
<1>23. ASSUME NEW i \in Instances, DeliveryFailed(i) PROVE Q
  BY <1>23 DEF DeliveryFailed
<1>24. CASE UNCHANGED <<committed, assigned, pc, position, current>>
  BY <1>24
<1>25. QED
  BY <1>1, <1>2, <1>3, <1>4, <1>5, <1>6, <1>7, <1>8, <1>9, <1>10, <1>11, <1>12,
     <1>13, <1>14, <1>15, <1>16, <1>17, <1>18, <1>19, <1>20, <1>21, <1>22, <1>23, <1>24 DEF Next, ProduceRaw, AppendOrphan, vars

\* AloneNeverRegresses: the offset of a group with one member only grows, even
\* when the group rebalances in the middle of a record.
THEOREM AloneNeverRegresses ==
  ASSUME Alone PROVE Spec => CommittedNeverRegresses
<1>1. Init => AloneInv
  BY DEF Init, TopicsInit, AloneInv, MidRecord
<1>2. TypeOK /\ AloneInv /\ [Next]_vars => AloneInv'
  BY AloneStep
<1>3. TypeOK /\ AloneInv /\ [Next]_vars => [committed' >= committed]_vars
  BY AloneStep
<1>4. QED
  BY <1>1, <1>2, <1>3, TypeCorrect, PTL DEF Spec, CommittedNeverRegresses

-----------------------------------------------------------------------------
(* How often a group of one repeats itself *)

\* The requests that nobody waits for, told apart by a number.
Orphaned == {x \in (0 .. MaxRaw - 1) \X Nat : x[2] < orphans[x[1]]}

Copies == Len(out["validated"]) + Len(out["dlq"])

\* The copy that i's client has still to deliver.
InClient(i) == IF delivery[i] \in InFlight THEN 1 ELSE 0

\* The copy that belongs to the record at the group's offset.
Due(i) ==
  IF /\ pc[i] \in {"flushing", "committing"} /\ current[i] = committed
     /\ delivery[i] # "failed"
  THEN 1 ELSE 0

\* The copy of a record that i will handle although it is committed, or in
\* hand: a rebalance has moved its position.
Again(i) ==
  IF \/ i \in assigned /\ pc[i] = "polling" /\ committed = position[i] + 1
     \/ pc[i] = "processing" /\ committed = current[i] + 1
     \/ pc[i] \in MidRecord /\ position[i] = current[i]
  THEN 1 ELSE 0

Outstanding(i) == Cardinality(Orphaned) + InClient(i) + Again(i)

\* Every copy, published or to come, is of a committed record, of the record
\* in hand, or answers to a fault.
CopiesInv(i) ==
  /\ IsFiniteSet(Orphaned)
  /\ i \in assigned => owner = i
  /\ pc[i] \in MidRecord =>
       i \in assigned /\ (committed = current[i] + 1 => position[i] = current[i] + 1)
  /\ pc[i] = "flushing" => delivery[i] # "none"
  /\ Copies + Outstanding(i) <= committed + faults + Due(i)

\* A request that is abandoned is one more orphan at most.
LEMMA AbandonAddsOne ==
  ASSUME TypeOK, IsFiniteSet(Orphaned), NEW i \in Instances, Abandon(i)
  PROVE  /\ IsFiniteSet(Orphaned')
         /\ Cardinality(Orphaned') <= Cardinality(Orphaned)
                                        + (IF delivery[i] = "sent" THEN 1 ELSE 0)
<1> DEFINE o == current[i]
<1>1. orphans \in [0 .. MaxRaw - 1 -> Nat] /\ Cardinality(Orphaned) \in Nat
  BY FS_CardinalityType DEF TypeOK
<1>2. CASE orphans' = orphans
  BY <1>1, <1>2 DEF Orphaned
<1>3. CASE delivery[i] = "sent" /\ o \in 0 .. MaxRaw - 1
  <2> DEFINE x == <<o, orphans[o]>>
  <2>1. orphans' = [orphans EXCEPT ![o] = orphans[o] + 1]
    BY <1>3 DEF Abandon
  <2>2. orphans'[o] = orphans[o] + 1 /\ \A p \in 0 .. MaxRaw - 1 : p # o => orphans'[p] = orphans[p]
    BY <1>1, <1>3, <2>1
  <2>3. \A p \in 0 .. MaxRaw - 1, k \in Nat :
          k < orphans'[p] <=> k < orphans[p] \/ (p = o /\ k = orphans[o])
    BY <1>1, <1>3, <2>2
  <2>4. Orphaned' = Orphaned \cup {x}
    BY <1>1, <1>3, <2>3 DEF Orphaned
  <2>5. x \notin Orphaned
    BY <1>1, <1>3 DEF Orphaned
  <2>6. IsFiniteSet(Orphaned') /\ Cardinality(Orphaned') = Cardinality(Orphaned) + 1
    BY <2>4, <2>5, FS_AddElement
  <2>7. QED
    BY <1>1, <1>3, <2>6
<1>4. CASE o \notin 0 .. MaxRaw - 1
  <2>1. orphans' = orphans
    BY <1>1, <1>4 DEF Abandon
  <2>2. QED
    BY <1>2, <2>1
<1>5. QED
  BY <1>2, <1>3, <1>4 DEF Abandon

\* An orphan that is appended is one less.
LEMMA AppendTakesOne ==
  ASSUME TypeOK, IsFiniteSet(Orphaned), NEW o \in DOMAIN orphans, AppendOrphan(o)
  PROVE  /\ IsFiniteSet(Orphaned')
         /\ Cardinality(Orphaned') = Cardinality(Orphaned) - 1
<1> DEFINE x == <<o, orphans[o] - 1>>
<1>1. /\ orphans \in [0 .. MaxRaw - 1 -> Nat] /\ o \in 0 .. MaxRaw - 1
      /\ orphans[o] > 0 /\ orphans' = [orphans EXCEPT ![o] = orphans[o] - 1]
  BY DEF TypeOK, AppendOrphan
<1>2. \A p \in 0 .. MaxRaw - 1, k \in Nat :
        k < orphans'[p] <=> k < orphans[p] /\ ~(p = o /\ k = orphans[o] - 1)
  BY <1>1
<1>3. Orphaned' = Orphaned \ {x}
  BY <1>1, <1>2 DEF Orphaned
<1>4. x \in Orphaned
  BY <1>1 DEF Orphaned
<1>5. QED
  BY <1>3, <1>4, FS_RemoveElement

LEMMA AppendAddsCopy ==
  ASSUME TopicsTypeOK, NEW o \in Nat, AppendTo(o)
  PROVE  Copies' = Copies + 1
<1> DEFINE t == Dest(raw[o + 1])
           a == Len(out["validated"])
           b == Len(out["dlq"])
<1>1. /\ out["validated"] \in Seq(Nat) /\ out["dlq"] \in Seq(Nat)
      /\ t \in {"validated", "dlq"} /\ DOMAIN out = {"validated", "dlq"}
      /\ out' = [out EXCEPT ![t] = Append(@, o)]
  BY DEF TopicsTypeOK, Topic, AppendTo, Dest
<1> HIDE DEF t
<1>2. a \in Nat /\ b \in Nat
  BY <1>1
<1>3. a' = IF t = "validated" THEN a + 1 ELSE a
  BY <1>1
<1>4. b' = IF t = "dlq" THEN b + 1 ELSE b
  BY <1>1
<1>5. Copies = a + b /\ Copies' = a' + b'
  BY DEF Copies
<1> HIDE DEF a, b
<1>6. QED
  BY <1>1, <1>2, <1>3, <1>4, <1>5

\* No step makes more copies than records that are committed and faults.
LEMMA CopiesStep ==
  ASSUME NEW me \in Instances, Alone, IInv, AloneInv, CopiesInv(me), [Next]_vars
  PROVE  CopiesInv(me)'
<1> DEFINE O == Cardinality(Orphaned)
           OwnInv == /\ me \in assigned => owner = me
                     /\ pc[me] \in MidRecord =>
                          /\ me \in assigned
                          /\ committed = current[me] + 1 => position[me] = current[me] + 1
                     /\ pc[me] = "flushing" => delivery[me] # "none"
           Bounded == Copies + O + InClient(me) + Again(me) <= committed + faults + Due(me)
           Q == OwnInv' /\ Bounded'
<1>t. /\ pc \in [Instances -> PC] /\ position \in [Instances -> Nat]
      /\ current \in [Instances -> Nat] /\ delivery \in [Instances -> Delivery]
      /\ committed \in Nat /\ faults \in Nat /\ TypeOK /\ TopicsTypeOK
      /\ owner \in Instances \cup {NoOne} /\ NoOne \notin Instances
  BY InstancesAssumption DEF IInv, TypeOK, TopicsTypeOK
<1>n. Copies \in Nat /\ O \in Nat /\ IsFiniteSet(Orphaned)
  BY <1>t, FS_CardinalityType DEF CopiesInv, Copies, TopicsTypeOK, Topic
<1>m. Copies' \in Nat
  <2>1. TopicsTypeOK'
    BY <1>t, NextType DEF TypeOK
  <2>2. out'["validated"] \in Seq(Nat) /\ out'["dlq"] \in Seq(Nat)
    BY <2>1 DEF TopicsTypeOK, Topic
  <2> DEFINE a == Len(out["validated"])
             b == Len(out["dlq"])
  <2>3. a' \in Nat /\ b' \in Nat
    BY <2>2
  <2>4. Copies' = a' + b'
    BY DEF Copies
  <2>5. \A x, y \in Nat : x + y \in Nat
    OBVIOUS
  <2>6. a' + b' \in Nat
    BY <2>3, <2>5, Zenon
  <2>7. QED
    BY <2>4, <2>6, Zenon
<1>i. OwnInv /\ Bounded
  BY <1>n DEF CopiesInv, Outstanding, InClient, Again
<1>a. DeliveryInv(me) /\ \A i \in Instances : i = me
  BY DEF Alone, IInv
<1>o. orphans' = orphans => Orphaned' = Orphaned /\ O' = O /\ IsFiniteSet(Orphaned')
  BY <1>n DEF Orphaned
<1>c. out' = out => Copies' = Copies
  BY DEF Copies
<1>q. Q /\ IsFiniteSet(Orphaned') /\ Copies' \in Nat => CopiesInv(me)'
  BY FS_CardinalityType DEF CopiesInv, Outstanding, InClient, Again
<1> HIDE DEF O
<1> USE <1>t, <1>n, <1>i, <1>a, <1>o, <1>c
    DEF AloneInv, DeliveryInv, MidRecord, InFlight, InClient, Due, Again, groupVars
<1>1. ASSUME NEW class \in Class, ProduceRaw(class) PROVE Q
  BY <1>1 DEF ProduceRaw
<1>2. ASSUME NEW i \in Instances, Assign(i) PROVE Q
  BY <1>2 DEF Assign, StartOffset
<1>3. ASSUME NEW i \in Instances, Rebalance(i) PROVE Q
  BY <1>3 DEF Rebalance, StartOffset, Fault
<1>4. ASSUME NEW i \in Instances, Revoke(i) PROVE Q
  BY <1>4 DEF Revoke
<1>5. ASSUME NEW i \in Instances, Start(i) PROVE Q
  BY <1>5 DEF Start, Goto
<1>6. ASSUME NEW i \in Instances, PollEmpty(i) PROVE Q
  BY <1>6 DEF PollEmpty, vars
<1>7. ASSUME NEW i \in Instances, Poll(i) PROVE Q
  BY <1>7 DEF Poll, Goto
<1>8. ASSUME NEW i \in Instances, PollError(i) PROVE Q
  BY <1>8 DEF PollError, Goto, Fault
<1>9. ASSUME NEW i \in Instances, Publish(i) PROVE Q
  BY <1>9 DEF Publish, Goto
<1>10. ASSUME NEW i \in Instances, PublishRaises(i) PROVE Q
  BY <1>10 DEF PublishRaises, Goto
<1>11. ASSUME NEW i \in Instances, ProduceRefused(i) PROVE Q
  BY <1>11 DEF ProduceRefused, Goto, Fault
<1>12. ASSUME NEW i \in Instances, FlushDone(i) PROVE Q
  BY <1>12 DEF FlushDone, Goto
<1>13. ASSUME NEW i \in Instances, FlushRaises(i) PROVE Q
  BY <1>13 DEF FlushRaises, Goto
<1>14. ASSUME NEW i \in Instances, FlushTimeout(i) PROVE Q
  BY <1>14 DEF FlushTimeout, Goto, Unanswered
<1>15. ASSUME NEW i \in Instances, Commit(i) PROVE Q
  BY <1>15 DEF Commit, Goto
<1>16. ASSUME NEW i \in Instances, CommitRefused(i) PROVE Q
  BY <1>16 DEF CommitRefused, Goto
<1>17. ASSUME NEW i \in Instances, CommitFails(i) PROVE Q
  <2>0. i = me /\ pc[me] = "committing" /\ committed \in {current[me], current[me] + 1}
    BY <1>17 DEF CommitFails
  <2>1. /\ committed' \in Nat /\ committed <= committed' /\ committed' <= committed + 1
        /\ faults' = faults + 1 /\ Copies' = Copies /\ O' = O
        /\ pc' = [pc EXCEPT ![me] = "closing"]
        /\ UNCHANGED <<owner, assigned, position, current, delivery>>
    BY <1>17, <2>0 DEF CommitFails, Goto, Unanswered
  <2>2. pc'[me] = "closing" /\ Again(me)' = 0 /\ Due(me)' = 0 /\ InClient(me)' = InClient(me)
    BY <2>1
  <2>3. Due(me) \in 0 .. 1 /\ Again(me) \in 0 .. 1 /\ InClient(me) \in 0 .. 1
    OBVIOUS
  <2>4. OwnInv'
    BY <2>1, <2>2
  <2> HIDE DEF InClient, Again, Due
  <2>5. Bounded'
    BY <2>1, <2>2, <2>3
  <2>6. QED
    BY <2>4, <2>5
<1>18. ASSUME NEW i \in Instances, Stop(i) PROVE Q
  BY <1>18 DEF Stop, Goto, Fault
<1>19. ASSUME NEW i \in Instances, Transmit(i) PROVE Q
  BY <1>19 DEF Transmit
<1>20. ASSUME UNCHANGED vars PROVE Q
  BY <1>20 DEF vars
<1>21. ASSUME NEW i \in Instances, AppendResult(i) PROVE Q
  <2>1. Copies' = Copies + 1
    BY <1>21, AppendAddsCopy DEF AppendResult
  <2>2. QED
    BY <1>21, <2>1 DEF AppendResult
<1>22. ASSUME NEW o \in DOMAIN orphans, AppendOrphan(o) PROVE Q /\ IsFiniteSet(Orphaned')
  <2>1. o \in Nat
    BY DEF TypeOK
  <2>2. Copies' = Copies + 1
    BY <1>22, <2>1, AppendAddsCopy DEF AppendOrphan
  <2>3. IsFiniteSet(Orphaned') /\ O' = O - 1
    BY <1>22, AppendTakesOne DEF O
  <2>4. QED
    BY <1>22, <2>2, <2>3 DEF AppendOrphan
<1>23. ASSUME NEW i \in Instances, Abandon(i)
      PROVE  /\ IsFiniteSet(Orphaned') /\ O' \in Nat
             /\ O' <= O + (IF delivery[i] = "sent" THEN 1 ELSE 0)
  BY <1>23, AbandonAddsOne, FS_CardinalityType DEF O
<1>24. ASSUME NEW i \in Instances, RequestTimeout(i) PROVE Q /\ IsFiniteSet(Orphaned')
  BY <1>23, <1>24 DEF RequestTimeout, Fault
<1>25. ASSUME NEW i \in Instances, DeliveryFailed(i) PROVE Q /\ IsFiniteSet(Orphaned')
  BY <1>23, <1>25 DEF DeliveryFailed, Fault
<1>26. ASSUME NEW i \in Instances, Close(i) PROVE Q /\ IsFiniteSet(Orphaned')
  BY <1>23, <1>26 DEF Close, Leave, Goto
<1>27. ASSUME NEW i \in Instances, Crash(i) PROVE Q /\ IsFiniteSet(Orphaned')
  BY <1>23, <1>27 DEF Crash, Leave, Goto, Fault
<1>28. Q /\ IsFiniteSet(Orphaned')
  <2>1. CASE Q /\ UNCHANGED orphans
    BY <2>1
  <2>2. QED
    BY <2>1, <1>1, <1>2, <1>3, <1>4, <1>5, <1>6, <1>7, <1>8, <1>9, <1>10, <1>11, <1>12, <1>13, <1>14, <1>15, <1>16, <1>17, <1>18, <1>19, <1>20, <1>21, <1>22, <1>24, <1>25, <1>26, <1>27
       DEF Next, ProduceRaw, Assign, Rebalance, Revoke, Start, PollEmpty, Poll, PollError,
           Publish, PublishRaises, ProduceRefused, FlushDone, FlushRaises, FlushTimeout,
           Commit, CommitRefused, CommitFails, Stop, Transmit, AppendResult, vars
<1>29. QED
  BY <1>q, <1>m, <1>28

LEMMA InitCopies ==
  ASSUME NEW me \in Instances, Init
  PROVE  AloneInv /\ CopiesInv(me)
<1>1. Orphaned = {}
  BY DEF Init, Orphaned
<1>2. Cardinality(Orphaned) = 0 /\ IsFiniteSet(Orphaned)
  BY <1>1, FS_EmptySet
<1>3. Copies = 0
  BY DEF Init, TopicsInit, Copies, Topic
<1>4. QED
  BY <1>2, <1>3 DEF Init, TopicsInit, AloneInv, CopiesInv, MidRecord, Outstanding, InClient,
     Again, Due, InFlight

\* There are as many published offsets as there are committed ones, and one
\* more if the record at the group's offset is published.
LEMMA PublishedCount ==
  ASSUME TypeOK, NEW c \in Nat, AllBefore(c)
  PROVE  /\ Cardinality(Range(out["validated"])) \in Nat
         /\ Cardinality(Range(out["dlq"])) \in Nat
         /\ c <= Cardinality(Range(out["validated"])) + Cardinality(Range(out["dlq"]))
<1> DEFINE v == Range(out["validated"])
           x == Range(out["dlq"])
<1>1. IsFiniteSet(v) /\ IsFiniteSet(x)
  <2>1. \A t \in Topic : IsFiniteSet(DOMAIN out[t])
    <3>1. \A t \in Topic : out[t] \in Seq(Nat)
      BY DEF TypeOK, TopicsTypeOK
    <3>2. \A t \in Topic : Len(out[t]) \in Nat /\ DOMAIN out[t] = 1 .. Len(out[t])
      BY <3>1
    <3>3. QED
      BY <3>2, FS_Interval
  <2>2. \A t \in Topic : out[t] \in Surjection(DOMAIN out[t], Range(out[t]))
    <3> TAKE t \in Topic
    <3>1. out[t] \in [DOMAIN out[t] -> Nat]
      BY DEF TypeOK, TopicsTypeOK
    <3>2. QED
      BY <3>1, Fun_RangeProperties
  <2>3. \A t \in Topic : IsFiniteSet(Range(out[t]))
    BY <2>1, <2>2, FS_Surjection
  <2>4. QED
    BY <2>3 DEF Topic
<1>2. 0 .. c - 1 \subseteq v \cup x
  BY DEF AllBefore, Published, Dest
<1>3. IsFiniteSet(v \cup x)
      /\ Cardinality(v \cup x) = Cardinality(v) + Cardinality(x) - Cardinality(v \cap x)
  BY <1>1, FS_Union
<1>4. IsFiniteSet(v \cap x)
  BY <1>1, FS_Intersection
<1>5. Cardinality(v) \in Nat /\ Cardinality(x) \in Nat /\ Cardinality(v \cap x) \in Nat
  BY <1>1, <1>4, FS_CardinalityType
<1>6. Cardinality(0 .. c - 1) = c
  BY FS_Interval
<1>7. Cardinality(0 .. c - 1) <= Cardinality(v \cup x)
  BY <1>2, <1>3, FS_Subset
<1> HIDE DEF v, x
<1>8. Cardinality(v) \in Nat /\ Cardinality(x) \in Nat /\ c <= Cardinality(v) + Cardinality(x)
  BY <1>3, <1>5, <1>6, <1>7
<1>9. QED
  BY <1>8 DEF v, x

LEMMA CopiesBound ==
  ASSUME NEW me \in Instances, IInv, CopiesInv(me)
  PROVE  DuplicatesBoundedByFaults
<1> DEFINE v == Cardinality(Range(out["validated"]))
           x == Cardinality(Range(out["dlq"]))
           m == Len(out["validated"])
           n == Len(out["dlq"])
           O == Cardinality(Orphaned)
<1>1. /\ TypeOK /\ AllBefore(committed) /\ committed \in Nat /\ faults \in Nat
      /\ delivery[me] \in Delivery
  BY DEF IInv, Resumable, TypeOK, TopicsTypeOK
<1>2. O \in Nat /\ m \in Nat /\ n \in Nat
  <2>1. out["validated"] \in Seq(Nat) /\ out["dlq"] \in Seq(Nat)
    BY <1>1 DEF TypeOK, TopicsTypeOK, Topic
  <2>2. QED
    BY <2>1, FS_CardinalityType DEF CopiesInv
<1>3. v \in Nat /\ x \in Nat /\ committed <= v + x
  BY <1>1, PublishedCount
<1>4. Again(me) \in Nat /\ InClient(me) \in Nat /\ Due(me) \in {0, 1}
  BY DEF Again, InClient, Due
<1>5. m + n + O + InClient(me) + Again(me) <= committed + faults + Due(me)
  <2>1. Copies + (O + InClient(me) + Again(me)) <= committed + faults + Due(me) /\ Copies = m + n
    BY DEF CopiesInv, Copies, Outstanding
  <2> HIDE DEF m, n, O
  <2>2. QED
    BY <1>1, <1>2, <1>4, <2>1
<1>6. Due(me) = 1 => InClient(me) = 1 \/ committed + 1 <= v + x
  <2> SUFFICES ASSUME Due(me) = 1, InClient(me) # 1 PROVE committed + 1 <= v + x
    OBVIOUS
  <2>1. /\ pc[me] \in {"flushing", "committing"} /\ current[me] = committed
        /\ delivery[me] # "failed" /\ delivery[me] \notin InFlight
    BY DEF Due, InClient
  <2>2. pc[me] = "committing" \/ delivery[me] = "acked"
    BY <1>1, <2>1 DEF CopiesInv, Delivery, InFlight
  <2>3. Published(committed)
    BY <2>1, <2>2 DEF IInv, CurrentInv, DeliveryInv
  <2>4. AllBefore(committed + 1)
    BY <1>1, <2>3 DEF AllBefore
  <2>5. QED
    BY <1>1, <2>4, PublishedCount
<1>7. DuplicatesBoundedByFaults <=> (m - v) + (n - x) <= faults
  BY DEF DuplicatesBoundedByFaults, Extra
<1> HIDE DEF m, n, v, x, O
<1>8. (m - v) + (n - x) <= faults
  BY <1>1, <1>2, <1>3, <1>4, <1>5, <1>6
<1>9. QED
  BY <1>7, <1>8

(***************************************************************************)
(* AloneRepeatsPerFault: a single validator, however many records it reads *)
(* and whatever fails, publishes at most one extra copy per fault: every   *)
(* copy on the network or still to be made belongs to a committed record,  *)
(* to the record in hand, or to a fault (process_message commits after     *)
(* every record).                                                          *)
(***************************************************************************)
THEOREM AloneRepeatsPerFault ==
  ASSUME NEW me \in Instances, Alone
  PROVE  Spec => []DuplicatesBoundedByFaults
<1>1. Init => AloneInv /\ CopiesInv(me)
  BY InitCopies
<1>2. IInv /\ AloneInv /\ CopiesInv(me) /\ [Next]_vars => (AloneInv /\ CopiesInv(me))'
  <2>1. IInv => TypeOK
    BY DEF IInv
  <2>2. QED
    BY <2>1, AloneStep, CopiesStep
<1>3. IInv /\ CopiesInv(me) => DuplicatesBoundedByFaults
  BY CopiesBound
<1>4. QED
  BY <1>1, <1>2, <1>3, Invariance, PTL DEF Spec

=============================================================================
