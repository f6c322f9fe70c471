--------------------------- MODULE PipelineProofs ---------------------------
(***************************************************************************)
(* TLAPS proofs of what the pipeline composed in Pipeline guarantees from  *)
(* transactions.raw to the Silver table, and of the inspector beside it.   *)
(*                                                                         *)
(* The Silver query of the pipeline is an ExactlyOnceQuery whose input is  *)
(* what the validator has relayed: a relayed record arrives, everything    *)
(* else but a batch leaves the query as it is. So the invariant of         *)
(* QueryProofs holds of it. PipeInv adds what the topics and the inspector *)
(* contribute: transactions.validated has offsets of valid records only,   *)
(* the first copy of a record comes after a copy of each valid record      *)
(* before it, and what the inspector has printed is a readable prefix.     *)
(***************************************************************************)
EXTENDS Pipeline, SequenceTheorems, TLAPS

Event ==
  [run : Nat, prefix : {"txn", "default", "run-id", "txn_invalid"}, seq : Nat,
   time : 1 .. MaxTime, class : {"valid", "invalid"}, readable : BOOLEAN]

PipeTypes ==
  /\ run \in Nat /\ program \in {"app", "early", "late", "invalid"} /\ seq \in Nat
  /\ clock \in 0 .. MaxTime
  /\ pending \in SUBSET Event /\ sent \in Seq(Event)
  /\ out \in [{"validated", "dlq"} -> Seq(Nat)]
  /\ done \in Nat

outv == out["validated"]

\* transactions.validated: offsets of valid records, first copies in order.
OnlyValid == \A k \in 1 .. Len(outv) : outv[k] \in Valid

FirstCopiesInOrder ==
  \A k \in 1 .. Len(outv) : \A p \in Valid :
    p < outv[k] => \E j \in 1 .. Len(outv) : j < k /\ outv[j] = p

InspectorInv ==
  /\ status \in {"idle", "reading", "ok", "failed"}
  /\ position \in Nat /\ printed \in Seq(Nat)
  /\ status = "idle" => printed = << >>
  /\ status = "reading" => position = Len(printed) + 1
  /\ status = "ok" => Len(printed) = MaxMessages
  /\ \A i \in 1 .. Len(printed) : printed[i] = i /\ i <= Len(sent) /\ sent[i].readable

PipeInv ==
  /\ PipeTypes
  /\ OnlyValid
  /\ FirstCopiesInOrder
  /\ InspectorInv

-----------------------------------------------------------------------------
(* The topics *)

\* The validator's view of transactions.raw.
LEMMA RawIsSent ==
  ASSUME NEW log \in Seq(Event)
  PROVE  LET raw == [i \in DOMAIN log |-> log[i].class] IN
         /\ Len(raw) = Len(log) /\ Len(log) \in Nat
         /\ \A o \in 0 .. Len(log) - 1 : raw[o + 1] = log[o + 1].class /\ log[o + 1] \in Event
<1>1. DOMAIN log = 1 .. Len(log) /\ Len(log) \in Nat
  OBVIOUS
<1> DEFINE raw == [i \in 1 .. Len(log) |-> log[i].class]
<1>2. Len(raw) = Len(log) /\ \A o \in 0 .. Len(log) - 1 : raw[o + 1] = log[o + 1].class
  BY <1>1
<1>3. \A o \in 0 .. Len(log) - 1 : log[o + 1] \in Event
  BY <1>1
<1>4. QED
  BY <1>1, <1>2, <1>3

LEMMA ValidOffsets ==
  ASSUME PipeTypes
  PROVE  /\ Len(sent) \in Nat /\ DOMAIN sent = 1 .. Len(sent)
         /\ Relay!Offsets = 0 .. Len(sent) - 1
         /\ Valid = {o \in 0 .. Len(sent) - 1 : sent[o + 1].class = "valid"}
         /\ \A o \in 0 .. Len(sent) - 1 : sent[o + 1] \in Event
         /\ outv \in Seq(Nat) /\ Len(outv) \in Nat /\ DOMAIN outv = 1 .. Len(outv)
<1>1. sent \in Seq(Event) /\ outv \in Seq(Nat)
  BY DEF PipeTypes, outv
<1>2. Relay!Offsets = 0 .. Len(sent) - 1
  BY <1>1, RawIsSent DEF Relay!Offsets
<1>3. \A o \in 0 .. Len(sent) - 1 : sent[o + 1] \in Event
  BY <1>1, RawIsSent
<1>4. QED
  BY <1>1, <1>2, <1>3 DEF Valid

LEMMA ValidOffsetsNext ==
  ASSUME PipeTypes'
  PROVE  Valid' = {o \in 0 .. Len(sent') - 1 : sent'[o + 1].class = "valid"}
<1>1. sent' \in Seq(Event)
  BY DEF PipeTypes
<1>2. Relay!Offsets' = 0 .. Len(sent') - 1
  BY <1>1, RawIsSent DEF Relay!Offsets
<1>3. QED
  BY <1>2 DEF Valid

LEMMA PipeStarts == Init => PipeInv
<1> SUFFICES ASSUME Init PROVE PipeInv
  OBVIOUS
<1>1. /\ sent = << >> /\ printed = << >> /\ outv = << >>
      /\ status = "idle" /\ position = 0
  BY DEF Init, Inspect!Init, outv, Relay!Topic
<1>2. PipeTypes
  BY PipelineAssumption DEF Init, PipeTypes, Relay!Topic
<1>3. OnlyValid /\ FirstCopiesInOrder
  BY <1>1 DEF OnlyValid, FirstCopiesInOrder
<1>4. InspectorInv
  BY <1>1 DEF InspectorInv
<1>5. QED
  BY <1>2, <1>3, <1>4 DEF PipeInv

-----------------------------------------------------------------------------
(* The publishers *)

LEMMA NextEventsAreEvents ==
  ASSUME PipeTypes, seq < Count
  PROVE  \A e \in NextEvents : e \in Event /\ e.time \in 1 .. MaxTime
<1> USE DEF PipeTypes
<1>1. Times \subseteq 1 .. MaxTime
  <2>1. CASE program = "app"
    BY <2>1 DEF Times
  <2>2. CASE program = "invalid"
    BY <2>2, PipelineAssumption DEF Times
  <2>3. CASE program \in {"early", "late"}
    <3>1. seq \in {0, 1}
      BY <2>3 DEF Count
    <3>2. Waves[program][seq + 1] \in {601, 603, 650, 652}
      BY <2>3, <3>1 DEF Waves
    <3>3. Times = {Waves[program][seq + 1]}
      BY <2>3 DEF Times
    <3>4. QED
      BY <3>2, <3>3, PipelineAssumption
  <2>4. QED
    BY <2>1, <2>2, <2>3
<1>2. \A p \in Prefixes(program, run) : p \in {"txn", "default", "run-id", "txn_invalid"}
  BY DEF Prefixes
<1>3. (IF program = "late" THEN seq + 3 ELSE seq + 1) \in Nat
  OBVIOUS
<1> DEFINE class == IF program = "invalid" THEN "invalid" ELSE "valid"
           number == IF program = "late" THEN seq + 3 ELSE seq + 1
           event(prefix, time, readable) ==
             [run |-> run, prefix |-> prefix, seq |-> number, time |-> time,
              class |-> class, readable |-> readable]
<1>4. class \in {"valid", "invalid"}
  OBVIOUS
<1>5. \A e \in NextEvents :
        \E prefix \in Prefixes(program, run), time \in Times, readable \in BOOLEAN :
          e = event(prefix, time, readable)
  <2> DEFINE prefixes == {p \in Prefixes(program, run) :
                            \A i \in DOMAIN sent : sent[i].run = run => sent[i].prefix = p}
             readables == IF program = "invalid" THEN BOOLEAN ELSE {TRUE}
  <2>1. NextEvents = {event(prefix, time, readable) :
                        prefix \in prefixes, time \in Times, readable \in readables}
    BY DEF NextEvents
  <2>2. prefixes \subseteq Prefixes(program, run) /\ readables \subseteq BOOLEAN
    OBVIOUS
  <2> HIDE DEF event, prefixes, readables
  <2>3. QED
    BY <2>1, <2>2
<1> HIDE DEF class, number
<1>6. \A prefix \in Prefixes(program, run), time \in Times, readable \in BOOLEAN :
        event(prefix, time, readable) \in Event /\ event(prefix, time, readable).time = time
  BY <1>1, <1>2, <1>3, <1>4 DEF Event, number
<1> HIDE DEF event
<1>7. QED
  BY <1>1, <1>5, <1>6

\* The log grows behind what the topics and the inspector have of it.
LEMMA LogGrows ==
  ASSUME PipeInv, PipeTypes', UNCHANGED <<out, inspectorVars>>,
         sent' = sent \/ \E e \in Event : sent' = Append(sent, e)
  PROVE  PipeInv'
<1>1. /\ Len(sent) \in Nat /\ Len(sent') \in Nat /\ Len(sent) <= Len(sent')
      /\ \A i \in 1 .. Len(sent) : sent'[i] = sent[i]
  <2>1. sent \in Seq(Event)
    BY DEF PipeInv, PipeTypes
  <2>2. CASE sent' = sent
    BY <2>1, <2>2
  <2>3. CASE \E e \in Event : sent' = Append(sent, e)
    BY <2>1, <2>3
  <2>4. QED
    BY <2>2, <2>3
<1>2. outv' = outv /\ Len(outv) \in Nat /\ outv \in Seq(Nat)
  BY DEF outv, PipeInv, PipeTypes
<1>3. /\ Valid = {o \in 0 .. Len(sent) - 1 : sent[o + 1].class = "valid"}
      /\ Valid' = {o \in 0 .. Len(sent') - 1 : sent'[o + 1].class = "valid"}
  BY ValidOffsets, ValidOffsetsNext DEF PipeInv
<1>4. \A o \in 0 .. Len(sent) - 1 : o \in Valid' <=> o \in Valid
  BY <1>1, <1>3
<1>5. OnlyValid'
  BY <1>2, <1>3, <1>4 DEF PipeInv, OnlyValid
<1>6. FirstCopiesInOrder'
  <2>1. \A k \in 1 .. Len(outv) : outv[k] \in 0 .. Len(sent) - 1
    BY <1>3 DEF PipeInv, OnlyValid
  <2>2. \A k \in 1 .. Len(outv) : \A p \in Valid' : p < outv[k] => p \in Valid
    BY <1>1, <1>3, <1>4, <2>1
  <2>3. QED
    BY <1>2, <2>2 DEF PipeInv, FirstCopiesInOrder
<1>7. InspectorInv'
  BY <1>1 DEF PipeInv, InspectorInv, inspectorVars
<1>8. QED
  BY <1>5, <1>6, <1>7 DEF PipeInv

LEMMA PublishersKeep ==
  ASSUME PipeInv, (\E p \in Programs : StartRun(p)) \/ Publish \/ Resend \/ SendCopy
  PROVE  /\ PipeInv' /\ UNCHANGED <<out, streamVars>>
         /\ sent' = sent \/ \E e \in Event : sent' = Append(sent, e)
<1> USE DEF PipeInv, PipeTypes
<1>1. CASE \E p \in Programs : StartRun(p)
  <2>1. /\ PipeTypes' /\ UNCHANGED <<out, streamVars, inspectorVars>> /\ sent' = sent
    BY <1>1, PipelineAssumption DEF StartRun, streamVars
  <2>2. QED
    BY <2>1, LogGrows
<1>2. CASE Publish
  <2>1. seq < Count /\ seq' = seq + 1
        /\ UNCHANGED <<run, program, out, streamVars, inspectorVars>>
    BY <1>2 DEF Publish
  <2>2. PICK e \in NextEvents :
          /\ clock' = e.time
          /\ \/ sent' = Append(sent, e) /\ pending' = pending
             \/ pending' = pending \cup {e} /\ sent' = sent
    BY <1>2 DEF Publish
  <2>3. e \in Event /\ e.time \in 1 .. MaxTime
    BY <2>1, NextEventsAreEvents
  <2>4. PipeTypes'
    <3>1. clock' \in 0 .. MaxTime
      BY <2>2, <2>3
    <3>2. pending \cup {e} \in SUBSET Event /\ Append(sent, e) \in Seq(Event)
      BY <2>3
    <3>3. pending' \in SUBSET Event /\ sent' \in Seq(Event)
      BY <2>2, <3>2
    <3>4. QED
      BY <3>1, <3>3, <2>1 DEF streamVars
  <2>5. QED
    BY <2>1, <2>2, <2>3, <2>4, LogGrows
<1>3. CASE Resend
  <2>1. PICK e \in pending : sent' = Append(sent, e) /\ pending' = pending \ {e}
    BY <1>3 DEF Resend
  <2>2. e \in Event /\ UNCHANGED <<run, program, seq, clock, out, streamVars, inspectorVars>>
    BY <1>3 DEF Resend
  <2>3. PipeTypes'
    BY <2>1, <2>2 DEF streamVars
  <2>4. QED
    BY <2>1, <2>2, <2>3, LogGrows
<1>4. CASE SendCopy
  <2>1. PICK i \in DOMAIN sent : sent' = Append(sent, sent[i])
    BY <1>4 DEF SendCopy
  <2>2. sent[i] \in Event /\ UNCHANGED <<publisherVars, out, streamVars, inspectorVars>>
    BY <1>4 DEF SendCopy
  <2>3. PipeTypes'
    BY <2>1, <2>2 DEF publisherVars, streamVars
  <2>4. QED
    BY <2>1, <2>2, <2>3, LogGrows
<1>5. QED
  BY <1>1, <1>2, <1>3, <1>4

-----------------------------------------------------------------------------
(* The validator *)

LEMMA RelayKeeps ==
  ASSUME PipeInv, NEW o \in Relay!Offsets, Relay!Relay(o),
         UNCHANGED <<publisherVars, sent, streamVars, inspectorVars>>
  PROVE  /\ PipeInv'
         /\ \/ outv' = outv
            \/ o \in Valid /\ outv' = Append(outv, o)
<1> USE DEF PipeInv
<1> DEFINE raw == [i \in DOMAIN sent |-> sent[i].class]
<1>1. /\ Len(sent) \in Nat /\ o \in 0 .. Len(sent) - 1 /\ outv \in Seq(Nat)
      /\ Len(outv) \in Nat
      /\ Valid = {p \in 0 .. Len(sent) - 1 : sent[p + 1].class = "valid"}
      /\ \A p \in 0 .. Len(sent) - 1 : sent[p + 1] \in Event
      /\ \A p \in 0 .. Len(sent) - 1 : raw[p + 1] = sent[p + 1].class
  BY ValidOffsets, RawIsSent DEF PipeTypes
<1>2. /\ \A p \in 0 .. o - 1 : Relay!Published(p)
      /\ out' = [out EXCEPT ![Relay!Dest(raw[o + 1])] = Append(@, o)]
  BY DEF Relay!Relay, Relay!AllBefore
<1> HIDE DEF raw
<1>3. PipeTypes' /\ Valid' = Valid
  <2>1. Relay!Dest(raw[o + 1]) \in {"validated", "dlq"} /\ o \in Nat
    BY <1>1 DEF Relay!Dest
  <2>2. out' \in [{"validated", "dlq"} -> Seq(Nat)]
    BY <1>2, <2>1 DEF PipeTypes
  <2>3. PipeTypes'
    BY <2>2 DEF PipeTypes, publisherVars, streamVars
  <2>4. QED
    BY <1>1, <2>3, ValidOffsetsNext
<1>4. InspectorInv'
  BY DEF InspectorInv, inspectorVars
<1>5. CASE o \notin Valid
  <2>1. Relay!Dest(raw[o + 1]) = "dlq"
    BY <1>1, <1>5 DEF Relay!Dest
  <2>2. outv' = outv
    BY <1>2, <2>1 DEF PipeTypes, outv
  <2>3. QED
    BY <1>3, <1>4, <2>2 DEF OnlyValid, FirstCopiesInOrder
<1>6. CASE o \in Valid
  <2>1. Relay!Dest(raw[o + 1]) = "validated"
    BY <1>1, <1>6 DEF Relay!Dest
  <2>2. outv' = Append(outv, o)
    BY <1>2, <2>1 DEF PipeTypes, outv
  <2>3. /\ Len(outv') = Len(outv) + 1 /\ outv'[Len(outv) + 1] = o
        /\ \A k \in 1 .. Len(outv) : outv'[k] = outv[k]
    BY <1>1, <2>2
  <2>4. ASSUME NEW p \in Valid, p < o PROVE \E j \in 1 .. Len(outv) : outv[j] = p
    <3>1. Relay!Published(p) /\ raw[p + 1] = "valid"
      BY <1>1, <1>2, <2>4
    <3>2. p \in Relay!Range(outv)
      BY <3>1 DEF Relay!Published, Relay!Dest, outv, raw
    <3>3. QED
      BY <1>1, <3>2 DEF Relay!Range
  <2>5. OnlyValid'
    <3>1. \A k \in 1 .. Len(outv) + 1 : k \in 1 .. Len(outv) \/ k = Len(outv) + 1
      BY <1>1
    <3>2. \A k \in 1 .. Len(outv) + 1 : outv'[k] \in Valid
      BY <1>6, <2>3, <3>1 DEF OnlyValid
    <3>3. QED
      BY <1>3, <2>3, <3>2 DEF OnlyValid
  <2>6. FirstCopiesInOrder'
    <3>1. ASSUME NEW k \in 1 .. Len(outv) + 1, NEW p \in Valid, p < outv'[k]
          PROVE  \E j \in 1 .. Len(outv) + 1 : j < k /\ outv'[j] = p
      <4>1. CASE k = Len(outv) + 1
        <5>1. PICK j \in 1 .. Len(outv) : outv[j] = p
          BY <2>3, <2>4, <3>1, <4>1
        <5>2. QED
          BY <1>1, <2>3, <4>1, <5>1
      <4>2. CASE k \in 1 .. Len(outv)
        <5>1. PICK j \in 1 .. Len(outv) : j < k /\ outv[j] = p
          BY <2>3, <3>1, <4>2 DEF FirstCopiesInOrder
        <5>2. QED
          BY <1>1, <2>3, <5>1
      <4>3. QED
        BY <1>1, <4>1, <4>2
    <3>2. QED
      BY <1>3, <2>3, <3>1 DEF FirstCopiesInOrder
  <2>7. QED
    BY <1>3, <1>4, <1>6, <2>2, <2>5, <2>6
<1>7. QED
  BY <1>5, <1>6

-----------------------------------------------------------------------------
(* The inspector *)

LEMMA InspectorKeeps ==
  ASSUME PipeInv, Inspect!Step \/ Inspect!PollFails,
         UNCHANGED <<publisherVars, sent, out, streamVars>>
  PROVE  PipeInv'
<1> USE DEF PipeInv
<1> DEFINE topic == [i \in DOMAIN sent |-> sent[i].readable]
<1>1. /\ Len(sent) \in Nat /\ Len(topic) = Len(sent)
      /\ \A i \in 1 .. Len(sent) : topic[i] = sent[i].readable
  BY DEF PipeTypes
<1> HIDE DEF topic
<1>2. PipeTypes' /\ outv' = outv /\ Valid' = Valid
  <2>1. PipeTypes' /\ outv' = outv
    BY DEF PipeTypes, publisherVars, streamVars, outv
  <2>2. QED
    BY <2>1, ValidOffsets, ValidOffsetsNext
<1>3. OnlyValid' /\ FirstCopiesInOrder'
  BY <1>2 DEF OnlyValid, FirstCopiesInOrder
<1>4. InspectorInv'
  <2> USE DEF InspectorInv
  <2>1. CASE Inspect!Start
    BY <2>1 DEF Inspect!Start
  <2>2. CASE Inspect!PrintRecord
    <3>1. /\ status = "reading" /\ position <= Len(topic) /\ topic[position]
          /\ printed' = Append(printed, position) /\ position' = position + 1
          /\ status' = status
      BY <2>2 DEF Inspect!PrintRecord, Inspect!Wanting, topic
    <3>2. position = Len(printed) + 1 /\ Len(printed) \in Nat
      BY <3>1
    <3>3. /\ printed' \in Seq(Nat) /\ Len(printed') = Len(printed) + 1
          /\ printed'[Len(printed) + 1] = position
          /\ \A i \in 1 .. Len(printed) : printed'[i] = printed[i]
      BY <3>1, <3>2
    <3>4. position \in 1 .. Len(sent) /\ sent[position].readable
      BY <1>1, <3>1, <3>2
    <3>5. \A i \in 1 .. Len(printed') :
            printed'[i] = i /\ i <= Len(sent') /\ sent'[i].readable
      BY <3>2, <3>3, <3>4
    <3>6. QED
      BY <3>1, <3>2, <3>3, <3>5
  <2>3. CASE Inspect!ReadRaises \/ Inspect!PollFails \/ Inspect!TimesOut
    BY <2>3 DEF Inspect!ReadRaises, Inspect!PollFails, Inspect!TimesOut
  <2>4. CASE Inspect!Finish
    BY <2>4 DEF Inspect!Finish
  <2>5. QED
    BY <2>1, <2>2, <2>3, <2>4 DEF Inspect!Step
<1>5. QED
  BY <1>2, <1>3, <1>4

\* What a step does to the topics, the query and the invariant.
LEMMA PipeSteps ==
  ASSUME PipeInv, [Next]_vars
  PROVE  /\ PipeInv'
         /\ \/ /\ UNCHANGED <<out, streamVars>>
               /\ sent' = sent \/ \E e \in Event : sent' = Append(sent, e)
            \/ /\ UNCHANGED <<sent, streamVars>>
               /\ \/ outv' = outv
                  \/ \E o \in Valid : outv' = Append(outv, o)
            \/ UNCHANGED <<sent, out>> /\ TakeBatch
<1>1. CASE (\E p \in Programs : StartRun(p)) \/ Publish \/ Resend \/ SendCopy
  BY <1>1, PublishersKeep
<1>2. CASE ValidateNext \/ ValidateAgain
  <2>1. UNCHANGED <<publisherVars, sent, streamVars, inspectorVars>>
    BY <1>2 DEF ValidateNext, ValidateAgain
  <2>2. PICK o \in Relay!Offsets : Relay!Relay(o)
    BY <1>2 DEF ValidateNext, ValidateAgain
  <2>3. QED
    BY <2>1, <2>2, RelayKeeps
<1>3. CASE InspectorStep \/ InspectorFails
  <2>1. UNCHANGED <<publisherVars, sent, out, streamVars>>
    BY <1>3 DEF InspectorStep, InspectorFails
  <2>2. Inspect!Step \/ Inspect!PollFails
    BY <1>3 DEF InspectorStep, InspectorFails
  <2>3. QED
    BY <2>1, <2>2, InspectorKeeps
<1>4. CASE TakeBatch \/ UNCHANGED vars
  <2>1. UNCHANGED <<publisherVars, sent, out, inspectorVars>>
    BY <1>4 DEF TakeBatch, vars, publisherVars, inspectorVars
  <2>2. PipeTypes'
    <3>1. done' \in Nat
      <4>1. CASE TakeBatch
        <5>1. PICK end \in done + 1 .. Len(Input) : \E w : Silver!Batch(end, w)
          BY <4>1 DEF TakeBatch
        <5>2. done' = end /\ done \in Nat
          BY <5>1 DEF Silver!Batch, PipeInv, PipeTypes
        <5>3. QED
          BY <5>1, <5>2
      <4>2. CASE UNCHANGED vars
        BY <4>2 DEF vars, PipeInv, PipeTypes
      <4>3. QED
        BY <1>4, <4>1, <4>2
    <3>2. QED
      BY <2>1, <3>1 DEF PipeInv, PipeTypes, publisherVars
  <2>3. PipeInv'
    BY <2>1, <2>2, LogGrows
  <2>4. QED
    BY <1>4, <2>1, <2>3 DEF vars, streamVars
<1>5. QED
  BY <1>1, <1>2, <1>3, <1>4 DEF Next

-----------------------------------------------------------------------------
(* The Silver query of the pipeline is an ExactlyOnceQuery *)

PipeRecords == {Record(e) : e \in Event}

Query == INSTANCE QueryProofs WITH
  Kind <- "silver", Records <- PipeRecords,
  input <- Input, counted <- {},
  Sizes <- {1}, MaxAmount <- 1, HighAmount <- 1,
  RapidTxnCount <- 0, MultiDevice <- 0, FarBoxes <- {}, Grid <- 1

LEMMA QueryAssumption == Query!EventTimeAssumption
<1>1. \A r \in PipeRecords : /\ r.time \in 1 .. MaxTime /\ r.amount = 1
                             /\ r.latitude = {0} /\ r.longitude = {0}
  BY DEF PipeRecords, Record, Event
<1>2. QED
  BY <1>1, PipelineAssumption DEF Query!EventTimeAssumption

LEMMA InputTypes ==
  ASSUME PipeInv
  PROVE  /\ Input \in Seq(PipeRecords) /\ Len(Input) = Len(outv)
         /\ DOMAIN Input = 1 .. Len(outv)
         /\ \A k \in 1 .. Len(outv) :
              /\ Input[k] = Record(sent[outv[k] + 1])
              /\ sent[outv[k] + 1] \in Event
<1>1. /\ Len(outv) \in Nat /\ DOMAIN outv = 1 .. Len(outv)
      /\ \A o \in Valid : sent[o + 1] \in Event
  BY ValidOffsets DEF PipeInv
<1>2. \A k \in 1 .. Len(outv) : sent[outv[k] + 1] \in Event
  BY <1>1 DEF PipeInv, OnlyValid
<1>3. Input = [k \in 1 .. Len(outv) |-> Record(sent[outv[k] + 1])]
  BY <1>1 DEF Input, outv
<1>4. \A k \in 1 .. Len(outv) : Record(sent[outv[k] + 1]) \in PipeRecords
  BY <1>2 DEF PipeRecords
<1>5. QED
  <2> DEFINE rec(k) == Record(sent[outv[k] + 1])
  <2>1. Input = [k \in 1 .. Len(outv) |-> rec(k)] /\ \A k \in 1 .. Len(outv) : rec(k) \in PipeRecords
    BY <1>3, <1>4
  <2> HIDE DEF rec
  <2>2. Input \in Seq(PipeRecords) /\ Len(Input) = Len(outv) /\ DOMAIN Input = 1 .. Len(outv)
        /\ \A k \in 1 .. Len(outv) : Input[k] = rec(k)
    BY <1>1, <2>1
  <2>3. QED
    BY <1>2, <2>2 DEF rec

LEMMA InputTypesNext ==
  ASSUME PipeInv'
  PROVE  /\ Input' \in Seq(PipeRecords) /\ Len(Input') = Len(outv')
         /\ \A k \in 1 .. Len(outv') : Input'[k] = Record(sent'[outv'[k] + 1])
<1>1. /\ outv' \in Seq(Nat) /\ Len(outv') \in Nat /\ DOMAIN outv' = 1 .. Len(outv')
      /\ sent' \in Seq(Event) /\ Len(sent') \in Nat
      /\ Valid' = {o \in 0 .. Len(sent') - 1 : sent'[o + 1].class = "valid"}
  BY ValidOffsetsNext DEF PipeInv, PipeTypes, outv
<1>2. \A k \in 1 .. Len(outv') : sent'[outv'[k] + 1] \in Event
  BY <1>1 DEF PipeInv, OnlyValid
<1> DEFINE rec(k) == Record(sent'[outv'[k] + 1])
<1>3. Input' = [k \in 1 .. Len(outv') |-> rec(k)]
  BY <1>1 DEF Input, outv
<1>4. \A k \in 1 .. Len(outv') : rec(k) \in PipeRecords
  BY <1>2 DEF PipeRecords
<1> HIDE DEF rec
<1>5. /\ Input' \in Seq(PipeRecords) /\ Len(Input') = Len(outv')
      /\ \A k \in 1 .. Len(outv') : Input'[k] = rec(k)
  BY <1>1, <1>3, <1>4
<1>6. QED
  BY <1>5 DEF rec

\* What a growing log does to the query's input.
LEMMA InputStays ==
  ASSUME PipeInv, PipeInv', outv' = outv,
         \A o \in Valid : sent'[o + 1] = sent[o + 1]
  PROVE  Input' = Input
<1>1. /\ Input \in Seq(PipeRecords) /\ Input' \in Seq(PipeRecords)
      /\ Len(Input') = Len(Input) /\ Len(Input) = Len(outv)
  BY InputTypes, InputTypesNext
<1>2. \A k \in 1 .. Len(outv) : sent'[outv'[k] + 1] = sent[outv[k] + 1]
  BY DEF PipeInv, OnlyValid
<1>3. \A k \in 1 .. Len(Input) : Input'[k] = Input[k]
  BY <1>1, <1>2, InputTypes, InputTypesNext
<1>4. QED
  BY <1>1, <1>3, SeqEqual

LEMMA InputGrows ==
  ASSUME PipeInv, PipeInv', sent' = sent, NEW o \in Valid, outv' = Append(outv, o)
  PROVE  \E r \in PipeRecords : Input' = Append(Input, r)
<1> DEFINE r == Record(sent[o + 1])
<1>1. r \in PipeRecords
  BY ValidOffsets DEF PipeInv, PipeRecords
<1>2. /\ Len(outv') = Len(outv) + 1 /\ outv'[Len(outv) + 1] = o /\ Len(outv) \in Nat
      /\ \A k \in 1 .. Len(outv) : outv'[k] = outv[k]
  BY ValidOffsets DEF PipeInv
<1>3. /\ Input \in Seq(PipeRecords) /\ Input' \in Seq(PipeRecords)
      /\ Len(Input') = Len(Input) + 1 /\ Len(Input) = Len(outv)
  BY <1>2, InputTypes, InputTypesNext
<1>4. \A k \in 1 .. Len(outv) : Input'[k] = Input[k]
  BY <1>2, InputTypes, InputTypesNext
<1>5. Input'[Len(outv) + 1] = r
  BY <1>2, InputTypesNext
<1> HIDE DEF r
<1>6. /\ Append(Input, r) \in Seq(PipeRecords) /\ Len(Append(Input, r)) = Len(Input) + 1
      /\ Append(Input, r)[Len(Input) + 1] = r
      /\ \A k \in 1 .. Len(Input) : Append(Input, r)[k] = Input[k]
  BY <1>1, <1>3
<1>7. \A k \in 1 .. Len(Input') : Input'[k] = Append(Input, r)[k]
  <2>1. \A k \in 1 .. Len(Input') : k \in 1 .. Len(Input) \/ k = Len(Input) + 1
    BY <1>2, <1>3
  <2>2. QED
    BY <2>1, <1>3, <1>4, <1>5, <1>6
<1>8. Input' = Append(Input, r)
  BY <1>3, <1>6, <1>7, SeqEqual
<1>9. QED
  BY <1>1, <1>8

\* The operators of EventTime mean the same in both instances.
LEMMA EventTimeSame ==
  /\ \A a, b : Silver!Minus(a, b) = Query!Minus(a, b)
  /\ \A w, i, rows : Silver!Advance(w, i, rows) = Query!Advance(w, i, rows)
  /\ \A i, rows, w, s : Silver!Accepted(i, rows, w, s) = Query!Accepted(i, rows, w, s)
  /\ \A i, w : Silver!Closed({}, i, w) = {} /\ Query!Closed({}, i, w) = {}
<1>1. \A a, b : Silver!Minus(a, b) = Query!Minus(a, b)
  BY DEF Silver!Minus, Query!Minus
<1>2. \A t, w : Silver!Late(t, w) <=> Query!Late(t, w)
  BY DEF Silver!Late, Query!Late
<1>3. ASSUME NEW w, NEW i, NEW rows PROVE Silver!Advance(w, i, rows) = Query!Advance(w, i, rows)
  <2>1. {w} \cup {Silver!Minus(i[o].time, Delay) : o \in rows}
          = {w} \cup {Query!Minus(i[o].time, Delay) : o \in rows}
    BY <1>1
  <2>2. QED
    BY <2>1, Zenon DEF Silver!Advance, Query!Advance
<1>4. \A i, rows, w, s : Silver!Accepted(i, rows, w, s) = Query!Accepted(i, rows, w, s)
  BY <1>2 DEF Silver!Accepted, Query!Accepted
<1>5. \A i, w : Silver!Closed({}, i, w) = {} /\ Query!Closed({}, i, w) = {}
  BY DEF Silver!Closed, Query!Closed
<1>6. QED
  BY <1>1, <1>3, <1>4, <1>5

LEMMA BatchIsQueryBatch ==
  ASSUME NEW end, NEW w, Silver!Batch(end, w)
  PROVE  Query!Batch(end, w)
<1> DEFINE new == Silver!Accepted(Input, done + 1 .. end, wm, seen)
<1>1. /\ wm <= w /\ w <= Silver!Advance(0, Input, 1 .. done)
      /\ done' = end /\ wm' = w /\ seen' = seen \cup new
      /\ table' = Append(table, new) /\ Input' = Input
  BY DEF Silver!Batch
<1>2. /\ Query!Accepted(Input, done + 1 .. end, wm, seen) = new
      /\ Query!Advance(0, Input, 1 .. done) = Silver!Advance(0, Input, 1 .. done)
  BY EventTimeSame
<1>3. Query!Closed({}, Input, w) = {}
  BY EventTimeSame
<1> HIDE DEF new
<1>4. QED
  BY <1>1, <1>2, <1>3 DEF Query!Batch

LEMMA QueryInit == Init => Query!Init
<1> SUFFICES ASSUME Init PROVE Query!Init
  OBVIOUS
<1>1. out["validated"] = << >> /\ done = 0 /\ wm = 0 /\ seen = {} /\ table = << >>
  BY DEF Init, Relay!Topic
<1>2. Input = << >>
  BY <1>1 DEF Input
<1>3. QED
  BY <1>1, <1>2 DEF Query!Init

LEMMA QueryNext ==
  ASSUME PipeInv, [Next]_vars
  PROVE  [Query!Next]_(Query!vars)
<1>1. PipeInv'
  BY PipeSteps
<1>2. ASSUME Input' = Input, UNCHANGED streamVars PROVE [Query!Next]_(Query!vars)
  BY <1>2 DEF Query!vars, streamVars
<1>3. CASE /\ UNCHANGED <<out, streamVars>>
           /\ sent' = sent \/ \E e \in Event : sent' = Append(sent, e)
  <2>1. /\ sent \in Seq(Event) /\ \A o \in Valid : o + 1 \in 1 .. Len(sent)
    BY ValidOffsets DEF PipeInv, PipeTypes
  <2>2. \A o \in Valid : sent'[o + 1] = sent[o + 1]
    BY <1>3, <2>1
  <2>3. outv' = outv
    BY <1>3 DEF outv
  <2>4. QED
    BY <1>1, <1>2, <1>3, <2>2, <2>3, InputStays
<1>4. CASE /\ UNCHANGED <<sent, streamVars>>
           /\ \/ outv' = outv
              \/ \E o \in Valid : outv' = Append(outv, o)
  <2>1. CASE outv' = outv
    BY <1>1, <1>2, <1>4, <2>1, InputStays
  <2>2. CASE \E o \in Valid : outv' = Append(outv, o)
    <3>1. PICK r \in PipeRecords : Input' = Append(Input, r)
      BY <1>1, <1>4, <2>2, InputGrows
    <3>2. Query!Arrive(r)
      BY <1>4, <3>1 DEF Query!Arrive, streamVars
    <3>3. QED
      BY <3>2 DEF Query!Next
  <2>3. QED
    BY <1>4, <2>1, <2>2
<1>5. CASE UNCHANGED <<sent, out>> /\ TakeBatch
  <2>1. PICK end \in done + 1 .. Len(Input) :
          \E w \in {0} \cup {Silver!Minus(Input[k].time, Delay) : k \in 1 .. done} :
            Silver!Batch(end, w)
    BY <1>5 DEF TakeBatch
  <2>2. PICK w \in {0} \cup {Silver!Minus(Input[k].time, Delay) : k \in 1 .. done} :
          Silver!Batch(end, w)
    BY <2>1
  <2>3. Query!Batch(end, w)
    BY <2>2, BatchIsQueryBatch
  <2>4. done \in Nat /\ end \in done .. Len(Input) /\ done <= Len(Input)
    BY <2>1 DEF PipeInv, PipeTypes
  <2>5. \A k \in 1 .. done : Input[k] \in PipeRecords
    BY <2>4, InputTypes
  <2>6. w \in Query!Watermarks
    BY <2>2, <2>5, EventTimeSame DEF Query!Watermarks
  <2>7. QED
    BY <2>3, <2>4, <2>6 DEF Query!Next
<1>6. QED
  BY <1>3, <1>4, <1>5, PipeSteps

LEMMA PipeInvariance == Spec => []PipeInv
<1>1. PipeInv /\ [Next]_vars => PipeInv'
  BY PipeSteps
<1>2. QED
  BY PipeStarts, <1>1, PTL DEF Spec

(***************************************************************************)
(* Whatever the publishers and the validator do, the Silver query of the   *)
(* pipeline is a query without faults over transactions.validated          *)
(* (start_silver_parquet_query, fed by process_message).                   *)
(***************************************************************************)
THEOREM PipelineFeedsQuery == Spec => Query!Spec
<1>1. PipeInv /\ [Next]_vars => [Query!Next]_(Query!vars)
  BY QueryNext
<1>2. QED
  BY <1>1, QueryInit, PipeInvariance, PTL DEF Spec, Query!Spec

LEMMA PipeQueryHolds == Spec => []Query!QueryInv
<1>1. Query!Spec => []Query!QueryInv
  BY Query!QueryInvariance, QueryAssumption
<1>2. QED
  BY <1>1, PipelineFeedsQuery, PTL

-----------------------------------------------------------------------------
(* What the rows of Silver stand for *)

\* A row of Silver is a record the query has seen, in one batch.
LEMMA SilverRows ==
  ASSUME PipeInv, Query!QueryInv
  PROVE  /\ \A x \in RowsInSilver : x[2] \in seen /\ x[2] \in 1 .. Len(outv)
         /\ \A x, y \in RowsInSilver : x[2] = y[2] => x = y
         /\ \A k \in seen : \E x \in RowsInSilver : x[2] = k
<1>1. /\ table \in Seq(Query!Batches) /\ DOMAIN table = 1 .. Len(table)
      /\ seen \subseteq 1 .. Len(outv)
  <2>1. /\ table \in Seq(Query!Batches) /\ done \in 0 .. Len(Input) /\ seen \subseteq 1 .. done
    BY DEF Query!QueryInv, Query!QueryTypes
  <2>2. Len(Input) = Len(outv) /\ Len(outv) \in Nat
    BY InputTypes, ValidOffsets DEF PipeInv
  <2>3. QED
    BY <2>1, <2>2
<1>2. /\ \A n \in DOMAIN table : table[n] \subseteq seen
      /\ \A o \in seen : \E n \in DOMAIN table : o \in table[n]
      /\ \A n, m \in DOMAIN table : \A o \in table[n] : o \in table[m] => n = m
  BY <1>1 DEF Query!QueryInv, Query!SeenIsWritten, Query!Written
<1>3. \A x \in RowsInSilver : \E n \in DOMAIN table : \E k \in table[n] : x = <<n, k>>
  BY DEF RowsInSilver
<1>4. \A n \in DOMAIN table : \A k \in table[n] : <<n, k>> \in RowsInSilver
  BY DEF RowsInSilver
<1>5. ASSUME NEW x \in RowsInSilver, NEW y \in RowsInSilver, x[2] = y[2] PROVE x = y
  <2>1. PICK n \in DOMAIN table : \E k \in table[n] : x = <<n, k>>
    BY <1>3
  <2>2. PICK m \in DOMAIN table : \E k \in table[m] : y = <<m, k>>
    BY <1>3
  <2>3. /\ x = <<n, x[2]>> /\ x[2] \in table[n]
        /\ y = <<m, y[2]>> /\ y[2] \in table[m]
    BY <2>1, <2>2
  <2>4. n = m
    BY <2>3, <1>2, <1>5
  <2>5. QED
    BY <2>3, <2>4, <1>5
<1>6. ASSUME NEW k \in seen PROVE \E x \in RowsInSilver : x[2] = k
  <2>1. PICK n \in DOMAIN table : k \in table[n]
    BY <1>2
  <2>2. <<n, k>> \in RowsInSilver /\ <<n, k>>[2] = k
    BY <2>1, <1>4
  <2>3. QED
    BY <2>2
<1>7. \A x \in RowsInSilver : x[2] \in seen
  BY <1>2, <1>3
<1>8. QED
  BY <1>1, <1>5, <1>6, <1>7

LEMMA InputIds ==
  ASSUME PipeInv, NEW k \in 1 .. Len(outv)
  PROVE  /\ Input[k].id = Id(EventOf(k)) /\ Input[k].time = EventOf(k).time
         /\ EventOf(k).time \in Nat
<1>1. Input[k] = Record(EventOf(k)) /\ EventOf(k) \in Event
  BY InputTypes DEF EventOf, outv
<1>2. QED
  BY <1>1 DEF Record, Event

LEMMA OneRow ==
  ASSUME PipeInv, Query!QueryInv
  PROVE  OneRowEndToEnd
<1> SUFFICES ASSUME NEW x \in RowsInSilver, NEW y \in RowsInSilver,
                    Id(EventOf(x[2])) = Id(EventOf(y[2]))
             PROVE  x = y
  BY DEF OneRowEndToEnd
<1>1. /\ x[2] \in seen /\ y[2] \in seen
      /\ x[2] \in 1 .. Len(outv) /\ y[2] \in 1 .. Len(outv)
  BY SilverRows
<1>2. Input[x[2]].id = Input[y[2]].id
  BY <1>1, InputIds
<1>3. x[2] = y[2]
  BY <1>1, <1>2 DEF Query!QueryInv, Query!SeenOnce
<1>4. QED
  BY <1>3, SilverRows

\* The first copy of a record that is on time in transactions.raw is on time
\* in transactions.validated.
LEMMA FirstCopyOnTime ==
  ASSUME PipeInv, NEW o \in Valid,
         \A p \in Valid : p < o => sent[p + 1].time < sent[o + 1].time + Delay,
         NEW k \in 1 .. Len(outv), outv[k] = o,
         \A j \in 1 .. Len(outv) : outv[j] = o => k <= j
  PROVE  Query!OnTime(k)
<1> SUFFICES ASSUME NEW j \in 1 .. k - 1
             PROVE  Input[j].time < Input[k].time + Delay
  BY DEF Query!OnTime
<1>1. /\ Len(outv) \in Nat /\ j \in 1 .. Len(outv) /\ j < k
      /\ Valid \subseteq Nat
  BY ValidOffsets DEF PipeInv
<1>2. outv[j] \in Valid /\ outv[j] # o
  BY <1>1 DEF PipeInv, OnlyValid
<1>3. ~(o < outv[j])
  <2>1. ASSUME o < outv[j] PROVE FALSE
    <3>1. PICK l \in 1 .. Len(outv) : l < j /\ outv[l] = o
      BY <1>1, <2>1 DEF PipeInv, FirstCopiesInOrder
    <3>2. QED
      BY <1>1, <3>1
  <2>2. QED
    BY <2>1
<1>4. outv[j] < o
  <2>1. outv[j] \in Nat /\ o \in Nat
    BY <1>1, <1>2
  <2>2. QED
    BY <2>1, <1>2, <1>3
<1>5. sent[outv[j] + 1].time < sent[outv[k] + 1].time + Delay
  BY <1>2, <1>4
<1>6. QED
  BY <1>1, <1>5, InputIds DEF EventOf, outv

LEMMA OnTimeArrives ==
  ASSUME PipeInv, Query!QueryInv
  PROVE  OnTimeReachesSilver
<1> SUFFICES ASSUME NEW o \in Valid, Taken(o),
                    \A p \in Valid : p < o => sent[p + 1].time < sent[o + 1].time + Delay
             PROVE  InSilver(sent[o + 1])
  BY DEF OnTimeReachesSilver
<1>1. PICK taken \in 1 .. done : outv[taken] = o
  BY DEF Taken, outv
<1>2. done \in Nat /\ done <= Len(outv) /\ Len(outv) \in Nat
  <2>1. done \in 0 .. Len(Input)
    BY DEF Query!QueryInv, Query!QueryTypes
  <2>2. QED
    BY <2>1, InputTypes, ValidOffsets DEF PipeInv
<1> DEFINE copies == {k \in 1 .. Len(outv) : outv[k] = o}
<1>3. copies \in SUBSET Nat /\ taken \in copies
  BY <1>1, <1>2
<1>4. PICK k \in copies : \A j \in copies : k <= j
  <2> HIDE DEF copies
  <2> QED BY <1>3, Query!Smallest, QueryAssumption
<1>5. k \in 1 .. Len(outv) /\ outv[k] = o /\ k <= taken
  BY <1>3, <1>4
<1>6. Query!OnTime(k)
  BY <1>4, <1>5, FirstCopyOnTime
<1>7. k \in 1 .. done
  BY <1>1, <1>2, <1>5
<1>8. PICK p \in seen : Input[p].id = Input[k].id
  BY <1>6, <1>7 DEF Query!QueryInv, Query!OnTimeSeen
<1>9. PICK x \in RowsInSilver : x[2] = p
  BY SilverRows
<1>10. p \in 1 .. Len(outv)
  BY <1>9, SilverRows
<1>11. Id(EventOf(x[2])) = Id(EventOf(k))
  BY <1>5, <1>8, <1>9, <1>10, InputIds
<1>12. EventOf(k) = sent[o + 1]
  BY <1>5 DEF EventOf, outv
<1>13. QED
  BY <1>11, <1>12 DEF InSilver

(***************************************************************************)
(* One row per transaction_id in Silver, although the client and the       *)
(* validator may each publish an event twice (README.md; dropDuplicates).  *)
(***************************************************************************)
THEOREM OneRowInSilver == Spec => []OneRowEndToEnd
BY PipeInvariance, PipeQueryHolds, OneRow, PTL

(***************************************************************************)
(* What is on time in transactions.raw is on time for the query, and its   *)
(* id comes to be in Silver: the validator's repeats make nothing late     *)
(* (process_message, apply_watermark).                                     *)
(***************************************************************************)
THEOREM OnTimeInSilver == Spec => []OnTimeReachesSilver
BY PipeInvariance, PipeQueryHolds, OnTimeArrives, PTL

-----------------------------------------------------------------------------
(* The inspector *)

(***************************************************************************)
(* The inspector exits with 0 only when it has printed the first records   *)
(* of the topic and all of them could be read, while publishers go on      *)
(* (inspect_topic.py, consume_and_print).                                  *)
(***************************************************************************)
THEOREM InspectorPrintsTheFirst == Spec => []PrintedTheFirst
<1>1. PipeInv => PrintedTheFirst
  <2> SUFFICES ASSUME PipeInv, status = "ok"
               PROVE  /\ printed = [i \in 1 .. MaxMessages |-> i]
                      /\ \A i \in 1 .. MaxMessages : [j \in DOMAIN sent |-> sent[j].readable][i]
    BY DEF PrintedTheFirst, Inspect!PrintedTheFirst
  <2>1. /\ printed \in Seq(Nat) /\ Len(printed) = MaxMessages
        /\ \A i \in 1 .. Len(printed) : printed[i] = i /\ i <= Len(sent) /\ sent[i].readable
        /\ DOMAIN sent = 1 .. Len(sent) /\ Len(sent) \in Nat
    BY ValidOffsets DEF PipeInv, InspectorInv
  <2>2. printed = [i \in 1 .. MaxMessages |-> i]
    BY <2>1
  <2>3. \A i \in 1 .. MaxMessages : i \in DOMAIN sent /\ sent[i].readable
    BY <2>1, PipelineAssumption
  <2>4. QED
    BY <2>2, <2>3
<1>2. QED
  BY <1>1, PipeInvariance, PTL

=============================================================================
