------------------------------ MODULE Pipeline ------------------------------
(***************************************************************************)
(* The pipeline from the generator to the Silver table, composed of what   *)
(* its parts promise: the validator is AtLeastOnceRelay (Validator         *)
(* implements it) and the streaming query is ExactlyOnceQuery (Lake        *)
(* implements it). Of the publishers it keeps what TransactionProducer     *)
(* lets happen to the log: the events of one run after another, each in    *)
(* the order it was generated unless the client retried it, some missing.  *)
(* Beside the pipeline one Inspector reads transactions.raw.               *)
(*                                                                         *)
(* An event is [run, prefix, seq, time, class, readable]; its              *)
(* transaction_id is made of the prefix and the number. Time is in minutes *)
(* of 2026-01-01. Only unroutable records are left out: none of the        *)
(* repository's programs publishes one.                                    *)
(***************************************************************************)
EXTENDS Naturals, Sequences, FiniteSets, Functions

CONSTANTS
  Programs,     \* the programs that are run
  MaxCount,     \* bound: --count of producer.app
  Steps,        \* how far the generator moves its clock
  Delay,        \* SPARK_WATERMARK
  MaxTime,      \* the last time a timestamp holds
  MaxRuns,      \* bound: runs of a program
  MaxFaults,    \* bound: retries of the client, repeats of the validator
  MaxMessages   \* --max-messages of the inspector

ASSUME PipelineAssumption ==
  /\ Programs \subseteq {"app", "early", "late", "invalid"}
  /\ Steps \cup {MaxMessages} \subseteq Nat \ {0}
  /\ {MaxCount, Delay, MaxRuns, MaxFaults} \subseteq Nat
  /\ MaxTime \in Nat /\ MaxTime >= 652   \* the last of Waves

VARIABLES
  run, program,  \* the current run
  seq,           \* events generated in it (_txn_seq)
  clock,         \* the generator's _clock
  pending,       \* events the client is to send once more
  sent,          \* transactions.raw
  out,           \* the output topics, as offsets of transactions.raw
  done, wm, seen, table,      \* the Silver query, see ExactlyOnceQuery
  status, position, printed,  \* the inspector
  faults

publisherVars == <<run, program, seq, clock, pending>>
streamVars == <<done, wm, seen, table>>
inspectorVars == <<status, position, printed>>
vars == <<run, program, seq, clock, pending, sent, out, done, wm, seen, table,
          status, position, printed, faults>>

\* The prefix of the ids: an app's is always the same, and so is
\* publish_timed's unless it is given a --run-id.
Prefixes(p, r) ==
  CASE p = "app" -> {"txn"}
    [] p \in {"early", "late"} -> {"default", "run-id"}
    [] OTHER -> {"txn_invalid"}

Id(e) == <<e.prefix, IF e.prefix = "run-id" THEN e.run ELSE 0, e.seq>>

\* Copies of one transaction. Runs of app are given different seeds; with the
\* default run id two publish_timed runs of a wave publish the same events.
SameTransaction(e, f) ==
  /\ Id(e) = Id(f) /\ e.time = f.time
  /\ e.prefix = "txn" => e.run = f.run

\* publish_timed's _WAVES.
Waves == [early |-> <<601, 603>>, late |-> <<650, 652>>]

Record(e) == [id |-> Id(e), account |-> "acct", amount |-> 1, device |-> "dev",
              latitude |-> {0}, longitude |-> {0}, time |-> e.time]

Relay == INSTANCE AtLeastOnceRelay WITH
  raw <- [i \in DOMAIN sent |-> sent[i].class], committed <- 0

Input == [k \in DOMAIN out["validated"] |-> Record(sent[out["validated"][k] + 1])]

Silver == INSTANCE ExactlyOnceQuery WITH
  Kind <- "silver", Records <- {},
  input <- Input, counted <- {},
  Sizes <- {1}, MaxAmount <- 1, HighAmount <- 1,
  RapidTxnCount <- 0, MultiDevice <- 0, FarBoxes <- {}, Grid <- 1

Inspect == INSTANCE Inspector WITH topic <- [i \in DOMAIN sent |-> sent[i].readable]

Init ==
  /\ run = 0 /\ program = "invalid" /\ seq = 1 /\ clock = 0 /\ pending = {}
  /\ sent = << >> /\ out = [t \in Relay!Topic |-> << >>]
  /\ done = 0 /\ wm = 0 /\ seen = {} /\ table = << >>
  /\ Inspect!Init
  /\ faults = 0

Fault == faults < MaxFaults /\ faults' = faults + 1

-----------------------------------------------------------------------------
(* The publishers *)

\* A program is started; the last one has ended, be it early.
StartRun(p) ==
  /\ run < MaxRuns
  /\ run' = run + 1 /\ program' = p
  /\ seq' = 0 /\ clock' = 0 /\ pending' = {}
  /\ UNCHANGED <<sent, out, streamVars, inspectorVars, faults>>

Count == CASE program = "app" -> MaxCount [] program = "invalid" -> 1 [] OTHER -> 2

\* Mutant of Times: the clock is moved back.
TimesBackward ==
  CASE program = "app" -> {IF clock = 0 THEN 45 ELSE clock - t : t \in Steps}
    [] program = "invalid" -> {1}
    [] OTHER -> {Waves[program][seq + 1]}

\* The times of the next event: the generator's clock only goes forward. When
\* it passes the last datetime, generate_one raises and the run is over.
Times ==
  CASE program = "app" -> {clock + t : t \in Steps} \cap 1 .. MaxTime
    [] program = "invalid" -> {1}
    [] OTHER -> {Waves[program][seq + 1]}

\* generate_one, _event or build_invalid_event. One of the fixtures is not JSON.
NextEvents ==
  {[run |-> run, prefix |-> prefix,
    seq |-> IF program = "late" THEN seq + 3 ELSE seq + 1,
    time |-> time, class |-> IF program = "invalid" THEN "invalid" ELSE "valid",
    readable |-> readable] :
     prefix \in {p \in Prefixes(program, run) :
                   \A i \in DOMAIN sent : sent[i].run = run => sent[i].prefix = p},
     time \in Times,
     readable \in IF program = "invalid" THEN BOOLEAN ELSE {TRUE}}

\* The next event is generated, and sent or, after a failure, to be sent again.
Publish ==
  /\ seq < Count
  /\ seq' = seq + 1
  /\ \E e \in NextEvents :
       /\ clock' = e.time
       /\ \/ sent' = Append(sent, e) /\ UNCHANGED <<pending, faults>>
          \/ Fault /\ pending' = pending \cup {e} /\ UNCHANGED sent
  /\ UNCHANGED <<run, program, out, streamVars, inspectorVars>>

Resend ==
  /\ \E e \in pending : sent' = Append(sent, e) /\ pending' = pending \ {e}
  /\ UNCHANGED <<run, program, seq, clock, out, streamVars, inspectorVars, faults>>

\* The answer to an event of the run was lost: it is sent a second time.
SendCopy ==
  /\ Fault
  /\ \E i \in DOMAIN sent : sent[i].run = run /\ sent' = Append(sent, sent[i])
  /\ UNCHANGED <<publisherVars, out, streamVars, inspectorVars>>

-----------------------------------------------------------------------------
(* The validator, the streaming job and the inspector *)

Validated(o) == Relay!Published(o)

ValidateNext ==
  /\ UNCHANGED <<publisherVars, sent, streamVars, inspectorVars, faults>>
  /\ \E o \in Relay!Offsets : ~Validated(o) /\ Relay!Relay(o)

ValidateAgain ==
  /\ Fault
  /\ UNCHANGED <<publisherVars, sent, streamVars, inspectorVars>>
  /\ \E o \in Relay!Offsets : Validated(o) /\ Relay!Relay(o)

TakeBatch ==
  /\ UNCHANGED <<publisherVars, sent, out, inspectorVars, faults>>
  /\ \E end \in done + 1 .. Len(Input) :
       \E w \in {0} \cup {Silver!Minus(Input[k].time, Delay) : k \in 1 .. done} :
         Silver!Batch(end, w)

InspectorStep ==
  /\ UNCHANGED <<publisherVars, sent, out, streamVars, faults>>
  /\ Inspect!Step

InspectorFails ==
  /\ UNCHANGED <<publisherVars, sent, out, streamVars, faults>>
  /\ Inspect!PollFails

Next ==
  \/ \E p \in Programs : StartRun(p)
  \/ Publish \/ Resend \/ SendCopy
  \/ ValidateNext \/ ValidateAgain
  \/ TakeBatch
  \/ InspectorStep \/ InspectorFails

Spec == Init /\ [][Next]_vars

\* Programs are run, and events sent, as the operator likes. The validator
\* goes on as RoutableEventuallyPublished says of Validator, the query as
\* EveryRecordTaken of Lake, the inspector by its clock.
FairSpec ==
  /\ Spec
  /\ WF_vars(ValidateNext) /\ WF_vars(TakeBatch) /\ WF_vars(InspectorStep)

-----------------------------------------------------------------------------
(* Properties *)

\* The events that Silver has rows of.
RowsInSilver == UNION {{<<n, k>> : k \in table[n]} : n \in DOMAIN table}
EventOf(k) == sent[out["validated"][k] + 1]
InSilver(e) == \E x \in RowsInSilver : Id(EventOf(x[2])) = Id(e)

Valid == {o \in Relay!Offsets : sent[o + 1].class = "valid"}

\* A copy of the record at o is among those the query has taken.
Taken(o) == \E k \in 1 .. done : out["validated"][k] = o

(***************************************************************************)
(* OneRowEndToEnd: one row per transaction_id (README.md), although the    *)
(* producer's client and the validator each may publish an event twice.    *)
(***************************************************************************)
OneRowEndToEnd ==
  \A x, y \in RowsInSilver : Id(EventOf(x[2])) = Id(EventOf(y[2])) => x = y

(***************************************************************************)
(* OnTimeReachesSilver: when an event is on time in transactions.raw, that *)
(* is, by less than the delay earlier than every valid event before it,    *)
(* its transaction_id is in Silver once the query has taken it, with this  *)
(* or another event of the id. So the validator makes nothing late: its    *)
(* repeats come after the first copies, and those are in order.            *)
(***************************************************************************)
OnTimeReachesSilver ==
  \A o \in Valid :
    /\ \A p \in Valid : p < o => sent[p + 1].time < sent[o + 1].time + Delay
    /\ Taken(o)
    => InSilver(sent[o + 1])

(***************************************************************************)
(* FirstRunReachesSilver: each valid event of the first run that no later  *)
(* event of the run has overtaken ends in Silver, whatever is repeated on  *)
(* the way: event times grow along a run (generate_one, _WAVES), so the    *)
(* watermark never passes the next event.                                  *)
(***************************************************************************)
Overtaken(o) ==
  \E p \in 0 .. o - 1 : sent[p + 1].run = sent[o + 1].run /\ sent[p + 1].seq > sent[o + 1].seq

\* The n-th of its run: those of publish_timed's waves are 1 and 2, 3 and 4.
IsNth(e, n) == e.seq = n \/ (e.prefix \in {"default", "run-id"} /\ e.seq = n + 2)

InOrder(n) ==
  \E o \in Valid : sent[o + 1].run = 1 /\ IsNth(sent[o + 1], n) /\ ~Overtaken(o)

FirstRunReachesSilver ==
  \A n \in 1 .. MaxCount :
    InOrder(n) ~> \E x \in RowsInSilver : EventOf(x[2]).run = 1 /\ IsNth(EventOf(x[2]), n)

(***************************************************************************)
(* PrintedTheFirst, InspectionEnds: see Inspector; the topic grows and the *)
(* fixture that is not JSON may be in it.                                  *)
(***************************************************************************)
PrintedTheFirst == Inspect!PrintedTheFirst
InspectionEnds == Inspect!InspectionEnds

(***************************************************************************)
(* EveryTransactionReachesSilver: "Unique transaction identifier."         *)
(* (schemas.py): a transaction that the query has taken on time is in      *)
(* Silver, not merely another one with its id. The generator's numbers     *)
(* start again in each run, so the next run's transactions are dropped as  *)
(* repeats of this run's.                                                  *)
(***************************************************************************)
EveryTransactionReachesSilver ==
  \A o \in Valid :
    /\ \A p \in Valid : p < o => sent[p + 1].time < sent[o + 1].time + Delay
    /\ Taken(o)
    => \E x \in RowsInSilver : SameTransaction(EventOf(x[2]), sent[o + 1])

=============================================================================
