------------------------- MODULE TransactionProducer -------------------------
(***************************************************************************)
(* The publishers of transactions.raw: TransactionProducer around a Kafka  *)
(* producer client (producer/kafka_producer.py), and the programs that     *)
(* drive it, producer.app and producer.publish_timed, or do the same with  *)
(* a bare client, producer.publish_invalid. They are run one after the     *)
(* other; each run has a generator and a client of its own.                *)
(*                                                                         *)
(* An event is named by its run and its number in the run. In an app run   *)
(* its account is drawn with the seed; in the others it is fixed.          *)
(*                                                                         *)
(* The client (external) sends what is queued oldest first, keeps up to    *)
(* MaxInFlight requests on the network, and puts a request that got no     *)
(* answer or a retriable one back in the queue: the code sets acks=all and *)
(* leaves idempotence off and the number of requests in flight at its      *)
(* default. The broker handles the requests of a connection in order.      *)
(***************************************************************************)
EXTENDS Naturals, Sequences, Functions, FiniteSets

CONSTANTS
  Seeds,        \* values of --seed
  Accounts,     \* account ids
  AccountOf,    \* the generator's choice of account, per seed and number
  MaxCount,     \* bound: --count
  Waves,        \* events of a publish_timed run
  MaxRuns,      \* bound: runs of a publisher
  MaxFaults,    \* bound: faults of the broker, the network and the operator
  MaxInFlight,  \* requests the client keeps on the network
  QueueLimit    \* messages the client holds before produce raises BufferError

ASSUME ProducerAssumption ==
  /\ AccountOf \in [Seeds -> [1 .. MaxCount -> Accounts]]
  /\ {MaxCount, MaxRuns, MaxFaults} \subseteq Nat
  /\ {MaxInFlight, QueueLimit} \subseteq Nat \ {0}
  /\ {1, Waves} \subseteq 0 .. MaxCount

VARIABLES
  run,       \* number of the current run, 0 before the first
  cli,       \* the program that runs
  seed,      \* its --seed
  count,     \* events it is to publish
  pc,        \* where it is, see PC
  rc,        \* its exit status so far
  index,     \* events generated (_txn_seq)
  queue,     \* events waiting in the client
  inflight,  \* requests on the network, oldest first
  reports,   \* failed events whose report no poll or flush has served yet
  errors,    \* _delivery_errors
  log,       \* transactions.raw
  retried,   \* events the client has sent more than once (history)
  faults     \* faults so far

runVars == <<run, cli, seed, count>>
clientVars == <<queue, inflight, reports>>
vars == <<run, cli, seed, count, pc, rc, index, queue, inflight, reports,
          errors, log, retried, faults>>

\* "publishing": the loop over publish; "flushing": the flush after it (app
\* only); "closing": close; "exited": no run is going on.
PC == {"publishing", "flushing", "closing", "exited"}

Cli == {"app", "timed", "invalid"}

\* What a run publishes: --count events, the two waves, or one fixture.
Counts(c) == IF c = "app" THEN 0 .. MaxCount ELSE {IF c = "timed" THEN Waves ELSE 1}
Event == [run : 1 .. MaxRuns, cli : Cli, seed : Seeds, seq : 1 .. MaxCount]

TypeOK ==
  /\ run \in 0 .. MaxRuns
  /\ cli \in Cli
  /\ seed \in Seeds
  /\ count \in 0 .. MaxCount
  /\ pc \in PC
  /\ rc \in {0, 1}
  /\ index \in 0 .. count
  /\ queue \subseteq 1 .. index
  /\ inflight \in Seq(1 .. index)
  /\ reports \subseteq 1 .. index
  /\ errors \subseteq 1 .. index
  /\ log \in Seq(Event)
  /\ retried \subseteq (1 .. MaxRuns) \X (1 .. MaxCount)
  /\ faults \in 0 .. MaxFaults

Init ==
  /\ run = 0 /\ cli = "app" /\ seed \in Seeds /\ count = 0
  /\ pc = "exited" /\ rc = 0 /\ index = 0
  /\ queue = {} /\ inflight = << >> /\ reports = {} /\ errors = {}
  /\ log = << >> /\ retried = {} /\ faults = 0

-----------------------------------------------------------------------------
(* Helpers *)

Fault == faults < MaxFaults /\ faults' = faults + 1

This(n) == [run |-> run, cli |-> cli, seed |-> seed, seq |-> n]

\* What flush counts as remaining.
Remaining == Cardinality(queue) + Len(inflight)

\* Mutant of ServeReports: _on_delivery keeps no error.
ServeSilently == errors' = errors /\ reports' = {}

\* poll and flush run _on_delivery for the reports that are there.
ServeReports == errors' = errors \cup reports /\ reports' = {}

Quit(status) == pc' = "exited" /\ rc' = status

-----------------------------------------------------------------------------
(* The programs *)

\* main: a run starts, with a new generator and a new client; what the last
\* run left on the network is gone by then.
StartRun ==
  /\ pc = "exited"
  /\ run < MaxRuns
  /\ run' = run + 1
  /\ cli' \in Cli
  /\ seed' \in Seeds
  /\ count' \in Counts(cli')
  /\ pc' = "publishing" /\ rc' = 0 /\ index' = 0
  /\ queue' = {} /\ inflight' = << >> /\ reports' = {} /\ errors' = {}
  /\ UNCHANGED <<log, retried, faults>>

\* Mutant of Publish: the number is used before it is advanced.
PublishFromZero ==
  /\ pc = "publishing"
  /\ index < count
  /\ Remaining < QueueLimit
  /\ index' = index + 1
  /\ queue' = queue \cup {index}
  /\ ServeReports
  /\ UNCHANGED <<runVars, pc, rc, inflight, log, retried, faults>>

\* publish(generate_one()): produce enqueues the event, poll(0) serves.
Publish ==
  /\ pc = "publishing"
  /\ index < count
  /\ Remaining < QueueLimit
  /\ index' = index + 1
  /\ queue' = queue \cup {index + 1}
  /\ ServeReports
  /\ UNCHANGED <<runVars, pc, rc, inflight, log, retried, faults>>

\* produce raises BufferError at the client's limit. app goes through the
\* finally of its main to close; the others return at once.
PublishRaises ==
  /\ pc = "publishing"
  /\ index < count
  /\ Remaining >= QueueLimit
  /\ rc' = 1
  /\ pc' = IF cli = "app" THEN "closing" ELSE "exited"
  /\ index' = index + 1
  /\ UNCHANGED <<runVars, clientVars, errors, log, retried, faults>>

\* The loop is over: app flushes; publish_timed closes, and publish_invalid's
\* one flush does what close does.
PublishedAll ==
  /\ pc = "publishing"
  /\ index = count
  /\ pc' = IF cli = "app" THEN "flushing" ELSE "closing"
  /\ UNCHANGED <<runVars, rc, index, clientVars, errors, log, retried, faults>>

\* flush with nothing remaining: raises when a report was an error.
FlushReturns ==
  /\ pc = "flushing"
  /\ Remaining = 0
  /\ reports' = {} /\ errors' = {}
  /\ rc' = IF errors \cup reports = {} THEN 0 ELSE 1
  /\ pc' = "closing"
  /\ UNCHANGED <<runVars, index, queue, inflight, log, retried, faults>>

\* Mutant of FlushTimesOut: what is in flight is queued once more.
FlushRequeues ==
  /\ pc = "flushing"
  /\ Remaining > 0
  /\ ServeReports
  /\ rc' = 1
  /\ pc' = "closing"
  /\ queue' = queue \cup Range(inflight)
  /\ UNCHANGED <<runVars, index, inflight, log, retried, faults>>

\* flush(10.0) with events remaining raises; errors served so far are kept.
FlushTimesOut ==
  /\ pc = "flushing"
  /\ Remaining > 0
  /\ ServeReports
  /\ rc' = 1
  /\ pc' = "closing"
  /\ UNCHANGED <<runVars, index, queue, inflight, log, retried, faults>>

\* close flushes too; main returns 1 when it raises.
CloseReturns ==
  /\ pc = "closing"
  /\ Remaining = 0
  /\ reports' = {} /\ errors' = {}
  /\ Quit(IF errors \cup reports = {} THEN rc ELSE 1)
  /\ UNCHANGED <<runVars, index, queue, inflight, log, retried, faults>>

\* Mutant of CloseTimesOut: what remains is not looked at.
CloseIgnoresRemaining ==
  /\ pc = "closing"
  /\ Remaining > 0
  /\ ServeReports
  /\ Quit(rc)
  /\ UNCHANGED <<runVars, index, queue, inflight, log, retried, faults>>

\* Mutant of CloseTimesOut: close waits for as long as it takes.
CloseWaits == FALSE

CloseTimesOut ==
  /\ pc = "closing"
  /\ Remaining > 0
  /\ ServeReports
  /\ Quit(1)
  /\ UNCHANGED <<runVars, index, queue, inflight, log, retried, faults>>

\* KeyboardInterrupt is not caught: app still closes, the others do not.
Interrupt ==
  /\ pc \in {"publishing", "flushing", "closing"}
  /\ Fault
  /\ rc' = 1
  /\ pc' = IF cli = "app" /\ pc # "closing" THEN "closing" ELSE "exited"
  /\ UNCHANGED <<runVars, index, clientVars, errors, log, retried>>

Crash ==
  /\ pc # "exited"
  /\ Fault
  /\ Quit(1)
  /\ UNCHANGED <<runVars, index, clientVars, errors, log, retried>>

-----------------------------------------------------------------------------
(* The client's thread and the broker *)

\* The oldest event in the queue goes on the network.
Transmit ==
  /\ pc # "exited"
  /\ Len(inflight) < MaxInFlight
  /\ \E n \in queue :
       /\ \A m \in queue : n <= m
       /\ queue' = queue \ {n}
       /\ inflight' = Append(inflight, n)
  /\ UNCHANGED <<runVars, pc, rc, index, reports, errors, log, retried, faults>>

\* The broker takes the oldest request, appends it and is heard.
BrokerAppends ==
  /\ inflight # << >>
  /\ log' = Append(log, This(Head(inflight)))
  /\ inflight' = Tail(inflight)
  /\ UNCHANGED <<runVars, pc, rc, index, queue, reports, errors, retried, faults>>

\* The oldest request fails for now, appended (its answer is lost) or not:
\* the client queues it again. Later requests on the network are not recalled.
Retry ==
  /\ pc # "exited"
  /\ inflight # << >>
  /\ Fault
  /\ log' \in {log, Append(log, This(Head(inflight)))}
  /\ inflight' = Tail(inflight)
  /\ queue' = queue \cup {Head(inflight)}
  /\ retried' = retried \cup {<<run, Head(inflight)>>}
  /\ UNCHANGED <<runVars, pc, rc, index, reports, errors>>

\* The client gives an event up, in its queue or on the network.
DeliveryFails ==
  /\ pc # "exited"
  /\ Fault
  /\ \/ \E n \in queue : /\ queue' = queue \ {n}
                         /\ reports' = reports \cup {n}
                         /\ UNCHANGED <<inflight, log>>
     \/ /\ inflight # << >>
        /\ inflight' = Tail(inflight)
        /\ reports' = reports \cup {Head(inflight)}
        /\ log' \in {log, Append(log, This(Head(inflight)))}
        /\ UNCHANGED queue
  /\ UNCHANGED <<runVars, pc, rc, index, errors, retried>>

-----------------------------------------------------------------------------
Program ==
  \/ Publish \/ PublishRaises \/ PublishedAll
  \/ FlushReturns \/ FlushTimesOut \/ CloseReturns \/ CloseTimesOut

Client == Transmit \/ BrokerAppends \/ Retry \/ DeliveryFails

Next == StartRun \/ Program \/ Interrupt \/ Crash \/ Client

Spec == Init /\ [][Next]_vars

\* Only the program's own thread: flush gives up after its timeout.
FairSpec == Spec /\ WF_vars(Program)

-----------------------------------------------------------------------------
(* Properties *)

Delivered(n) == This(n) \in Range(log)

(***************************************************************************)
(* ExitZeroMeansDelivered: a program that exits with status 0 has every    *)
(* event of its run in transactions.raw ("Callers must not assume a        *)
(* publish succeeded until those methods return"): flush and close hide no *)
(* failed report and no event that was still on its way.                   *)
(***************************************************************************)
ExitZeroMeansDelivered ==
  pc = "exited" /\ rc = 0 /\ run > 0 => \A n \in 1 .. count : Delivered(n)

(***************************************************************************)
(* EveryEventAccountedFor: until a run ends, each event it has handed to   *)
(* the client is in the log, still with the client, or a failure that the  *)
(* program knows of or has told (rc).                                      *)
(***************************************************************************)
EveryEventAccountedFor ==
  \A n \in 1 .. index :
    \/ Delivered(n)
    \/ n \in queue \cup Range(inflight) \cup reports \cup errors
    \/ rc = 1

(***************************************************************************)
(* OnlyRetriesDisturb: an event that comes after a later one of its run,   *)
(* or a second time, is one the client has retried.                        *)
(***************************************************************************)
OnlyRetriesDisturb ==
  \A i, j \in DOMAIN log :
    i < j /\ log[i].run = log[j].run /\ log[i].seq >= log[j].seq
      => <<log[j].run, log[j].seq>> \in retried

(***************************************************************************)
(* RunEnds: a run ends even if the broker never answers.                   *)
(***************************************************************************)
RunEnds == pc # "exited" ~> pc = "exited"

(***************************************************************************)
(* PerAccountOrder: "downstream consumers can preserve per-account         *)
(* ordering" (kafka_producer.py): the first copies of an account's events  *)
(* are in the order of the run. Not so with a retry: the next events on    *)
(* the network overtake it.                                                *)
(***************************************************************************)
Account(e) == IF e.cli = "app" THEN AccountOf[e.seed][e.seq] ELSE e.cli

PerAccountOrder ==
  \A j \in DOMAIN log : \A i \in 1 .. j - 1 :
    /\ log[i].run = log[j].run
    /\ Account(log[i]) = Account(log[j])
    /\ log[i].seq > log[j].seq
    => \E k \in 1 .. i - 1 : log[k] = log[j]

=============================================================================
