--------------------------- MODULE ProducerProofs ---------------------------
(***************************************************************************)
(* TLAPS proofs about TransactionProducer, for all seeds, accounts and     *)
(* bounds: type correctness; EveryEventAccountedFor and what it is for,    *)
(* ExitZeroMeansDelivered; and OnlyRetriesDisturb.                         *)
(***************************************************************************)
EXTENDS TransactionProducer, FiniteSetTheorems, TLAPS

\* No event exists before the first run.
RunInv == run = 0 => index = 0 /\ pc = "exited"

LEMMA AppendRange ==
  ASSUME NEW S, NEW s \in Seq(S), NEW x \in S
  PROVE  Range(Append(s, x)) = Range(s) \cup {x}
<1>1. /\ Len(s) \in Nat /\ DOMAIN s = 1 .. Len(s)
      /\ DOMAIN Append(s, x) = 1 .. Len(s) + 1
      /\ \A k \in 1 .. Len(s) : Append(s, x)[k] = s[k]
      /\ Append(s, x)[Len(s) + 1] = x
  OBVIOUS
<1>2. QED
  BY <1>1 DEF Range

LEMMA HeadTailRange ==
  ASSUME NEW S, NEW s \in Seq(S), s # << >>
  PROVE  /\ Head(s) \in S /\ Tail(s) \in Seq(S)
         /\ Range(s) = {Head(s)} \cup Range(Tail(s))
<1>1. /\ Len(s) \in Nat \ {0} /\ DOMAIN s = 1 .. Len(s) /\ Head(s) = s[1]
      /\ Tail(s) \in Seq(S) /\ DOMAIN Tail(s) = 1 .. Len(s) - 1
      /\ \A k \in 1 .. Len(s) - 1 : Tail(s)[k] = s[k + 1]
  OBVIOUS
<1>2. Head(s) \in S
  BY <1>1
<1>3. ASSUME NEW x \in Range(s) PROVE x = Head(s) \/ x \in Range(Tail(s))
  <2>1. PICK k \in 1 .. Len(s) : s[k] = x
    BY <1>1 DEF Range
  <2>2. CASE k = 1
    BY <1>1, <2>1, <2>2
  <2>3. CASE k # 1
    <3>1. k - 1 \in 1 .. Len(s) - 1 /\ Tail(s)[k - 1] = x
      BY <1>1, <2>1, <2>3
    <3>2. QED
      BY <1>1, <3>1 DEF Range
  <2>4. QED
    BY <2>2, <2>3
<1>4. ASSUME NEW x \in Range(Tail(s)) PROVE x \in Range(s)
  BY <1>1 DEF Range
<1>5. Head(s) \in Range(s)
  BY <1>1 DEF Range
<1>6. QED
  BY <1>1, <1>2, <1>3, <1>4, <1>5

LEMMA SeqGrows ==
  ASSUME NEW S, NEW T, S \subseteq T, NEW s \in Seq(S)
  PROVE  s \in Seq(T)
OBVIOUS

LEMMA NothingRemains ==
  ASSUME TypeOK, Remaining = 0
  PROVE  queue = {} /\ inflight = << >>
<1>1. IsFiniteSet(queue)
  <2>1. index \in Int /\ queue \subseteq 1 .. index
    BY ProducerAssumption DEF TypeOK
  <2>2. IsFiniteSet(1 .. index)
    BY <2>1, FS_Interval
  <2>3. QED
    BY <2>1, <2>2, FS_Subset
<1>2. Cardinality(queue) \in Nat /\ (Cardinality(queue) = 0 <=> queue = {})
  BY <1>1, FS_CardinalityType, FS_EmptySet
<1>3. Len(inflight) \in Nat
  BY DEF TypeOK
<1>4. Cardinality(queue) = 0 /\ Len(inflight) = 0
  BY <1>2, <1>3 DEF Remaining
<1>5. inflight = << >>
  BY <1>4 DEF TypeOK
<1>6. QED
  BY <1>2, <1>4, <1>5

-----------------------------------------------------------------------------
(* Type correctness *)

LEMMA ThisType == TypeOK /\ run > 0 => \A n \in 1 .. index : This(n) \in Event
BY ProducerAssumption DEF TypeOK, This, Event

LEMMA InitType == Init => TypeOK
BY ProducerAssumption DEF Init, TypeOK, PC, Cli

\* A request on the network is for an event of the current run; taking it off
\* leaves such requests.
LEMMA TakeRequest ==
  ASSUME TypeOK, RunInv, inflight # << >>
  PROVE  /\ Head(inflight) \in 1 .. index
         /\ Tail(inflight) \in Seq(1 .. index)
         /\ Append(log, This(Head(inflight))) \in Seq(Event)
         /\ <<run, Head(inflight)>> \in (1 .. MaxRuns) \X (1 .. MaxCount)
<1>1. /\ Head(inflight) \in 1 .. index
      /\ Tail(inflight) \in Seq(1 .. index)
  BY HeadTailRange DEF TypeOK
<1>2. 1 .. index \subseteq 1 .. MaxCount /\ 1 .. index # {}
  BY <1>1, ProducerAssumption DEF TypeOK
<1>3. run \in 1 .. MaxRuns
  BY <1>1, ProducerAssumption DEF TypeOK, RunInv
<1>4. This(Head(inflight)) \in Event
  <2>1. run > 0
    BY <1>3, ProducerAssumption
  <2>2. \A n \in 1 .. index : This(n) \in Event
    BY <2>1, ThisType
  <2>3. QED
    BY <1>1, <2>2
<1>5. Append(log, This(Head(inflight))) \in Seq(Event)
  BY <1>4 DEF TypeOK
<1>6. QED
  BY <1>1, <1>2, <1>3, <1>5

LEMMA NextType == TypeOK /\ RunInv /\ [Next]_vars => TypeOK'
<1> SUFFICES ASSUME TypeOK, RunInv, [Next]_vars PROVE TypeOK'
  OBVIOUS
<1> USE ProducerAssumption DEF TypeOK, runVars, clientVars, PC, Fault, Quit,
        ServeReports, Cli
<1>1. CASE StartRun
  <2>1. /\ run' \in 0 .. MaxRuns /\ cli' \in Cli /\ seed' \in Seeds
        /\ pc' \in PC /\ rc' \in {0, 1} /\ index' = 0
    BY <1>1 DEF StartRun
  <2>2. count' \in 0 .. MaxCount
    BY <1>1 DEF StartRun, Counts
  <2>3. index' \in 0 .. count'
    BY <2>1, <2>2
  <2>4. /\ queue' = {} /\ inflight' = << >> /\ reports' = {} /\ errors' = {}
        /\ log' = log /\ retried' = retried /\ faults' = faults
    BY <1>1 DEF StartRun
  <2>5. QED
    BY <2>1, <2>2, <2>3, <2>4
<1>2. CASE Publish
  <2>1. /\ index' = index + 1 /\ index' \in 0 .. count /\ index \in Nat
        /\ 1 .. index \subseteq 1 .. index'
    BY <1>2 DEF Publish
  <2>2. inflight' \in Seq(1 .. index')
    BY <1>2, <2>1 DEF Publish
  <2>3. /\ queue' \subseteq 1 .. index' /\ reports' \subseteq 1 .. index'
        /\ errors' \subseteq 1 .. index'
    BY <1>2, <2>1 DEF Publish
  <2>4. /\ rc' \in {0, 1} /\ pc' \in PC
        /\ UNCHANGED <<run, cli, seed, count, log, retried, faults>>
    BY <1>2 DEF Publish
  <2>5. QED
    BY <2>1, <2>2, <2>3, <2>4
<1>3. CASE PublishRaises
  <2>1. /\ index' = index + 1 /\ index' \in 0 .. count /\ index \in Nat
        /\ 1 .. index \subseteq 1 .. index'
    BY <1>3 DEF PublishRaises
  <2>2. inflight' \in Seq(1 .. index')
    BY <1>3, <2>1 DEF PublishRaises
  <2>3. /\ queue' \subseteq 1 .. index' /\ reports' \subseteq 1 .. index'
        /\ errors' \subseteq 1 .. index'
    BY <1>3, <2>1 DEF PublishRaises
  <2>4. /\ rc' \in {0, 1} /\ pc' \in PC
        /\ UNCHANGED <<run, cli, seed, count, log, retried, faults>>
    BY <1>3 DEF PublishRaises
  <2>5. QED
    BY <2>1, <2>2, <2>3, <2>4
<1>4. CASE PublishedAll
  BY <1>4 DEF PublishedAll
<1>5. CASE FlushReturns
  BY <1>5 DEF FlushReturns
<1>6. CASE FlushTimesOut
  BY <1>6 DEF FlushTimesOut
<1>7. CASE CloseReturns
  BY <1>7 DEF CloseReturns
<1>8. CASE CloseTimesOut
  BY <1>8 DEF CloseTimesOut
<1>9. CASE Interrupt
  BY <1>9 DEF Interrupt
<1>10. CASE Crash
  BY <1>10 DEF Crash
<1>11. CASE Transmit
  BY <1>11 DEF Transmit
<1>12. CASE BrokerAppends
  BY <1>12, TakeRequest DEF BrokerAppends
<1>13. CASE Retry
  <2>1. /\ inflight' \in Seq(1 .. index) /\ log' \in Seq(Event)
        /\ queue' \subseteq 1 .. index
    BY <1>13, TakeRequest DEF Retry
  <2>2. retried' \subseteq (1 .. MaxRuns) \X (1 .. MaxCount)
    BY <1>13, TakeRequest DEF Retry
  <2>3. QED
    BY <1>13, <2>1, <2>2 DEF Retry
<1>14. CASE DeliveryFails
  <2>1. /\ inflight' \in Seq(1 .. index) /\ log' \in Seq(Event)
        /\ queue' \subseteq 1 .. index /\ reports' \subseteq 1 .. index
    BY <1>14, TakeRequest DEF DeliveryFails
  <2>2. QED
    BY <1>14, <2>1 DEF DeliveryFails
<1>15. CASE UNCHANGED vars
  BY <1>15 DEF vars
<1>16. QED
  BY <1>1, <1>2, <1>3, <1>4, <1>5, <1>6, <1>7, <1>8, <1>9, <1>10, <1>11, <1>12, <1>13, <1>14, <1>15 DEF Next, Program, Client

-----------------------------------------------------------------------------
(* What an exit status means *)

\* A status of 0 at the end stands for a loop that is over and a client that
\* has nothing left and has reported no failure.
StatusInv ==
  /\ RunInv
  /\ pc \in {"publishing", "flushing"} => rc = 0
  /\ pc \in {"flushing", "closing", "exited"} /\ rc = 0 /\ run > 0 => index = count
  /\ pc = "exited" /\ rc = 0 =>
       queue = {} /\ inflight = << >> /\ reports = {} /\ errors = {}

LEMMA InitStatus == Init => StatusInv
BY DEF Init, StatusInv, RunInv

LEMMA NextStatus == TypeOK /\ StatusInv /\ [Next]_vars => StatusInv'
<1> SUFFICES ASSUME TypeOK, StatusInv, [Next]_vars PROVE StatusInv'
  OBVIOUS
<1>0. run \in Nat /\ MaxRuns \in Nat
  BY ProducerAssumption DEF TypeOK
<1> USE <1>0 DEF StatusInv, RunInv, runVars, clientVars, Quit, ServeReports
<1>1. CASE StartRun
  BY <1>1 DEF StartRun
<1>2. CASE Publish
  BY <1>2 DEF Publish
<1>3. CASE PublishRaises
  BY <1>3 DEF PublishRaises
<1>4. CASE PublishedAll
  BY <1>4 DEF PublishedAll
<1>5. CASE FlushReturns
  BY <1>5, NothingRemains DEF FlushReturns
<1>6. CASE FlushTimesOut
  BY <1>6 DEF FlushTimesOut
<1>7. CASE CloseReturns
  BY <1>7, NothingRemains DEF CloseReturns
<1>8. CASE CloseTimesOut
  BY <1>8 DEF CloseTimesOut
<1>9. CASE Interrupt
  BY <1>9 DEF Interrupt
<1>10. CASE Crash
  BY <1>10 DEF Crash
<1>11. CASE Transmit
  BY <1>11 DEF Transmit
<1>12. CASE BrokerAppends
  BY <1>12 DEF BrokerAppends
<1>13. CASE Retry
  BY <1>13 DEF Retry
<1>14. CASE DeliveryFails
  BY <1>14 DEF DeliveryFails
<1>15. CASE UNCHANGED vars
  BY <1>15 DEF vars
<1>16. QED
  BY <1>1, <1>2, <1>3, <1>4, <1>5, <1>6, <1>7, <1>8, <1>9, <1>10, <1>11,
     <1>12, <1>13, <1>14, <1>15 DEF Next, Program, Client

\* The log keeps what it has; what leaves the network arrives or is kept.
LEMMA RequestTaken ==
  ASSUME TypeOK, RunInv, inflight # << >>
  PROVE  /\ Range(inflight) = {Head(inflight)} \cup Range(Tail(inflight))
         /\ Range(Append(log, This(Head(inflight)))) =
              Range(log) \cup {This(Head(inflight))}
<1>1. Range(inflight) = {Head(inflight)} \cup Range(Tail(inflight))
  BY HeadTailRange DEF TypeOK
<1>2. Head(inflight) \in 1 .. index /\ run > 0
  BY HeadTailRange, ProducerAssumption DEF TypeOK, RunInv
<1>3. This(Head(inflight)) \in Event /\ log \in Seq(Event)
  BY <1>2, ThisType DEF TypeOK
<1>4. QED
  BY <1>1, <1>3, AppendRange

LEMMA NextAccounts ==
  TypeOK /\ StatusInv /\ EveryEventAccountedFor /\ [Next]_vars
    => EveryEventAccountedFor'
<1> SUFFICES ASSUME TypeOK, StatusInv, EveryEventAccountedFor, [Next]_vars,
                    NEW n \in 1 .. index'
             PROVE  \/ Delivered(n)'
                    \/ (n \in queue \cup Range(inflight) \cup reports \cup errors)'
                    \/ rc' = 1
  BY DEF EveryEventAccountedFor
<1>0. index \in Nat /\ RunInv
  BY ProducerAssumption DEF TypeOK, StatusInv
<1>e. n \in 1 .. index => \/ This(n) \in Range(log)
                          \/ n \in queue \cup Range(inflight) \cup reports \cup errors
                          \/ rc = 1
  BY DEF EveryEventAccountedFor, Delivered
<1> USE <1>0, <1>e DEF Delivered, This, runVars, clientVars, Quit, ServeReports
<1>1. CASE StartRun
  BY <1>1 DEF StartRun
<1>2. CASE Publish
  BY <1>2 DEF Publish
<1>3. CASE PublishRaises
  BY <1>3 DEF PublishRaises
<1>4. CASE PublishedAll
  BY <1>4 DEF PublishedAll
<1>5. CASE FlushReturns
  <2>1. queue = {} /\ Range(inflight) = {}
    BY <1>5, NothingRemains DEF FlushReturns, Range
  <2>2. rc = 0
    BY <1>5 DEF FlushReturns, StatusInv
  <2>3. QED
    BY <1>5, <2>1, <2>2 DEF FlushReturns
<1>6. CASE FlushTimesOut
  BY <1>6 DEF FlushTimesOut
<1>7. CASE CloseReturns
  <2>1. queue = {} /\ Range(inflight) = {}
    BY <1>7, NothingRemains DEF CloseReturns, Range
  <2>2. QED
    BY <1>7, <2>1 DEF CloseReturns
<1>8. CASE CloseTimesOut
  BY <1>8 DEF CloseTimesOut
<1>9. CASE Interrupt
  BY <1>9 DEF Interrupt
<1>10. CASE Crash
  BY <1>10 DEF Crash
<1>11. CASE Transmit
  <2>1. PICK m \in queue : /\ queue' = queue \ {m}
                          /\ inflight' = Append(inflight, m)
    BY <1>11 DEF Transmit
  <2>2. Range(inflight') = Range(inflight) \cup {m}
    <3>1. m \in 1 .. index /\ inflight \in Seq(1 .. index)
      BY DEF TypeOK
    <3>2. QED
      BY <2>1, <3>1, AppendRange
  <2>3. QED
    BY <1>11, <2>1, <2>2 DEF Transmit
<1>12. CASE BrokerAppends
  BY <1>12, RequestTaken DEF BrokerAppends
<1>13. CASE Retry
  BY <1>13, RequestTaken DEF Retry
<1>14. CASE DeliveryFails
  BY <1>14, RequestTaken DEF DeliveryFails
<1>15. CASE UNCHANGED vars
  BY <1>15 DEF vars
<1>16. QED
  BY <1>1, <1>2, <1>3, <1>4, <1>5, <1>6, <1>7, <1>8, <1>9, <1>10, <1>11,
     <1>12, <1>13, <1>14, <1>15 DEF Next, Program, Client

LEMMA AllInvariants ==
  Spec => [](TypeOK /\ StatusInv /\ EveryEventAccountedFor)
<1>1. Init => EveryEventAccountedFor
  BY DEF Init, EveryEventAccountedFor
<1>2. TypeOK /\ StatusInv => RunInv
  BY DEF StatusInv
<1>3. QED
  BY <1>1, <1>2, InitType, NextType, InitStatus, NextStatus, NextAccounts, PTL
     DEF Spec

\* ProducerTypeCorrect: the programs, the client and the log stay in their
\* types; in particular the client only ever holds events of the current run.
THEOREM ProducerTypeCorrect == Spec => []TypeOK
BY AllInvariants, PTL

\* NothingUnaccounted: no event handed to the client disappears without the
\* program knowing (_on_delivery, flush and close together).
THEOREM NothingUnaccounted == Spec => []EveryEventAccountedFor
BY AllInvariants, PTL

\* ZeroMeansDelivered: exit status 0 is only given when every event of the run
\* is in transactions.raw.
THEOREM ZeroMeansDelivered == Spec => []ExitZeroMeansDelivered
<1>1. TypeOK /\ StatusInv /\ EveryEventAccountedFor => ExitZeroMeansDelivered
  <2> SUFFICES ASSUME TypeOK, StatusInv, EveryEventAccountedFor,
                      pc = "exited", rc = 0, run > 0,
                      NEW n \in 1 .. count
               PROVE  Delivered(n)
    BY DEF ExitZeroMeansDelivered
  <2>1. n \in 1 .. index
    BY DEF StatusInv
  <2>2. queue = {} /\ Range(inflight) = {} /\ reports = {} /\ errors = {}
    BY DEF StatusInv, Range
  <2>3. QED
    BY <2>1, <2>2 DEF EveryEventAccountedFor
<1>2. QED
  BY <1>1, AllInvariants, PTL

-----------------------------------------------------------------------------
(* What retries disturb *)

\* Sent once so far: such an event of the current run is still ahead of every
\* later one, in the log, on the network and in the queue.
Fresh(n) == <<run, n>> \notin retried

InLog(n) == \E i \in DOMAIN log : log[i].run = run /\ log[i].seq = n

AheadInv ==
  /\ \A i \in DOMAIN log : log[i].run <= run
  /\ \A n \in Nat : InLog(n) => n <= index
  /\ \A n \in queue \cup Range(inflight) :
       Fresh(n) => \A m \in Nat : InLog(m) => m < n
  /\ \A i, j \in DOMAIN inflight :
       i < j /\ inflight[i] >= inflight[j] => ~Fresh(inflight[j])
  /\ \A n \in queue : Fresh(n) => \A m \in Range(inflight) : m < n

\* What leaves the head of the network was ahead of every other fresh event.
LEMMA HeadFirst ==
  ASSUME TypeOK, AheadInv, inflight # << >>,
         NEW n \in queue \cup Range(Tail(inflight)), Fresh(n)
  PROVE  Head(inflight) < n
<1>1. CASE n \in queue
  <2>1. Head(inflight) \in Range(inflight)
    BY HeadTailRange DEF TypeOK
  <2>2. QED
    BY <1>1, <2>1 DEF AheadInv
<1>2. CASE n \in Range(Tail(inflight))
  <2>1. /\ Len(inflight) \in Nat /\ DOMAIN inflight = 1 .. Len(inflight)
        /\ Head(inflight) = inflight[1] /\ DOMAIN Tail(inflight) = 1 .. Len(inflight) - 1
        /\ \A k \in 1 .. Len(inflight) - 1 : Tail(inflight)[k] = inflight[k + 1]
    BY DEF TypeOK
  <2>2. PICK k \in 1 .. Len(inflight) - 1 : inflight[k + 1] = n
    BY <1>2, <2>1 DEF Range
  <2>3. 1 \in DOMAIN inflight /\ k + 1 \in DOMAIN inflight /\ 1 < k + 1
    BY <2>1, <2>2
  <2>4. inflight[1] \in Nat /\ inflight[k + 1] \in Nat
    BY <2>3, ProducerAssumption DEF TypeOK
  <2>5. ~ (inflight[1] >= inflight[k + 1])
    BY <2>2, <2>3 DEF AheadInv
  <2>6. QED
    BY <2>1, <2>2, <2>4, <2>5
<1>3. QED
  BY <1>1, <1>2

\* The log after the head of the network is appended.
LEMMA LogAfterHead ==
  ASSUME TypeOK, RunInv, inflight # << >>,
         NEW l, l = Append(log, This(Head(inflight)))
  PROVE  /\ DOMAIN l = 1 .. Len(log) + 1 /\ DOMAIN log = 1 .. Len(log) /\ Len(log) \in Nat
         /\ \A i \in DOMAIN log : l[i] = log[i]
         /\ l[Len(log) + 1].run = run /\ l[Len(log) + 1].seq = Head(inflight)
         /\ \A n : (\E i \in DOMAIN l : l[i].run = run /\ l[i].seq = n)
                     <=> InLog(n) \/ n = Head(inflight)
<1>1. This(Head(inflight)) \in Event /\ log \in Seq(Event)
  <2>1. Head(inflight) \in 1 .. index
    BY TakeRequest
  <2>2. run > 0
    BY <2>1, ProducerAssumption DEF TypeOK, RunInv
  <2>3. QED
    BY <2>1, <2>2, ThisType DEF TypeOK
<1>2. /\ DOMAIN l = 1 .. Len(log) + 1 /\ DOMAIN log = 1 .. Len(log) /\ Len(log) \in Nat
      /\ \A i \in DOMAIN log : l[i] = log[i]
      /\ l[Len(log) + 1] = This(Head(inflight))
  BY <1>1
<1>3. l[Len(log) + 1].run = run /\ l[Len(log) + 1].seq = Head(inflight)
  BY <1>2 DEF This
<1>4. QED
  BY <1>2, <1>3 DEF InLog

LEMMA TailOrdered ==
  ASSUME TypeOK, inflight # << >>, NEW i \in DOMAIN Tail(inflight)
  PROVE  /\ i \in Nat /\ i + 1 \in DOMAIN inflight
         /\ Tail(inflight)[i] = inflight[i + 1]
BY DEF TypeOK

LEMMA NextAhead ==
  TypeOK /\ RunInv /\ AheadInv /\ OnlyRetriesDisturb /\ [Next]_vars
    => AheadInv' /\ OnlyRetriesDisturb'
<1> SUFFICES ASSUME TypeOK, RunInv, AheadInv, OnlyRetriesDisturb, [Next]_vars
             PROVE  AheadInv' /\ OnlyRetriesDisturb'
  OBVIOUS
<1>0. /\ index \in Nat /\ run \in Nat
      /\ \A i \in DOMAIN log : log[i].run \in Nat /\ log[i].seq \in Nat
      /\ queue \subseteq Nat /\ Range(inflight) \subseteq 1 .. index
      /\ queue \subseteq 1 .. index
  <2>1. index \in Nat /\ run \in Nat /\ queue \subseteq 1 .. index
    BY ProducerAssumption DEF TypeOK
  <2>2. \A i \in DOMAIN log : log[i].run \in Nat /\ log[i].seq \in Nat
    <3>1. \A i \in DOMAIN log : log[i] \in Event
      BY DEF TypeOK
    <3>2. QED
      BY <3>1 DEF Event
  <2>3. Range(inflight) \subseteq 1 .. index
    BY DEF TypeOK, Range
  <2>4. QED
    BY <2>1, <2>2, <2>3
\* The program's steps leave the client and the log as they are, or add the
\* newest event to the queue.
<1>1. CASE UNCHANGED <<run, index, queue, inflight, log, retried>>
  BY <1>1 DEF AheadInv, OnlyRetriesDisturb, InLog, Fresh
<1>2. CASE StartRun
  <2>1. /\ queue' = {} /\ inflight' = << >> /\ run' = run + 1 /\ log' = log
        /\ retried' = retried
    BY <1>2 DEF StartRun
  <2>2. \A i \in DOMAIN log' : log'[i].run <= run /\ log'[i].run # run'
    BY <1>0, <2>1 DEF AheadInv
  <2>3. \A n : ~InLog(n)'
    BY <2>2 DEF InLog
  <2>4. queue' \cup Range(inflight') = {} /\ DOMAIN inflight' = {}
    BY <2>1 DEF Range
  <2>5. AheadInv'
    BY <1>0, <2>1, <2>2, <2>3, <2>4 DEF AheadInv
  <2>6. QED
    BY <2>1, <2>5 DEF OnlyRetriesDisturb
<1>3. CASE Publish
  <2>1. /\ queue' = queue \cup {index + 1} /\ index' = index + 1
        /\ UNCHANGED <<run, inflight, log, retried>>
    BY <1>3 DEF Publish, runVars
  <2>2. \A n : InLog(n)' <=> InLog(n)
    BY <2>1 DEF InLog
  <2>3. \A n : Fresh(n)' <=> Fresh(n)
    BY <2>1 DEF Fresh
  <2>4. QED
    BY <1>0, <2>1, <2>2, <2>3 DEF AheadInv, OnlyRetriesDisturb
<1>4. CASE PublishRaises
  <2>1. /\ index' = index + 1
        /\ UNCHANGED <<run, queue, inflight, log, retried>>
    BY <1>4 DEF PublishRaises, runVars, clientVars
  <2>2. \A n : InLog(n)' <=> InLog(n)
    BY <2>1 DEF InLog
  <2>3. \A n : Fresh(n)' <=> Fresh(n)
    BY <2>1 DEF Fresh
  <2>4. QED
    BY <1>0, <2>1, <2>2, <2>3 DEF AheadInv, OnlyRetriesDisturb
<1>5. CASE Transmit
  <2>1. PICK n \in queue : /\ \A m \in queue : n <= m
                           /\ queue' = queue \ {n}
                           /\ inflight' = Append(inflight, n)
    BY <1>5 DEF Transmit
  <2>2. UNCHANGED <<run, index, log, retried>>
    BY <1>5 DEF Transmit, runVars
  <2>3. /\ Range(inflight') = Range(inflight) \cup {n}
        /\ Len(inflight) \in Nat /\ DOMAIN inflight = 1 .. Len(inflight)
        /\ DOMAIN inflight' = 1 .. Len(inflight) + 1
        /\ \A i \in DOMAIN inflight : inflight'[i] = inflight[i]
        /\ inflight'[Len(inflight) + 1] = n
    <3>1. inflight \in Seq(1 .. index) /\ n \in 1 .. index
      BY DEF TypeOK
    <3>2. Range(inflight') = Range(inflight) \cup {n}
      <4>1. Range(Append(inflight, n)) = Range(inflight) \cup {n}
        <5> DEFINE S == 1 .. index
        <5>1. inflight \in Seq(S) /\ n \in S
          BY <3>1
        <5>2. QED
          <6> HIDE DEF S
          <6> QED BY <5>1, AppendRange
      <4>2. inflight' = Append(inflight, n)
        BY <2>1
      <4>3. QED
        BY <4>1, <4>2
    <3>3. QED
      BY <2>1, <3>1, <3>2
  <2>4. \A m : (InLog(m)' <=> InLog(m)) /\ (Fresh(m)' <=> Fresh(m))
    BY <2>2 DEF InLog, Fresh
  <2>5. ASSUME NEW i \in DOMAIN inflight', NEW j \in DOMAIN inflight',
               i < j, inflight'[i] >= inflight'[j]
        PROVE  ~Fresh(inflight'[j])
    <3>1. i \in DOMAIN inflight /\ inflight'[i] = inflight[i]
      BY <2>3, <2>5
    <3>2. CASE j \in DOMAIN inflight
      BY <2>3, <2>5, <3>1, <3>2 DEF AheadInv
    <3>3. CASE j = Len(inflight) + 1
      <4>1. inflight[i] \in Range(inflight) /\ inflight[i] >= n
        BY <2>3, <2>5, <3>1, <3>3 DEF Range
      <4>2. inflight[i] \in Nat /\ n \in Nat
        BY <1>0, <4>1
      <4>3. ~Fresh(n)
        BY <4>1, <4>2 DEF AheadInv
      <4>4. QED
        BY <2>3, <3>3, <4>3
    <3>4. QED
      BY <2>3, <3>2, <3>3
  <2>6. ASSUME NEW p \in queue', Fresh(p), NEW m \in Range(inflight')
        PROVE  m < p
    <3>1. CASE m \in Range(inflight)
      BY <2>1, <2>6, <3>1 DEF AheadInv
    <3>2. CASE m = n
      BY <1>0, <2>1, <2>6, <3>2
    <3>3. QED
      BY <2>3, <3>1, <3>2
  <2>7. /\ \A i \in DOMAIN log' : log'[i].run <= run'
        /\ \A m \in Nat : InLog(m)' => m <= index'
    BY <2>2, <2>4 DEF AheadInv
  <2>8. \A p \in queue' \cup Range(inflight') :
          Fresh(p)' => \A m \in Nat : InLog(m)' => m < p
    <3>1. queue' \cup Range(inflight') \subseteq queue \cup Range(inflight)
      BY <2>1, <2>3
    <3>2. QED
      BY <2>4, <3>1 DEF AheadInv
  <2>9. QED
    BY <2>2, <2>4, <2>5, <2>6, <2>7, <2>8 DEF AheadInv, OnlyRetriesDisturb
\* The other client steps take the head of the network, or an event of the
\* queue, and may append the head to the log or return it to the queue.
<1>6. ASSUME inflight # << >>, inflight' = Tail(inflight),
             UNCHANGED <<run, index>>,
             \/ log' = log
             \/ log' = Append(log, This(Head(inflight))),
             \/ queue' = queue /\ retried' = retried
             \/ /\ queue' = queue \cup {Head(inflight)}
                /\ retried' = retried \cup {<<run, Head(inflight)>>}
      PROVE  AheadInv' /\ OnlyRetriesDisturb'
  <2> DEFINE h == Head(inflight)
  <2>1. /\ h \in 1 .. index /\ h \in Nat
        /\ Range(inflight) = {h} \cup Range(Tail(inflight))
    BY <1>0, <1>6, HeadTailRange DEF TypeOK
  <2>2. ASSUME NEW n, Fresh(n)' PROVE Fresh(n) /\ (n \in queue' => n \in queue)
    BY <1>6, <2>2 DEF Fresh
  <2>3. ASSUME NEW n, InLog(n)' PROVE InLog(n) \/ n = h
    <3>1. CASE log' = log
      BY <1>6, <2>3, <3>1 DEF InLog
    <3>2. CASE log' = Append(log, This(h))
      <4>1. \E i \in DOMAIN log' : log'[i].run = run /\ log'[i].seq = n
        BY <1>6, <2>3 DEF InLog
      <4>2. QED
        BY <1>6, <3>2, <4>1, LogAfterHead
    <3>3. QED
      BY <1>6, <3>1, <3>2
  <2>4. \A i \in DOMAIN log' : log'[i].run <= run'
    <3>1. CASE log' = log
      BY <1>6, <3>1 DEF AheadInv
    <3>2. CASE log' = Append(log, This(h))
      <4>1. /\ DOMAIN log' = 1 .. Len(log) + 1 /\ DOMAIN log = 1 .. Len(log)
            /\ Len(log) \in Nat /\ \A i \in DOMAIN log : log'[i] = log[i]
            /\ log'[Len(log) + 1].run = run
        BY <1>6, <3>2, LogAfterHead
      <4>2. QED
        BY <1>0, <1>6, <4>1 DEF AheadInv
    <3>3. QED
      BY <1>6, <3>1, <3>2
  <2>5. \A n \in Nat : InLog(n)' => n <= index'
    BY <1>6, <2>1, <2>3 DEF AheadInv
  <2>6. ASSUME NEW n \in queue' \cup Range(inflight'), Fresh(n)',
               NEW m \in Nat, InLog(m)'
        PROVE  m < n
    <3>1. Fresh(n) /\ n \in queue \cup Range(Tail(inflight))
      BY <1>6, <2>2, <2>6
    <3>2. h < n
      BY <1>6, <3>1, HeadFirst
    <3>3. InLog(m) => m < n
      BY <2>1, <3>1 DEF AheadInv
    <3>4. QED
      BY <2>3, <2>6, <3>2, <3>3
  <2>7. ASSUME NEW i \in DOMAIN inflight', NEW j \in DOMAIN inflight',
               i < j, inflight'[i] >= inflight'[j]
        PROVE  (~Fresh(inflight[j]))'
    <3>1. /\ i + 1 \in DOMAIN inflight /\ inflight'[i] = inflight[i + 1]
          /\ j + 1 \in DOMAIN inflight /\ inflight'[j] = inflight[j + 1]
          /\ i + 1 < j + 1
      BY <1>6, <2>7, TailOrdered
    <3>2. ~Fresh(inflight[j + 1])
      BY <2>7, <3>1 DEF AheadInv
    <3>3. retried \subseteq retried' /\ run' = run
      BY <1>6
    <3>4. QED
      BY <3>1, <3>2, <3>3 DEF Fresh
  <2>8. ASSUME NEW n \in queue', Fresh(n)', NEW m \in Range(inflight')
        PROVE  m < n
    <3>1. n \in queue /\ Fresh(n) /\ m \in Range(inflight)
      BY <1>6, <2>1, <2>2, <2>8
    <3>2. QED
      BY <3>1 DEF AheadInv
  <2>9. AheadInv'
    BY <2>4, <2>5, <2>6, <2>7, <2>8 DEF AheadInv
  <2>10. ASSUME NEW i \in DOMAIN log', NEW j \in DOMAIN log', i < j,
                log'[i].run = log'[j].run, log'[i].seq >= log'[j].seq
         PROVE  <<log'[j].run, log'[j].seq>> \in retried'
    <3>0. retried \subseteq retried'
      BY <1>6
    <3>1. CASE log' = log
      BY <2>10, <3>0, <3>1 DEF OnlyRetriesDisturb
    <3>2. CASE log' = Append(log, This(h))
      <4>1. /\ DOMAIN log' = 1 .. Len(log) + 1 /\ DOMAIN log = 1 .. Len(log)
            /\ Len(log) \in Nat /\ \A k \in DOMAIN log : log'[k] = log[k]
            /\ log'[Len(log) + 1].run = run /\ log'[Len(log) + 1].seq = h
        BY <1>6, <3>2, LogAfterHead
      <4>2. i \in DOMAIN log /\ log'[i] = log[i]
        BY <2>10, <4>1
      <4>3. CASE j \in DOMAIN log
        BY <2>10, <3>0, <4>1, <4>2, <4>3 DEF OnlyRetriesDisturb
      <4>4. CASE j = Len(log) + 1
        <5>1. InLog(log[i].seq) /\ log[i].seq \in Nat /\ log[i].seq >= h
          BY <1>0, <2>10, <4>1, <4>2, <4>4 DEF InLog
        <5>2. ~Fresh(h)
          BY <2>1, <5>1 DEF AheadInv
        <5>3. QED
          BY <3>0, <4>1, <4>4, <5>2 DEF Fresh
      <4>5. QED
        BY <2>10, <4>1, <4>3, <4>4
    <3>3. QED
      BY <1>6, <3>1, <3>2
  <2>11. QED
    BY <2>9, <2>10 DEF OnlyRetriesDisturb
<1>7. CASE BrokerAppends
  BY <1>6, <1>7 DEF BrokerAppends, runVars
<1>8. CASE Retry
  BY <1>6, <1>8 DEF Retry, runVars
<1>9. CASE DeliveryFails
  <2>1. CASE \E n \in queue : queue' = queue \ {n} /\ UNCHANGED <<inflight, log>>
    <3>1. queue' \subseteq queue /\ UNCHANGED <<run, index, inflight, log, retried>>
      BY <1>9, <2>1 DEF DeliveryFails, runVars
    <3>2. \A m : (InLog(m)' <=> InLog(m)) /\ (Fresh(m)' <=> Fresh(m))
      BY <3>1 DEF InLog, Fresh
    <3>3. QED
      BY <3>1, <3>2 DEF AheadInv, OnlyRetriesDisturb
  <2>2. CASE /\ inflight # << >> /\ inflight' = Tail(inflight) /\ queue' = queue
             /\ log' \in {log, Append(log, This(Head(inflight)))}
    BY <1>6, <1>9, <2>2 DEF DeliveryFails, runVars
  <2>3. QED
    BY <1>9, <2>1, <2>2 DEF DeliveryFails
<1>10. QED
  <2>1. CASE UNCHANGED vars
    BY <1>1, <2>1 DEF vars
  <2>2. CASE PublishedAll \/ FlushReturns \/ FlushTimesOut \/ CloseReturns
             \/ CloseTimesOut \/ Interrupt \/ Crash
    BY <1>1, <2>2 DEF PublishedAll, FlushReturns, FlushTimesOut, CloseReturns,
       CloseTimesOut, Interrupt, Crash, runVars, clientVars
  <2>3. QED
    BY <1>2, <1>3, <1>4, <1>5, <1>7, <1>8, <1>9, <2>1, <2>2
       DEF Next, Program, Client

\* RetriesAloneDisturb: whatever the queue limit, the requests in flight and
\* the faults, an event out of the order of its run, or repeated, in
\* transactions.raw was sent more than once by the client (acks=all, no
\* idempotence).
THEOREM RetriesAloneDisturb == Spec => []OnlyRetriesDisturb
<1>1. Init => AheadInv /\ OnlyRetriesDisturb
  BY DEF Init, AheadInv, OnlyRetriesDisturb, InLog, Range
<1>2. StatusInv => RunInv
  BY DEF StatusInv
<1>3. QED
  BY <1>1, <1>2, NextAhead, AllInvariants, PTL DEF Spec

=============================================================================
