-------------------------------- MODULE Lake --------------------------------
(***************************************************************************)
(* The streaming job (streaming/main.py): one process that runs a query    *)
(* for the Silver table and one for the Gold table over                    *)
(* transactions.validated, each with a checkpoint of its own.              *)
(*                                                                         *)
(* What a batch computes is the code's (features.py, sinks.py); how a      *)
(* query runs is Spark's (external). Batch n is entered in the offset log  *)
(* with the watermark it uses, then run, which makes version n of the      *)
(* state and the data files, then entered in the table's log of batches,   *)
(* then in the commit log with the watermark its events justify. A query   *)
(* that starts reruns a batch that is in the offset log and not in the     *)
(* commit log; the table ignores a batch that it has already.              *)
(***************************************************************************)
EXTENDS EventTime

CONSTANTS
  Queries,    \* the queries of the job, a subset of {"silver", "gold"}
  MaxInput,   \* bound: records in transactions.validated
  MaxFaults   \* bound: failures and stops

ASSUME LakeAssumption ==
  Queries \subseteq {"silver", "gold"} /\ {MaxInput, MaxFaults} \subseteq Nat

VARIABLES
  input,      \* transactions.validated
  job,        \* the process
  pc,         \* per query: where it is with its batch
  offsets,    \* per query: the offset log
  versions,   \* per query: each batch's version of the state, and data files
  table,      \* per query: the table's log, the rows of each batch
  commits,    \* per query: the commit log
  nextWm,     \* per query, in memory: the watermark of the next batch
  faults      \* faults so far

vars == <<input, job, pc, offsets, versions, table, commits, nextWm, faults>>

\* "starting": main has not reached awaitAnyTermination; "stopping": it is in
\* the finally of main.
Job == {"down", "starting", "up", "stopping"}

\* "started" and "ready" wait for a batch to plan, "started" without having
\* run one; "ended" has failed or was stopped.
PC == {"down", "started", "ready", "planned", "run", "written", "ended"}

TypeOK ==
  /\ input \in Seq(Records) /\ Len(input) <= MaxInput
  /\ job \in Job
  /\ pc \in [Queries -> PC]
  /\ \A q \in Queries :
       /\ \A n \in DOMAIN offsets[q] :
            offsets[q][n].end \in 0 .. Len(input) /\ offsets[q][n].wm \in Watermarks
       /\ \A n \in DOMAIN versions[q] :
            /\ versions[q][n].seen \subseteq 1 .. offsets[q][n].end
            /\ \A c \in versions[q][n].counted : c \in Count /\ c.row \in versions[q][n].seen
       /\ \A n \in DOMAIN commits[q] : commits[q][n] \in Watermarks
       /\ nextWm[q] \in Watermarks
       /\ Len(commits[q]) <= Len(table[q]) /\ Len(table[q]) <= Len(versions[q])
       /\ Len(versions[q]) <= Len(offsets[q])
       /\ Len(offsets[q]) <= Len(commits[q]) + 1
  /\ faults \in 0 .. MaxFaults

Init ==
  /\ input = << >>
  /\ job = "down"
  /\ pc = [q \in Queries |-> "down"]
  /\ offsets = [q \in Queries |-> << >>]
  /\ versions = [q \in Queries |-> << >>]
  /\ table = [q \in Queries |-> << >>]
  /\ commits = [q \in Queries |-> << >>]
  /\ nextWm = [q \in Queries |-> 0]
  /\ faults = 0

-----------------------------------------------------------------------------
(* Reading the checkpoint; batches are numbered from 1 *)

Fault == faults < MaxFaults /\ faults' = faults + 1

Goto(q, from, to) == pc[q] \in from /\ pc' = [pc EXCEPT ![q] = to]

Last(q) == Len(offsets[q])
EndOf(q, n) == IF n = 0 THEN 0 ELSE offsets[q][n].end
WmOf(q, n) == IF n = 0 THEN 0 ELSE offsets[q][n].wm
StateOf(q, n) == IF n = 0 THEN [seen |-> {}, counted |-> {}] ELSE versions[q][n]
CommittedWm(q, n) == IF n = 0 THEN 0 ELSE commits[q][n]

RowsOf(q, n) == EndOf(q, n - 1) + 1 .. EndOf(q, n)

\* Batch n run on a version of the state: prepare_events, late by the watermark
\* of the batch before; for Gold account_window_features in append mode, a
\* window being written and forgotten once the batch's watermark has passed it.
BatchOn(q, n, base) ==
  LET new    == Accepted(input, RowsOf(q, n), WmOf(q, n - 1), base.seen)
      all    == IF q = "gold"
                THEN base.counted \cup Counts(input, new, WmOf(q, n - 1)) ELSE {}
      closed == Closed(all, input, WmOf(q, n))
  IN [seen    |-> base.seen \cup new,
      counted |-> all \ closed,
      rows    |-> IF q = "gold" THEN GoldRows(closed, input) ELSE new]

-----------------------------------------------------------------------------
(* The job *)

\* The validator publishes a transaction, or one more copy of it.
Arrive(r) ==
  /\ Len(input) < MaxInput
  /\ input' = Append(input, r)
  /\ UNCHANGED <<job, pc, offsets, versions, table, commits, nextWm, faults>>

StartJob ==
  /\ job = "down"
  /\ job' = "starting"
  /\ UNCHANGED <<input, pc, offsets, versions, table, commits, nextWm, faults>>

\* Mutant of StartQuery: the watermark is not recovered.
StartUnmarked(q) ==
  /\ job = "starting"
  /\ q = "gold" => \A p \in Queries \ {q} : pc[p] # "down"
  /\ Goto(q, {"down"}, IF Len(commits[q]) < Last(q) THEN "planned" ELSE "started")
  /\ nextWm' = [nextWm EXCEPT ![q] = 0]
  /\ UNCHANGED <<input, job, offsets, versions, table, commits, faults>>

\* start() of Silver, then of Gold: each goes on from its checkpoint.
StartQuery(q) ==
  /\ job = "starting"
  /\ q = "gold" => \A p \in Queries \ {q} : pc[p] # "down"
  /\ Goto(q, {"down"}, IF Len(commits[q]) < Last(q) THEN "planned" ELSE "started")
  /\ nextWm' = [nextWm EXCEPT ![q] = CommittedWm(q, Len(commits[q]))]
  /\ UNCHANGED <<input, job, offsets, versions, table, commits, faults>>

Await ==
  /\ job = "starting"
  /\ \A q \in Queries : pc[q] # "down"
  /\ job' = "up"
  /\ UNCHANGED <<input, pc, offsets, versions, table, commits, nextWm, faults>>

\* A batch is planned up to some offset: there is new input, or the watermark
\* has moved since the batch this process ran last.
Plan(q, end) ==
  /\ \/ end > EndOf(q, Last(q)) /\ Goto(q, {"started", "ready"}, "planned")
     \/ nextWm[q] > WmOf(q, Last(q)) /\ Goto(q, {"ready"}, "planned")
  /\ offsets' = [offsets EXCEPT ![q] = Append(@, [end |-> end, wm |-> nextWm[q]])]
  /\ UNCHANGED <<input, job, versions, table, commits, nextWm, faults>>

\* Version n of the state and the data files of batch n are made, again if
\* they are there already.
Make(q, n, version) ==
  /\ Goto(q, {"planned"}, "run")
  /\ versions' = [versions EXCEPT ![q] = Append(SubSeq(@, 1, n - 1), version)]
  /\ UNCHANGED <<input, job, offsets, table, commits, nextWm, faults>>

\* Mutants of Run: the batch is run on the latest version there is, or run
\* whether or not the table has it.
RunOnLatest(q) ==
  /\ Len(table[q]) < Last(q)
  /\ Make(q, Last(q), BatchOn(q, Last(q), StateOf(q, Len(versions[q]))))

RunAgain(q) == Make(q, Last(q), BatchOn(q, Last(q), StateOf(q, Last(q) - 1)))

Run(q) ==
  /\ Len(table[q]) < Last(q)
  /\ Make(q, Last(q), BatchOn(q, Last(q), StateOf(q, Last(q) - 1)))

\* The data files enter the table; the batch's events move the watermark.
Write(q) ==
  /\ Goto(q, {"run"}, "written")
  /\ table' = [table EXCEPT ![q] = Append(@, versions[q][Last(q)].rows)]
  /\ nextWm' = [nextWm EXCEPT ![q] = Advance(@, input, RowsOf(q, Last(q)))]
  /\ UNCHANGED <<input, job, offsets, versions, commits, faults>>

\* The table has the batch already: nothing is run or written, and the
\* watermark does not move.
SkipWrite(q) ==
  /\ Goto(q, {"planned"}, "written")
  /\ Len(table[q]) >= Last(q)
  /\ UNCHANGED <<input, job, offsets, versions, table, commits, nextWm, faults>>

Commit(q) ==
  /\ Goto(q, {"written"}, "ready")
  /\ commits' = [commits EXCEPT ![q] = Append(@, nextWm[q])]
  /\ UNCHANGED <<input, job, offsets, versions, table, nextWm, faults>>

QueryFails(q) ==
  /\ Fault
  /\ Goto(q, PC \ {"down", "ended"}, "ended")
  /\ UNCHANGED <<input, job, offsets, versions, table, commits, nextWm>>

\* Mutant of AnyTermination: main waits for every query.
AllTerminations ==
  /\ job = "up"
  /\ \A q \in Queries : pc[q] = "ended"
  /\ job' = "stopping"
  /\ UNCHANGED <<input, pc, offsets, versions, table, commits, nextWm, faults>>

\* awaitAnyTermination returns, or raises, once a query has ended.
AnyTermination ==
  /\ job = "up"
  /\ \E q \in Queries : pc[q] = "ended"
  /\ job' = "stopping"
  /\ UNCHANGED <<input, pc, offsets, versions, table, commits, nextWm, faults>>

\* --timeout-seconds passes, or KeyboardInterrupt.
Interrupt ==
  /\ job = "up"
  /\ Fault
  /\ job' = "stopping"
  /\ UNCHANGED <<input, pc, offsets, versions, table, commits, nextWm>>

\* _stop_queries: in any part of the query's batch.
StopQuery(q) ==
  /\ job = "stopping"
  /\ Goto(q, PC \ {"down", "ended"}, "ended")
  /\ UNCHANGED <<input, job, offsets, versions, table, commits, nextWm, faults>>

\* spark.stop, and main returns.
EndJob ==
  /\ job = "stopping"
  /\ \A q \in Queries : pc[q] = "ended"
  /\ job' = "down"
  /\ pc' = [q \in Queries |-> "down"]
  /\ UNCHANGED <<input, offsets, versions, table, commits, nextWm, faults>>

\* The process is killed, or start() of a query raises: it is outside main's
\* try, and the process ends without _stop_queries.
Crash ==
  /\ job # "down"
  /\ Fault
  /\ job' = "down"
  /\ pc' = [q \in Queries |-> "down"]
  /\ UNCHANGED <<input, offsets, versions, table, commits, nextWm>>

-----------------------------------------------------------------------------
QueryStep(q) ==
  \/ \E end \in EndOf(q, Last(q)) .. Len(input) : Plan(q, end)
  \/ Run(q) \/ Write(q) \/ SkipWrite(q) \/ Commit(q)

JobStep ==
  \/ StartJob \/ Await \/ AnyTermination \/ EndJob
  \/ \E q \in Queries : StartQuery(q) \/ StopQuery(q)

Next ==
  \/ \E r \in Records : Arrive(r)
  \/ JobStep \/ Interrupt \/ Crash
  \/ \E q \in Queries : QueryStep(q) \/ QueryFails(q)

Spec == Init /\ [][Next]_vars

\* The threads of a query that runs and of main go on, and whoever runs the
\* job starts it again.
FairSpec == Spec /\ WF_vars(JobStep) /\ \A q \in Queries : WF_vars(QueryStep(q))

-----------------------------------------------------------------------------
(* Properties *)

\* The rows of a table, with the batch each is from.
InTable(q) == UNION {{<<n, r>> : r \in table[q][n]} : n \in DOMAIN table[q]}

\* The state that goes with a table.
Now(q) == StateOf(q, Len(table[q]))

\* Records that a table, or an open window of it, stands for.
Held(q) ==
  IF q = "gold"
  THEN {c.row : c \in Now(q).counted} \cup UNION {x[2].rows : x \in InTable(q)}
  ELSE {x[2] : x \in InTable(q)}

(***************************************************************************)
(* SilverOneRowPerTransaction: Silver has "one row per transaction_id"     *)
(* (README.md), whatever copies arrive, however the batches are cut and    *)
(* wherever the job dies in one (prepare_events, start_silver_parquet_     *)
(* query).                                                                 *)
(***************************************************************************)
SilverOneRowPerTransaction ==
  "silver" \in Queries =>
    \A x, y \in InTable("silver") : input[x[2]].id = input[y[2]].id => x = y

(***************************************************************************)
(* OnTimeKept: an event that is no later than the delay after the events   *)
(* before it in the topic is in the table, or in a window that will be,    *)
(* once its batch is written: it, or another one that was taken under its  *)
(* transaction_id (DESIGN.md section 8, apply_watermark).                  *)
(***************************************************************************)
OnTimeKept ==
  \A q \in Queries : \A o \in 1 .. EndOf(q, Len(table[q])) :
    (\A p \in 1 .. o - 1 : input[p].time < input[o].time + Delay) =>
      \E p \in Held(q) : input[p].id = input[o].id

(***************************************************************************)
(* GoldOneRowPerWindow: Gold's grain is (account_id, window_start,         *)
(* window_end, window_size) (README.md): a window that was written is      *)
(* never written again, in another batch or after a restart.               *)
(***************************************************************************)
GoldOneRowPerWindow ==
  "gold" \in Queries =>
    \A x, y \in InTable("gold") : x[2].window = y[2].window => x = y

(***************************************************************************)
(* GoldCountsOnce: an accepted transaction is, for each window size, in    *)
(* exactly one place: a row of Gold or an open window. txn_count is the    *)
(* number of distinct transactions (README.md), also over a rerun batch.   *)
(***************************************************************************)
GoldCountsOnce ==
  "gold" \in Queries =>
    \A o \in Now("gold").seen, size \in Sizes :
      LET written == {x \in InTable("gold") : x[2].window.size = size /\ o \in x[2].rows}
          open    == {c \in Now("gold").counted : c.size = size /\ c.row = o}
      IN Cardinality(written) + Cardinality(open) = 1

(***************************************************************************)
(* WindowsNested: the row of a short window agrees with the row of every   *)
(* longer one around it, although the two are written in different         *)
(* batches, with late events and reruns between: no count is less in the   *)
(* longer, nor the sum, unless it has outgrown its column; and a signal by *)
(* a count is there in the longer window, where it is the weaker           *)
(* (risk_signals.py). Not so the location signal: the corners of a larger  *)
(* box may be nearer to each other, round the globe or towards a pole.     *)
(***************************************************************************)
WindowsNested ==
  "gold" \in Queries =>
    \A x, y \in InTable("gold") :
      LET v == x[2].window
          w == y[2].window
          a == x[2].aggregates
          b == y[2].aggregates
      IN v.account = w.account /\ w.start <= v.start /\ v.end <= w.end =>
           /\ \A f \in DOMAIN a \ {"amount_sum"} : a[f] <= b[f]
           /\ b.amount_sum = {} \/ \E m \in a.amount_sum, n \in b.amount_sum : m <= n
           /\ \A s \in {"rapid_transaction", "multi_device"} :
                x[2].signals[s] => y[2].signals[s]

(***************************************************************************)
(* SilverExactlyOnce, GoldExactlyOnce: a query does, through its           *)
(* checkpoint and whatever fails, what a query without failures does in    *)
(* one step per batch.                                                     *)
(***************************************************************************)
Silver == INSTANCE ExactlyOnceQuery WITH
  Kind <- "silver", table <- table["silver"],
  done <- EndOf("silver", Len(table["silver"])), wm <- WmOf("silver", Len(table["silver"])),
  seen <- Now("silver").seen, counted <- Now("silver").counted

SilverExactlyOnce == Silver!Spec

Gold == INSTANCE ExactlyOnceQuery WITH
  Kind <- "gold", table <- table["gold"],
  done <- EndOf("gold", Len(table["gold"])), wm <- WmOf("gold", Len(table["gold"])),
  seen <- Now("gold").seen, counted <- Now("gold").counted

GoldExactlyOnce == Gold!Spec

(***************************************************************************)
(* EveryRecordTaken: as long as the job is started again, every record is  *)
(* in a committed batch of each query: one that fails does not stay down   *)
(* beside one that goes on (main, awaitAnyTermination).                    *)
(***************************************************************************)
EveryRecordTaken ==
  \A q \in Queries, o \in 1 .. MaxInput :
    Len(input) >= o ~> EndOf(q, Len(commits[q])) >= o

(***************************************************************************)
(* DedupStateBounded: the deduplication keeps a transaction "within the    *)
(* watermark horizon" (features.py, DESIGN.md section 9), "without         *)
(* retaining unlimited state" (section 8). It does not hold:               *)
(* dropDuplicates(["transaction_id"]) leaves the watermark nothing to      *)
(* evict by, and the state keeps every transaction there ever was.         *)
(***************************************************************************)
DedupStateBounded ==
  \A q \in Queries : \A o \in Now(q).seen :
    ~Late(input[o].time, WmOf(q, Len(table[q])))

=============================================================================
