----------------------------- MODULE LakeProofs -----------------------------
(***************************************************************************)
(* TLAPS proofs about Lake, for every input, delay, set of windows,        *)
(* threshold and number of faults.                                         *)
(*                                                                         *)
(* The inductive invariant says of each query how long its four logs are   *)
(* at each point of a batch (LogsInStep), that batches follow one another  *)
(* in the input (EndsGrow), that a batch's watermark is the one committed  *)
(* before it and justified by what was taken before (WatermarksGrow), and  *)
(* that each version of the state is its batch run on the version before,  *)
(* however often it was made (VersionsFollow). From it follow the types,   *)
(* and, in LakeRefinement, that each query implements ExactlyOnceQuery.    *)
(***************************************************************************)
EXTENDS Lake, EventTimeProofs

Versions == [seen : SUBSET Nat, counted : SUBSET Count, rows : Batches]

LakeTypes ==
  /\ input \in Seq(Records) /\ Len(input) <= MaxInput
  /\ job \in Job
  /\ pc \in [Queries -> PC]
  /\ offsets \in [Queries -> Seq([end : Nat, wm : Watermarks])]
  /\ versions \in [Queries -> Seq(Versions)]
  /\ table \in [Queries -> Seq(Batches)]
  /\ commits \in [Queries -> Seq(Watermarks)]
  /\ nextWm \in [Queries -> Watermarks]
  /\ faults \in 0 .. MaxFaults

\* A watermark that the first n records justify.
JustifiedBy(w, n) == w = 0 \/ \E p \in 1 .. n : w <= Minus(input[p].time, Delay)

LogsInStep(q) ==
  LET o == Len(offsets[q])
      v == Len(versions[q])
      t == Len(table[q])
      c == Len(commits[q])
  IN /\ c <= t /\ t <= v /\ v <= o /\ o <= c + 1
     /\ pc[q] \in {"started", "ready"} => o = c
     /\ pc[q] = "planned" => o = c + 1
     /\ pc[q] = "run" => v = c + 1 /\ t = c
     /\ pc[q] = "written" => t = c + 1

EndsGrow(q) ==
  \A n \in 1 .. Len(offsets[q]) :
    /\ EndOf(q, n - 1) <= EndOf(q, n) /\ EndOf(q, n) <= Len(input)
    /\ offsets[q][n].wm = CommittedWm(q, n - 1)

WatermarksGrow(q) ==
  LET c == Len(commits[q]) IN
  /\ \A n \in 1 .. c : /\ CommittedWm(q, n - 1) <= CommittedWm(q, n)
                       /\ JustifiedBy(CommittedWm(q, n), EndOf(q, n))
  /\ pc[q] \in {"started", "ready", "planned", "run"} => nextWm[q] = CommittedWm(q, c)
  /\ pc[q] = "written" => /\ CommittedWm(q, c) <= nextWm[q]
                          /\ JustifiedBy(nextWm[q], EndOf(q, c + 1))

VersionsFollow(q) ==
  /\ \A n \in 1 .. Len(versions[q]) :
       /\ versions[q][n] = BatchOn(q, n, StateOf(q, n - 1))
       /\ versions[q][n].seen \subseteq 1 .. EndOf(q, n)
       /\ \A c \in versions[q][n].counted : c.row \in versions[q][n].seen
  /\ \A n \in 1 .. Len(table[q]) : table[q][n] = versions[q][n].rows

QueryOK(q) ==
  /\ LogsInStep(q)
  /\ EndsGrow(q)
  /\ WatermarksGrow(q)
  /\ VersionsFollow(q)

LakeInv == LakeTypes /\ \A q \in Queries : QueryOK(q)

LEMMA WatermarksAreNumbers == Watermarks \subseteq Nat /\ 0 \in Watermarks
<1>1. \A r \in Records : Minus(r.time, Delay) \in Nat
  BY EventTimeAssumption DEF Minus
<1>2. QED
  BY <1>1 DEF Watermarks

\* What the logs of a query hold, by their index.
LEMMA LogTypes ==
  ASSUME LakeTypes, NEW q \in Queries
  PROVE  /\ Len(offsets[q]) \in Nat /\ Len(versions[q]) \in Nat
         /\ Len(table[q]) \in Nat /\ Len(commits[q]) \in Nat /\ Len(input) \in Nat
         /\ \A n \in 0 .. Len(offsets[q]) : EndOf(q, n) \in Nat /\ WmOf(q, n) \in Watermarks
         /\ \A n \in 0 .. Len(commits[q]) : CommittedWm(q, n) \in Watermarks
         /\ \A n \in 0 .. Len(versions[q]) :
              /\ StateOf(q, n).seen \in SUBSET Nat
              /\ StateOf(q, n).counted \in SUBSET Count
         /\ nextWm[q] \in Watermarks
<1>1. /\ offsets[q] \in Seq([end : Nat, wm : Watermarks]) /\ versions[q] \in Seq(Versions)
      /\ table[q] \in Seq(Batches) /\ commits[q] \in Seq(Watermarks) /\ nextWm[q] \in Watermarks
      /\ input \in Seq(Records)
  BY DEF LakeTypes
<1>2. /\ Len(offsets[q]) \in Nat /\ Len(versions[q]) \in Nat
      /\ Len(table[q]) \in Nat /\ Len(commits[q]) \in Nat /\ Len(input) \in Nat
  BY <1>1
<1>3. \A n \in 1 .. Len(offsets[q]) :
        offsets[q][n] \in [end : Nat, wm : Watermarks]
  <2> DEFINE T == [end : Nat, wm : Watermarks]
  <2>1. offsets[q] \in Seq(T)
    BY <1>1
  <2> HIDE DEF T
  <2>2. \A n \in 1 .. Len(offsets[q]) : offsets[q][n] \in T
    BY <2>1
  <2>3. QED
    BY <2>2 DEF T
<1>4. \A n \in 1 .. Len(versions[q]) : versions[q][n] \in Versions
  BY <1>1
<1>5. \A n \in 0 .. Len(offsets[q]) : EndOf(q, n) \in Nat /\ WmOf(q, n) \in Watermarks
  BY <1>2, <1>3, WatermarksAreNumbers DEF EndOf, WmOf
<1>6. \A n \in 0 .. Len(commits[q]) : CommittedWm(q, n) \in Watermarks
  BY <1>1, <1>2, WatermarksAreNumbers DEF CommittedWm
<1>7. \A n \in 0 .. Len(versions[q]) :
        StateOf(q, n).seen \in SUBSET Nat /\ StateOf(q, n).counted \in SUBSET Count
  BY <1>2, <1>4 DEF StateOf, Versions
<1>8. QED
  BY <1>1, <1>2, <1>5, <1>6, <1>7

\* A version that a batch makes, of whatever state.
LEMMA BatchOnTypes ==
  ASSUME LakeTypes, NEW q \in Queries, NEW n \in 1 .. Len(offsets[q]), NEW base,
         base.seen \in SUBSET Nat, base.counted \in SUBSET Count,
         base.seen \subseteq 1 .. EndOf(q, n - 1),
         \A c \in base.counted : c.row \in base.seen,
         EndOf(q, n - 1) <= EndOf(q, n), EndOf(q, n) <= Len(input)
  PROVE  /\ BatchOn(q, n, base) \in Versions
         /\ BatchOn(q, n, base).seen \subseteq 1 .. EndOf(q, n)
         /\ \A c \in BatchOn(q, n, base).counted : c.row \in BatchOn(q, n, base).seen
<1> DEFINE new    == Accepted(input, RowsOf(q, n), WmOf(q, n - 1), base.seen)
           all    == IF q = "gold"
                     THEN base.counted \cup Counts(input, new, WmOf(q, n - 1)) ELSE {}
           closed == Closed(all, input, WmOf(q, n))
           rows   == IF q = "gold" THEN GoldRows(closed, input) ELSE new
<1>1. BatchOn(q, n, base) = [seen |-> base.seen \cup new, counted |-> all \ closed, rows |-> rows]
  BY DEF BatchOn
<1>2. EndOf(q, n - 1) \in Nat /\ EndOf(q, n) \in Nat
  BY LogTypes
<1>3. RowsOf(q, n) \subseteq 1 .. EndOf(q, n) /\ RowsOf(q, n) \subseteq Nat
  BY <1>2 DEF RowsOf
<1>4. new \subseteq RowsOf(q, n)
  BY DEF Accepted
<1>5. base.seen \cup new \subseteq 1 .. EndOf(q, n) /\ new \in SUBSET Nat
  BY <1>2, <1>3, <1>4
<1>6. /\ Counts(input, new, WmOf(q, n - 1)) \subseteq Count
      /\ \A c \in Counts(input, new, WmOf(q, n - 1)) : c.row \in new
  BY <1>5 DEF Counts, Count
<1>7. all \in SUBSET Count /\ \A c \in all : c.row \in base.seen \cup new
  BY <1>6
<1>8. closed \in SUBSET Count
  BY <1>7 DEF Closed
<1> HIDE DEF new, all, closed
<1>9. rows \in Batches
  BY <1>5, <1>8 DEF Batches, LakeTypes
<1>10. BatchOn(q, n, base) \in Versions
  BY <1>1, <1>5, <1>7, <1>9 DEF Versions
<1>11. QED
  BY <1>1, <1>5, <1>7, <1>10

LEMMA LakeStarts == Init => LakeInv
<1> SUFFICES ASSUME Init PROVE LakeInv
  OBVIOUS
<1>1. LakeTypes
  BY WatermarksAreNumbers, LakeAssumption DEF Init, LakeTypes, Job, PC
<1>2. ASSUME NEW q \in Queries PROVE QueryOK(q)
  <2>1. /\ Len(offsets[q]) = 0 /\ Len(versions[q]) = 0 /\ Len(table[q]) = 0
        /\ Len(commits[q]) = 0 /\ pc[q] = "down" /\ 1 .. 0 = {}
    BY DEF Init
  <2>2. LogsInStep(q)
    BY <2>1 DEF LogsInStep
  <2>3. EndsGrow(q) /\ WatermarksGrow(q) /\ VersionsFollow(q)
    BY <2>1 DEF EndsGrow, WatermarksGrow, VersionsFollow
  <2>4. QED
    BY <2>2, <2>3 DEF QueryOK
<1>3. QED
  BY <1>1, <1>2 DEF LakeInv

-----------------------------------------------------------------------------
(* Steps that leave the logs of a query alone *)

\* The query is where it was, or is in no batch any more.
LEMMA LogsUntouched ==
  ASSUME NEW q \in Queries, QueryOK(q),
         input' = input, offsets'[q] = offsets[q], versions'[q] = versions[q],
         table'[q] = table[q], commits'[q] = commits[q],
         \/ pc'[q] \in {"down", "ended"}
         \/ pc'[q] = pc[q] /\ nextWm'[q] = nextWm[q]
  PROVE  QueryOK(q)'
<1> USE DEF QueryOK
<1>1. LogsInStep(q)'
  BY DEF LogsInStep
<1>2. \A n : EndOf(q, n)' = EndOf(q, n) /\ WmOf(q, n)' = WmOf(q, n)
             /\ CommittedWm(q, n)' = CommittedWm(q, n) /\ StateOf(q, n)' = StateOf(q, n)
  BY DEF EndOf, WmOf, CommittedWm, StateOf
<1>3. EndsGrow(q)'
  BY <1>2 DEF EndsGrow
<1>4. \A w, n : JustifiedBy(w, n)' <=> JustifiedBy(w, n)
  BY DEF JustifiedBy
<1>5. WatermarksGrow(q)'
  BY <1>2, <1>4 DEF WatermarksGrow
<1>6. \A n, base : BatchOn(q, n, base)' = BatchOn(q, n, base)
  <2> SUFFICES ASSUME NEW n, NEW base PROVE BatchOn(q, n, base)' = BatchOn(q, n, base)
    OBVIOUS
  <2>1. RowsOf(q, n)' = RowsOf(q, n) /\ WmOf(q, n - 1)' = WmOf(q, n - 1) /\ WmOf(q, n)' = WmOf(q, n)
    BY <1>2 DEF RowsOf
  <2> HIDE DEF QueryOK
  <2>2. QED
    BY <2>1, Zenon DEF BatchOn
<1>7. VersionsFollow(q)'
  BY <1>2, <1>6 DEF VersionsFollow
<1>8. QED
  BY <1>1, <1>3, <1>5, <1>7

\* A step of one query leaves the others alone.
LEMMA OthersUntouched ==
  ASSUME LakeInv, NEW q \in Queries, LakeTypes', QueryOK(q)', input' = input,
         \A p \in Queries \ {q} :
           /\ offsets'[p] = offsets[p] /\ versions'[p] = versions[p] /\ table'[p] = table[p]
           /\ commits'[p] = commits[p] /\ pc'[p] = pc[p] /\ nextWm'[p] = nextWm[p]
  PROVE  LakeInv'
<1>1. ASSUME NEW p \in Queries \ {q} PROVE QueryOK(p)'
  <2>1. QueryOK(p) /\ p \in Queries
    BY DEF LakeInv
  <2>2. QED
    BY <2>1, LogsUntouched
<1>2. QED
  BY <1>1 DEF LakeInv

LEMMA SameLogs ==
  ASSUME LakeInv, job' \in Job, faults' \in 0 .. MaxFaults, pc' \in [Queries -> PC],
         UNCHANGED <<input, offsets, versions, table, commits, nextWm>>,
         \A q \in Queries : pc'[q] \in {"down", "ended", pc[q]}
  PROVE  LakeInv'
<1>1. LakeTypes'
  BY DEF LakeInv, LakeTypes
<1>2. ASSUME NEW q \in Queries PROVE QueryOK(q)'
  BY LogsUntouched DEF LakeInv
<1>3. QED
  BY <1>1, <1>2 DEF LakeInv

\* The steps of the process, and of a query that fails or is stopped.
LEMMA JobKeeps ==
  ASSUME LakeInv,
         \/ StartJob \/ Await \/ AnyTermination \/ Interrupt \/ EndJob \/ Crash
         \/ \E q \in Queries : QueryFails(q) \/ StopQuery(q)
         \/ UNCHANGED vars
  PROVE  LakeInv'
<1>1. pc \in [Queries -> PC] /\ faults \in 0 .. MaxFaults /\ job \in Job
  BY DEF LakeInv, LakeTypes
<1>2. CASE StartJob \/ Await \/ AnyTermination \/ UNCHANGED vars
  BY <1>1, <1>2, SameLogs DEF StartJob, Await, AnyTermination, vars, Job
<1>3. ASSUME Fault PROVE faults' \in 0 .. MaxFaults
  BY <1>1, <1>3, LakeAssumption DEF Fault
<1>4. CASE Interrupt
  BY <1>1, <1>3, <1>4, SameLogs DEF Interrupt, Job
<1>5. [q \in Queries |-> "down"] \in [Queries -> PC]
  BY DEF PC
<1>6. CASE EndJob
  BY <1>1, <1>5, <1>6, SameLogs DEF EndJob, Job
<1>7. CASE Crash
  BY <1>1, <1>3, <1>5, <1>7, SameLogs DEF Crash, Job
<1>8. ASSUME NEW q \in Queries, QueryFails(q) \/ StopQuery(q) PROVE LakeInv'
  <2>1. pc' = [pc EXCEPT ![q] = "ended"]
    BY <1>8 DEF QueryFails, StopQuery, Goto
  <2>2. pc' \in [Queries -> PC] /\ \A p \in Queries : pc'[p] \in {"down", "ended", pc[p]}
    BY <1>1, <2>1 DEF PC
  <2>3. UNCHANGED <<input, job, offsets, versions, table, commits, nextWm>>
    BY <1>8 DEF QueryFails, StopQuery
  <2>4. faults' \in 0 .. MaxFaults
    BY <1>1, <1>3, <1>8 DEF QueryFails, StopQuery
  <2>5. QED
    BY <1>1, <2>2, <2>3, <2>4, SameLogs
<1>9. QED
  BY <1>2, <1>4, <1>6, <1>7, <1>8

-----------------------------------------------------------------------------
(* A record arrives *)

\* What a batch is run on: the version before it, made of records before it.
LEMMA BaseOfBatch ==
  ASSUME LakeTypes, NEW q \in Queries, QueryOK(q),
         NEW n \in 1 .. Len(offsets[q]), n <= Len(versions[q]) + 1
  PROVE  /\ StateOf(q, n - 1).seen \in SUBSET Nat
         /\ StateOf(q, n - 1).counted \in SUBSET Count
         /\ StateOf(q, n - 1).seen \subseteq 1 .. EndOf(q, n - 1)
         /\ \A c \in StateOf(q, n - 1).counted : c.row \in StateOf(q, n - 1).seen
         /\ EndOf(q, n - 1) <= EndOf(q, n) /\ EndOf(q, n) <= Len(input)
         /\ EndOf(q, n - 1) \in Nat /\ EndOf(q, n) \in Nat
<1>1. /\ Len(offsets[q]) \in Nat /\ Len(versions[q]) \in Nat
      /\ EndOf(q, n - 1) \in Nat /\ EndOf(q, n) \in Nat
      /\ EndOf(q, n - 1) <= EndOf(q, n) /\ EndOf(q, n) <= Len(input)
  <2>1. n - 1 \in 0 .. Len(offsets[q]) /\ n \in 0 .. Len(offsets[q])
    BY LogTypes
  <2>2. QED
    BY <2>1, LogTypes DEF QueryOK, EndsGrow
<1>2. n - 1 \in 0 .. Len(versions[q])
  BY <1>1
<1>3. StateOf(q, n - 1).seen \in SUBSET Nat /\ StateOf(q, n - 1).counted \in SUBSET Count
  BY <1>2, LogTypes
<1>4. /\ StateOf(q, n - 1).seen \subseteq 1 .. EndOf(q, n - 1)
      /\ \A c \in StateOf(q, n - 1).counted : c.row \in StateOf(q, n - 1).seen
  <2>1. CASE n - 1 = 0
    BY <2>1 DEF StateOf
  <2>2. CASE n - 1 # 0
    <3>1. n - 1 \in 1 .. Len(versions[q]) /\ StateOf(q, n - 1) = versions[q][n - 1]
      BY <1>2, <2>2 DEF StateOf
    <3>2. QED
      BY <3>1 DEF QueryOK, VersionsFollow
  <2>3. QED
    BY <2>1, <2>2
<1>5. QED
  BY <1>1, <1>3, <1>4

\* A batch run again on a longer input makes the same version.
LEMMA BatchStays ==
  ASSUME LakeTypes, NEW q \in Queries, NEW n, NEW base, Grown(input, input'),
         offsets'[q] = offsets[q], n \in Nat,
         base.seen \subseteq 1 .. Len(input), base.counted \in SUBSET Count,
         \A c \in base.counted : c.row \in base.seen,
         EndOf(q, n - 1) \in Nat, EndOf(q, n) \in Nat, EndOf(q, n) <= Len(input)
  PROVE  BatchOn(q, n, base)' = BatchOn(q, n, base)
<1> DEFINE new    == Accepted(input, RowsOf(q, n), WmOf(q, n - 1), base.seen)
           all    == IF q = "gold"
                     THEN base.counted \cup Counts(input, new, WmOf(q, n - 1)) ELSE {}
           closed == Closed(all, input, WmOf(q, n))
<1>1. RowsOf(q, n)' = RowsOf(q, n) /\ WmOf(q, n - 1)' = WmOf(q, n - 1) /\ WmOf(q, n)' = WmOf(q, n)
  BY DEF RowsOf, EndOf, WmOf
<1>2. RowsOf(q, n) \in SUBSET (1 .. Len(input)) /\ Len(input) \in Nat
  BY DEF RowsOf, LakeTypes
<1>3. new' = new
  BY <1>1, <1>2, AcceptedStays
<1>4. new \in SUBSET (1 .. Len(input)) /\ new \subseteq Nat
  BY <1>2 DEF Accepted
<1>5. Counts(input, new, WmOf(q, n - 1))' = Counts(input, new, WmOf(q, n - 1))
  <2> HIDE DEF new
  <2> QED BY <1>1, <1>3, <1>4, CountsStay
<1>6. all' = all
  <2> HIDE DEF new
  <2> QED BY <1>5, <1>3
<1>7. all \in SUBSET Count /\ \A c \in all : c.row \in 1 .. Len(input)
  <2>1. /\ Counts(input, new, WmOf(q, n - 1)) \subseteq Count
        /\ \A c \in Counts(input, new, WmOf(q, n - 1)) : c.row \in new
    <3> HIDE DEF new
    <3>1. [size : Sizes, row : new] \subseteq [size : Sizes, row : Nat]
      BY <1>4
    <3>2. QED
      BY <3>1 DEF Counts, Count
  <2> HIDE DEF new
  <2>2. QED
    BY <2>1, <1>4
<1>8. closed' = closed
  <2> HIDE DEF all
  <2> QED BY <1>1, <1>6, <1>7, ClosedStays
<1>9. GoldRows(closed, input)' = GoldRows(closed, input)
  <2>1. closed \subseteq all
    <3> HIDE DEF all
    <3> QED BY DEF Closed
  <2>2. closed \in SUBSET Count /\ \A c \in closed : c.row \in 1 .. Len(input)
    <3> HIDE DEF all, closed
    <3> QED BY <2>1, <1>7
  <2> HIDE DEF closed
  <2>3. QED
    BY <2>2, <1>8, GoldRowsStay
<1>10. /\ BatchOn(q, n, base) =
            [seen |-> base.seen \cup new, counted |-> all \ closed,
             rows |-> IF q = "gold" THEN GoldRows(closed, input) ELSE new]
       /\ BatchOn(q, n, base)' =
            [seen |-> base.seen \cup new', counted |-> all' \ closed',
             rows |-> IF q = "gold" THEN GoldRows(closed, input)' ELSE new']
  BY DEF BatchOn
<1> HIDE DEF new, all, closed
<1>11. QED
  BY <1>3, <1>6, <1>8, <1>9, <1>10

LEMMA ArrivalKeeps ==
  ASSUME LakeInv, NEW r \in Records, Arrive(r)
  PROVE  LakeInv'
<1>1. /\ input' \in Seq(Records) /\ Len(input') = Len(input) + 1 /\ Len(input) \in Nat
      /\ \A o \in 1 .. Len(input) : input'[o] = input[o]
  BY DEF Arrive, LakeInv, LakeTypes
<1>2. Grown(input, input')
  BY <1>1 DEF Grown, LakeInv, LakeTypes
<1>3. /\ job' = job /\ pc' = pc /\ offsets' = offsets /\ versions' = versions /\ table' = table
      /\ commits' = commits /\ nextWm' = nextWm /\ faults' = faults
  BY DEF Arrive
<1>4. LakeTypes'
  <2>1. Len(input') <= MaxInput
    BY <1>1, LakeAssumption DEF Arrive
  <2>2. QED
    BY <2>1, <1>1, <1>3 DEF LakeInv, LakeTypes
<1>5. ASSUME NEW q \in Queries PROVE QueryOK(q)'
  <2> USE DEF QueryOK
  <2>1. QueryOK(q) /\ LakeTypes
    BY DEF LakeInv
  <2>2. \A n : EndOf(q, n)' = EndOf(q, n) /\ WmOf(q, n)' = WmOf(q, n)
               /\ CommittedWm(q, n)' = CommittedWm(q, n) /\ StateOf(q, n)' = StateOf(q, n)
    BY <1>3 DEF EndOf, WmOf, CommittedWm, StateOf
  <2>3. LogsInStep(q)'
    BY <2>1, <1>3 DEF LogsInStep
  <2>4. \A n \in 0 .. Len(offsets[q]) : EndOf(q, n) \in Nat /\ EndOf(q, n) <= Len(input)
    BY <1>1, <2>1, LogTypes DEF EndsGrow, EndOf
  <2>5. EndsGrow(q)'
    <3> SUFFICES ASSUME NEW n \in 1 .. Len(offsets[q])
                 PROVE  /\ EndOf(q, n - 1) <= EndOf(q, n) /\ EndOf(q, n) <= Len(input')
                        /\ offsets[q][n].wm = CommittedWm(q, n - 1)
      BY <1>3, <2>2 DEF EndsGrow
    <3>1. n \in 0 .. Len(offsets[q]) /\ EndOf(q, n) \in Nat /\ EndOf(q, n) <= Len(input)
      BY <2>1, <2>4, LogTypes
    <3>2. QED
      BY <3>1, <2>1, <1>1 DEF EndsGrow
  <2>6. ASSUME NEW w, NEW n \in 0 .. Len(offsets[q]), JustifiedBy(w, EndOf(q, n))
        PROVE  JustifiedBy(w, EndOf(q, n))'
    <3>1. \A p \in 1 .. EndOf(q, n) : input'[p] = input[p]
      BY <2>4, <1>1
    <3>2. QED
      BY <2>6, <3>1, <2>2 DEF JustifiedBy
  <2>7. WatermarksGrow(q)'
    <3>1. /\ Len(commits[q]) \in Nat /\ Len(offsets[q]) \in Nat
          /\ Len(commits[q]) <= Len(offsets[q])
          /\ pc[q] = "written" => Len(commits[q]) + 1 \in 0 .. Len(offsets[q])
      BY <2>1, LogTypes DEF LogsInStep
    <3>2. \A n \in 1 .. Len(commits[q]) : n \in 0 .. Len(offsets[q])
      BY <3>1
    <3>3. \A n \in 1 .. Len(commits[q]) : JustifiedBy(CommittedWm(q, n), EndOf(q, n))'
      BY <3>2, <2>1, <2>2, <2>6 DEF WatermarksGrow
    <3>4. pc[q] = "written" => JustifiedBy(nextWm[q], EndOf(q, Len(commits[q]) + 1))'
      BY <3>1, <2>1, <2>6, <1>3 DEF WatermarksGrow
    <3>5. QED
      BY <3>3, <3>4, <1>3, <2>1, <2>2 DEF WatermarksGrow
  <2>8. VersionsFollow(q)'
    <3>1. ASSUME NEW n \in 1 .. Len(versions[q])
          PROVE  BatchOn(q, n, StateOf(q, n - 1))' = BatchOn(q, n, StateOf(q, n - 1))
      <4>1. n \in 1 .. Len(offsets[q]) /\ n <= Len(versions[q]) + 1 /\ n \in Nat
        BY <2>1, LogTypes DEF LogsInStep
      <4>2. /\ StateOf(q, n - 1).counted \in SUBSET Count
            /\ StateOf(q, n - 1).seen \subseteq 1 .. EndOf(q, n - 1)
            /\ \A c \in StateOf(q, n - 1).counted : c.row \in StateOf(q, n - 1).seen
            /\ EndOf(q, n - 1) <= EndOf(q, n) /\ EndOf(q, n) <= Len(input)
            /\ EndOf(q, n - 1) \in Nat /\ EndOf(q, n) \in Nat
        BY <4>1, <2>1, BaseOfBatch
      <4>3. StateOf(q, n - 1).seen \subseteq 1 .. Len(input)
        BY <4>2, <1>1
      <4>4. offsets'[q] = offsets[q] /\ StateOf(q, n - 1)' = StateOf(q, n - 1)
        BY <1>3, <2>2
      <4>5. QED
        BY <4>1, <4>2, <4>3, <4>4, <2>1, <1>2, BatchStays
    <3>2. QED
      BY <3>1, <1>3, <2>1, <2>2 DEF VersionsFollow
  <2>9. QED
    BY <2>3, <2>5, <2>7, <2>8
<1>6. QED
  BY <1>4, <1>5 DEF LakeInv

-----------------------------------------------------------------------------
(* The steps of a query *)

\* Versions and table unchanged, and no batch planned that they have.
LEMMA SameVersions ==
  ASSUME LakeTypes, NEW q \in Queries, QueryOK(q),
         input' = input, versions'[q] = versions[q], table'[q] = table[q],
         \A n \in 0 .. Len(offsets[q]) : EndOf(q, n)' = EndOf(q, n) /\ WmOf(q, n)' = WmOf(q, n)
  PROVE  VersionsFollow(q)'
<1>1. /\ Len(versions[q]) \in Nat /\ Len(offsets[q]) \in Nat
      /\ Len(versions[q]) <= Len(offsets[q])
      /\ VersionsFollow(q)
  BY LogTypes DEF QueryOK, LogsInStep
<1>2. \A n : StateOf(q, n)' = StateOf(q, n)
  BY DEF StateOf
<1>3. ASSUME NEW n \in 1 .. Len(versions[q])
      PROVE  BatchOn(q, n, StateOf(q, n - 1))' = BatchOn(q, n, StateOf(q, n - 1))
  <2>1. n \in 0 .. Len(offsets[q]) /\ n - 1 \in 0 .. Len(offsets[q])
    BY <1>1
  <2>2. /\ RowsOf(q, n)' = RowsOf(q, n) /\ WmOf(q, n - 1)' = WmOf(q, n - 1)
        /\ WmOf(q, n)' = WmOf(q, n) /\ StateOf(q, n - 1)' = StateOf(q, n - 1)
    BY <2>1, <1>2 DEF RowsOf
  <2>3. QED
    BY <2>2, Zenon DEF BatchOn
<1>4. \A n \in 1 .. Len(versions[q]) : EndOf(q, n)' = EndOf(q, n)
  BY <1>1
<1>5. QED
  BY <1>1, <1>2, <1>3, <1>4 DEF VersionsFollow

LEMMA StartKeeps ==
  ASSUME LakeInv, NEW q \in Queries, StartQuery(q)
  PROVE  LakeInv'
<1>1. /\ pc' = [pc EXCEPT ![q] = IF Len(commits[q]) < Last(q) THEN "planned" ELSE "started"]
      /\ nextWm' = [nextWm EXCEPT ![q] = CommittedWm(q, Len(commits[q]))]
      /\ UNCHANGED <<input, job, offsets, versions, table, commits, faults>>
  BY DEF StartQuery, Goto
<1>2. LakeTypes /\ QueryOK(q)
  BY DEF LakeInv
<1>3. Len(commits[q]) \in Nat /\ CommittedWm(q, Len(commits[q])) \in Watermarks
  BY <1>2, LogTypes
<1>4. LakeTypes'
  <2>1. pc' \in [Queries -> PC]
    BY <1>1, <1>2 DEF LakeTypes, PC
  <2>2. nextWm' \in [Queries -> Watermarks]
    BY <1>1, <1>2, <1>3 DEF LakeTypes
  <2>3. QED
    BY <2>1, <2>2, <1>1, <1>2 DEF LakeTypes
<1>5. /\ pc'[q] = IF Len(commits[q]) < Last(q) THEN "planned" ELSE "started"
      /\ nextWm'[q] = CommittedWm(q, Len(commits[q]))
      /\ \A p \in Queries \ {q} : pc'[p] = pc[p] /\ nextWm'[p] = nextWm[p]
  BY <1>1, <1>2 DEF LakeTypes
<1>6. LogsInStep(q)'
  BY <1>1, <1>2, <1>5, LogTypes DEF QueryOK, LogsInStep, Last
<1>7. \A n : EndOf(q, n)' = EndOf(q, n) /\ CommittedWm(q, n)' = CommittedWm(q, n)
             /\ WmOf(q, n)' = WmOf(q, n)
  BY <1>1 DEF EndOf, CommittedWm, WmOf
<1>8. EndsGrow(q)'
  BY <1>1, <1>2, <1>7 DEF QueryOK, EndsGrow
<1>9. \A w, n : JustifiedBy(w, n)' <=> JustifiedBy(w, n)
  BY <1>1 DEF JustifiedBy
<1>10. WatermarksGrow(q)'
  BY <1>1, <1>2, <1>5, <1>7, <1>9 DEF QueryOK, WatermarksGrow
<1>11. VersionsFollow(q)'
  BY <1>1, <1>2, <1>7, SameVersions
<1>12. QueryOK(q)'
  BY <1>6, <1>8, <1>10, <1>11 DEF QueryOK
<1>13. QED
  BY <1>1, <1>4, <1>5, <1>12, OthersUntouched

LEMMA PlanKeeps ==
  ASSUME LakeInv, NEW q \in Queries, NEW end \in EndOf(q, Last(q)) .. Len(input), Plan(q, end)
  PROVE  LakeInv'
<1>0. PICK o \in Nat : o = Len(offsets[q])
  BY LogTypes DEF LakeInv
<1> DEFINE batch == [end |-> end, wm |-> nextWm[q]]
<1>1. /\ pc[q] \in {"started", "ready"}
      /\ pc' = [pc EXCEPT ![q] = "planned"]
      /\ offsets' = [offsets EXCEPT ![q] = Append(offsets[q], batch)]
      /\ UNCHANGED <<input, job, versions, table, commits, nextWm, faults>>
  BY DEF Plan, Goto
<1>2. LakeTypes /\ QueryOK(q)
  BY DEF LakeInv
<1>3. /\ o \in Nat /\ Len(commits[q]) \in Nat /\ Len(input) \in Nat
      /\ EndOf(q, o) \in Nat /\ nextWm[q] \in Watermarks
      /\ o = Len(commits[q])
  BY <1>0, <1>1, <1>2, LogTypes DEF QueryOK, LogsInStep
<1>4. batch \in [end : Nat, wm : Watermarks] /\ EndOf(q, o) <= end /\ end <= Len(input)
  BY <1>0, <1>3 DEF Last
<1>5. /\ offsets'[q] \in Seq([end : Nat, wm : Watermarks]) /\ Len(offsets'[q]) = o + 1
      /\ \A n \in 1 .. o : offsets'[q][n] = offsets[q][n]
      /\ offsets'[q][o + 1] = batch
  <2> DEFINE T == [end : Nat, wm : Watermarks]
  <2>1. offsets[q] \in Seq(T) /\ batch \in T /\ offsets'[q] = Append(offsets[q], batch)
    BY <1>1, <1>2, <1>4 DEF LakeTypes
  <2> HIDE DEF T, batch
  <2>2. offsets'[q] \in Seq(T)
    BY <2>1
  <2>3. QED
    BY <1>0, <2>1, <2>2 DEF T
<1>6. LakeTypes'
  <2>1. pc' \in [Queries -> PC]
    BY <1>1, <1>2 DEF LakeTypes, PC
  <2>2. offsets' \in [Queries -> Seq([end : Nat, wm : Watermarks])]
    BY <1>1, <1>2, <1>5 DEF LakeTypes
  <2>3. QED
    BY <2>1, <2>2, <1>1, <1>2 DEF LakeTypes
<1>7. /\ pc'[q] = "planned"
      /\ \A p \in Queries \ {q} : pc'[p] = pc[p] /\ offsets'[p] = offsets[p]
  BY <1>1, <1>2 DEF LakeTypes
<1>8. LogsInStep(q)'
  BY <1>0, <1>1, <1>2, <1>3, <1>5, <1>7, LogTypes DEF QueryOK, LogsInStep
<1>9. /\ \A n \in 0 .. o : EndOf(q, n)' = EndOf(q, n) /\ WmOf(q, n)' = WmOf(q, n)
      /\ EndOf(q, o + 1)' = end
      /\ \A n : CommittedWm(q, n)' = CommittedWm(q, n)
  BY <1>1, <1>3, <1>5 DEF EndOf, WmOf, CommittedWm
<1>10. nextWm[q] = CommittedWm(q, o)
  BY <1>1, <1>2, <1>3 DEF QueryOK, WatermarksGrow
<1>11. EndsGrow(q)'
  <2>1. ASSUME NEW n \in 1 .. o
        PROVE  /\ EndOf(q, n - 1)' <= EndOf(q, n)' /\ EndOf(q, n)' <= Len(input')
               /\ offsets'[q][n].wm = CommittedWm(q, n - 1)'
    <3>1. n \in 0 .. o /\ n - 1 \in 0 .. o
      BY <1>3
    <3>2. QED
      BY <3>1, <1>0, <1>1, <1>2, <1>5, <1>9 DEF QueryOK, EndsGrow
  <2>2. /\ EndOf(q, o)' <= EndOf(q, o + 1)' /\ EndOf(q, o + 1)' <= Len(input')
        /\ offsets'[q][o + 1].wm = CommittedWm(q, o)'
    BY <1>1, <1>3, <1>4, <1>5, <1>9, <1>10
  <2>3. \A n \in 1 .. o + 1 : n \in 1 .. o \/ n = o + 1
    BY <1>3
  <2>4. o + 1 - 1 = o
    BY <1>3
  <2>5. QED
    BY <2>1, <2>2, <2>3, <2>4, <1>5 DEF EndsGrow
<1>12. \A w, n : JustifiedBy(w, n)' <=> JustifiedBy(w, n)
  BY <1>1 DEF JustifiedBy
<1>13. WatermarksGrow(q)'
  <2>1. \A n \in 1 .. Len(commits[q]) : EndOf(q, n)' = EndOf(q, n)
    BY <1>3, <1>9
  <2>2. QED
    BY <2>1, <1>1, <1>2, <1>3, <1>7, <1>9, <1>10, <1>12 DEF QueryOK, WatermarksGrow
<1>14. VersionsFollow(q)'
  BY <1>0, <1>1, <1>2, <1>9, SameVersions
<1>15. QueryOK(q)'
  BY <1>8, <1>11, <1>13, <1>14 DEF QueryOK
<1>16. QED
  BY <1>1, <1>6, <1>7, <1>15, OthersUntouched

LEMMA Replaced ==
  ASSUME NEW S, NEW s \in Seq(S), NEW n \in 1 .. Len(s) + 1, NEW x \in S,
         NEW r, r = Append(SubSeq(s, 1, n - 1), x)
  PROVE  /\ r \in Seq(S) /\ Len(r) = n /\ r[n] = x
         /\ \A k \in 1 .. n - 1 : r[k] = s[k]
<1> DEFINE b == SubSeq(s, 1, n - 1)
<1>1. b \in Seq(S) /\ Len(b) = n - 1 /\ \A k \in 1 .. n - 1 : b[k] = s[k]
  OBVIOUS
<1> HIDE DEF b
<1>2. QED
  BY <1>1 DEF b

LEMMA RunKeeps ==
  ASSUME LakeInv, NEW q \in Queries, Run(q)
  PROVE  LakeInv'
<1>0. PICK n \in Nat : n = Len(offsets[q])
  BY LogTypes DEF LakeInv
<1>1. /\ Len(table[q]) < n /\ pc[q] = "planned"
      /\ pc' = [pc EXCEPT ![q] = "run"]
      /\ versions' = [versions EXCEPT ![q] =
                        Append(SubSeq(versions[q], 1, n - 1), BatchOn(q, n, StateOf(q, n - 1)))]
      /\ UNCHANGED <<input, job, offsets, table, commits, nextWm, faults>>
  BY <1>0 DEF Run, Make, Goto, Last
<1>2. LakeTypes /\ QueryOK(q)
  BY DEF LakeInv
<1>3. /\ Len(versions[q]) \in Nat /\ Len(table[q]) \in Nat /\ Len(commits[q]) \in Nat
      /\ n = Len(commits[q]) + 1 /\ Len(table[q]) = n - 1
      /\ n \in 1 .. Len(versions[q]) + 1 /\ n \in 1 .. Len(offsets[q]) /\ n <= Len(versions[q]) + 1
      /\ Len(table[q]) <= Len(versions[q])
  <2>1. /\ Len(versions[q]) \in Nat /\ Len(table[q]) \in Nat /\ Len(commits[q]) \in Nat
    BY <1>2, LogTypes
  <2>2. LogsInStep(q)
    BY <1>2 DEF QueryOK
  <2>3. /\ n = Len(commits[q]) + 1 /\ Len(commits[q]) <= Len(table[q])
        /\ Len(table[q]) <= Len(versions[q])
    BY <2>2, <1>0, <1>1 DEF LogsInStep
  <2>4. Len(table[q]) = n - 1 /\ n \in 1 .. Len(versions[q]) + 1 /\ n <= Len(versions[q]) + 1
    BY <2>1, <2>3, <1>1
  <2>5. QED
    BY <1>0, <2>1, <2>3, <2>4
<1>4. /\ StateOf(q, n - 1).seen \in SUBSET Nat
      /\ StateOf(q, n - 1).counted \in SUBSET Count
      /\ StateOf(q, n - 1).seen \subseteq 1 .. EndOf(q, n - 1)
      /\ \A c \in StateOf(q, n - 1).counted : c.row \in StateOf(q, n - 1).seen
      /\ EndOf(q, n - 1) <= EndOf(q, n) /\ EndOf(q, n) <= Len(input)
  BY <1>2, <1>3, BaseOfBatch
<1> DEFINE version == BatchOn(q, n, StateOf(q, n - 1))
<1>5. /\ version \in Versions
      /\ version.seen \subseteq 1 .. EndOf(q, n)
      /\ \A c \in version.counted : c.row \in version.seen
  BY <1>2, <1>3, <1>4, BatchOnTypes
<1>6. /\ versions'[q] \in Seq(Versions) /\ Len(versions'[q]) = n
      /\ versions'[q][n] = version
      /\ \A k \in 1 .. n - 1 : versions'[q][k] = versions[q][k]
  <2>1. versions[q] \in Seq(Versions)
    BY <1>2 DEF LakeTypes
  <2>2. versions'[q] = Append(SubSeq(versions[q], 1, n - 1), version)
    BY <1>1, <1>2 DEF LakeTypes
  <2> HIDE DEF version
  <2>3. QED
    BY <2>1, <2>2, <1>3, <1>5, Replaced
<1>7. LakeTypes'
  <2>1. pc' \in [Queries -> PC]
    BY <1>1, <1>2 DEF LakeTypes, PC
  <2>2. versions' \in [Queries -> Seq(Versions)]
    BY <1>1, <1>2, <1>6 DEF LakeTypes
  <2>3. QED
    BY <2>1, <2>2, <1>1, <1>2 DEF LakeTypes
<1>8. /\ pc'[q] = "run"
      /\ \A p \in Queries \ {q} : pc'[p] = pc[p] /\ versions'[p] = versions[p]
  BY <1>1, <1>2 DEF LakeTypes
<1>9. LogsInStep(q)'
  BY <1>0, <1>1, <1>3, <1>6, <1>8 DEF LogsInStep
<1>10. /\ \A k : EndOf(q, k)' = EndOf(q, k) /\ WmOf(q, k)' = WmOf(q, k)
                /\ CommittedWm(q, k)' = CommittedWm(q, k)
       /\ \A k \in 0 .. n - 1 : StateOf(q, k)' = StateOf(q, k)
  BY <1>1, <1>3, <1>6 DEF EndOf, WmOf, CommittedWm, StateOf
<1>11. EndsGrow(q)'
  BY <1>1, <1>2, <1>10 DEF QueryOK, EndsGrow
<1>12. \A w, k : JustifiedBy(w, k)' <=> JustifiedBy(w, k)
  BY <1>1 DEF JustifiedBy
<1>13. WatermarksGrow(q)'
  BY <1>1, <1>2, <1>8, <1>10, <1>12 DEF QueryOK, WatermarksGrow
<1>14. VersionsFollow(q)'
  <2>1. ASSUME NEW k \in 1 .. n
        PROVE  BatchOn(q, k, StateOf(q, k - 1))' = BatchOn(q, k, StateOf(q, k - 1))
    <3>1. k - 1 \in 0 .. n - 1
      BY <1>3
    <3>2. /\ RowsOf(q, k)' = RowsOf(q, k) /\ WmOf(q, k - 1)' = WmOf(q, k - 1)
          /\ WmOf(q, k)' = WmOf(q, k) /\ StateOf(q, k - 1)' = StateOf(q, k - 1)
          /\ input' = input
      BY <3>1, <1>1, <1>10 DEF RowsOf
    <3>3. QED
      BY <3>2, Zenon DEF BatchOn
  <2>2. ASSUME NEW k \in 1 .. n
        PROVE  /\ versions'[q][k] = BatchOn(q, k, StateOf(q, k - 1))
               /\ versions'[q][k].seen \subseteq 1 .. EndOf(q, k)
               /\ \A c \in versions'[q][k].counted : c.row \in versions'[q][k].seen
    <3>1. CASE k = n
      <4> HIDE DEF version
      <4> QED BY <3>1, <1>5, <1>6 DEF version
    <3>2. CASE k # n
      <4>1. k \in 1 .. n - 1 /\ k \in 1 .. Len(versions[q])
        BY <3>2, <1>3
      <4>2. QED
        BY <4>1, <1>2, <1>6 DEF QueryOK, VersionsFollow
    <3>3. QED
      BY <3>1, <3>2
  <2>3. \A k \in 1 .. Len(table'[q]) : table'[q][k] = versions'[q][k].rows
    <3>1. \A k \in 1 .. Len(table[q]) : k \in 1 .. n - 1
      BY <1>3
    <3>2. QED
      BY <3>1, <1>1, <1>2, <1>6 DEF QueryOK, VersionsFollow
  <2> HIDE DEF version
  <2>4. QED
    BY <2>1, <2>2, <2>3, <1>6, <1>10 DEF VersionsFollow
<1>15. QueryOK(q)'
  BY <1>9, <1>11, <1>13, <1>14 DEF QueryOK
<1>16. QED
  BY <1>1, <1>7, <1>8, <1>15, OthersUntouched

LEMMA SkipKeeps ==
  ASSUME LakeInv, NEW q \in Queries, SkipWrite(q)
  PROVE  LakeInv'
<1>0. PICK n \in Nat : n = Len(offsets[q])
  BY LogTypes DEF LakeInv
<1>1. /\ n <= Len(table[q]) /\ pc[q] = "planned"
      /\ pc' = [pc EXCEPT ![q] = "written"]
      /\ UNCHANGED <<input, job, offsets, versions, table, commits, nextWm, faults>>
  BY <1>0, LogTypes DEF SkipWrite, Goto, Last, LakeInv
<1>2. LakeTypes /\ QueryOK(q)
  BY DEF LakeInv
<1>3. /\ Len(commits[q]) \in Nat /\ n = Len(commits[q]) + 1 /\ Len(table[q]) = n
  <2>1. /\ Len(versions[q]) \in Nat /\ Len(table[q]) \in Nat /\ Len(commits[q]) \in Nat
    BY <1>2, LogTypes
  <2>2. QED
    BY <2>1, <1>0, <1>1, <1>2 DEF QueryOK, LogsInStep
<1>4. LakeTypes'
  <2>1. pc' \in [Queries -> PC]
    BY <1>1, <1>2 DEF LakeTypes, PC
  <2>2. QED
    BY <2>1, <1>1, <1>2 DEF LakeTypes
<1>5. pc'[q] = "written" /\ \A p \in Queries \ {q} : pc'[p] = pc[p]
  BY <1>1, <1>2 DEF LakeTypes
<1>6. LogsInStep(q)'
  BY <1>1, <1>2, <1>3, <1>5 DEF QueryOK, LogsInStep
<1>7. \A k : EndOf(q, k)' = EndOf(q, k) /\ CommittedWm(q, k)' = CommittedWm(q, k)
             /\ WmOf(q, k)' = WmOf(q, k)
  BY <1>1 DEF EndOf, CommittedWm, WmOf
<1>8. EndsGrow(q)'
  BY <1>1, <1>2, <1>7 DEF QueryOK, EndsGrow
<1>9. \A w, k : JustifiedBy(w, k)' <=> JustifiedBy(w, k)
  BY <1>1 DEF JustifiedBy
<1>10. /\ nextWm[q] = CommittedWm(q, n - 1) /\ CommittedWm(q, n - 1) \in Nat
       /\ JustifiedBy(nextWm[q], EndOf(q, n))
  <2>1. nextWm[q] = CommittedWm(q, n - 1) /\ CommittedWm(q, n - 1) \in Nat
    <3>1. n - 1 = Len(commits[q]) /\ n - 1 \in 0 .. Len(commits[q])
      BY <1>3
    <3>2. CommittedWm(q, n - 1) \in Watermarks
      BY <3>1, <1>2, LogTypes
    <3>3. QED
      BY <3>1, <3>2, <1>1, <1>2, WatermarksAreNumbers DEF QueryOK, WatermarksGrow
  <2>2. CASE n - 1 = 0
    BY <2>1, <2>2 DEF CommittedWm, JustifiedBy
  <2>3. CASE n - 1 # 0
    <3>1. n - 1 \in 1 .. Len(commits[q]) /\ n \in 1 .. Len(offsets[q])
          /\ n - 1 \in 0 .. Len(offsets[q]) /\ n \in 0 .. Len(offsets[q])
      BY <2>3, <1>0, <1>3
    <3>2. JustifiedBy(CommittedWm(q, n - 1), EndOf(q, n - 1))
      BY <3>1, <1>2 DEF QueryOK, WatermarksGrow
    <3>3. EndOf(q, n - 1) <= EndOf(q, n) /\ EndOf(q, n - 1) \in Nat /\ EndOf(q, n) \in Nat
      BY <3>1, <1>2, LogTypes DEF QueryOK, EndsGrow
    <3>4. QED
      BY <2>1, <3>2, <3>3 DEF JustifiedBy
  <2>4. QED
    BY <2>1, <2>2, <2>3
<1>11. WatermarksGrow(q)'
  <2>1. n - 1 = Len(commits[q]) /\ Len(commits[q]) + 1 = n
    BY <1>3
  <2>2. QED
    BY <2>1, <1>1, <1>2, <1>5, <1>7, <1>9, <1>10 DEF QueryOK, WatermarksGrow
<1>12. VersionsFollow(q)'
  BY <1>1, <1>2, <1>7, SameVersions
<1>13. QueryOK(q)'
  BY <1>6, <1>8, <1>11, <1>12 DEF QueryOK
<1>14. QED
  BY <1>1, <1>4, <1>5, <1>13, OthersUntouched

LEMMA CommitKeeps ==
  ASSUME LakeInv, NEW q \in Queries, Commit(q)
  PROVE  LakeInv'
<1>0. PICK c \in Nat : c = Len(commits[q])
  BY LogTypes DEF LakeInv
<1>1. /\ pc[q] = "written"
      /\ pc' = [pc EXCEPT ![q] = "ready"]
      /\ commits' = [commits EXCEPT ![q] = Append(commits[q], nextWm[q])]
      /\ UNCHANGED <<input, job, offsets, versions, table, nextWm, faults>>
  BY DEF Commit, Goto
<1>2. LakeTypes /\ QueryOK(q)
  BY DEF LakeInv
<1>3. /\ commits'[q] \in Seq(Watermarks) /\ Len(commits'[q]) = c + 1
      /\ \A k \in 1 .. c : commits'[q][k] = commits[q][k]
      /\ commits'[q][c + 1] = nextWm[q]
  <2>1. /\ commits[q] \in Seq(Watermarks) /\ nextWm[q] \in Watermarks
        /\ commits'[q] = Append(commits[q], nextWm[q])
    BY <1>1, <1>2 DEF LakeTypes
  <2>2. QED
    BY <1>0, <2>1
<1>4. LakeTypes'
  <2>1. pc' \in [Queries -> PC]
    BY <1>1, <1>2 DEF LakeTypes, PC
  <2>2. commits' \in [Queries -> Seq(Watermarks)]
    BY <1>1, <1>2, <1>3 DEF LakeTypes
  <2>3. QED
    BY <2>1, <2>2, <1>1, <1>2 DEF LakeTypes
<1>5. /\ pc'[q] = "ready"
      /\ \A p \in Queries \ {q} : pc'[p] = pc[p] /\ commits'[p] = commits[p]
  BY <1>1, <1>2 DEF LakeTypes
<1>6. /\ Len(offsets[q]) \in Nat /\ Len(versions[q]) \in Nat
      /\ Len(table[q]) = c + 1 /\ Len(versions[q]) = c + 1 /\ Len(offsets[q]) = c + 1
  <2>1. /\ Len(versions[q]) \in Nat /\ Len(offsets[q]) \in Nat /\ Len(table[q]) \in Nat
    BY <1>2, LogTypes
  <2>2. QED
    BY <2>1, <1>0, <1>1, <1>2 DEF QueryOK, LogsInStep
<1>7. LogsInStep(q)'
  BY <1>1, <1>3, <1>5, <1>6 DEF LogsInStep
<1>8. /\ \A k : EndOf(q, k)' = EndOf(q, k) /\ WmOf(q, k)' = WmOf(q, k)
      /\ \A k \in 0 .. c : CommittedWm(q, k)' = CommittedWm(q, k)
      /\ CommittedWm(q, c + 1)' = nextWm[q]
  BY <1>1, <1>3 DEF EndOf, WmOf, CommittedWm
<1>9. EndsGrow(q)'
  <2>1. \A k \in 1 .. Len(offsets[q]) : k - 1 \in 0 .. c
    BY <1>6
  <2>2. QED
    BY <2>1, <1>1, <1>2, <1>8 DEF QueryOK, EndsGrow
<1>10. \A w, k : JustifiedBy(w, k)' <=> JustifiedBy(w, k)
  BY <1>1 DEF JustifiedBy
<1>11. WatermarksGrow(q)'
  <2>1. ASSUME NEW k \in 1 .. c
        PROVE  /\ CommittedWm(q, k - 1)' <= CommittedWm(q, k)'
               /\ JustifiedBy(CommittedWm(q, k), EndOf(q, k))'
    <3>1. k \in 0 .. c /\ k - 1 \in 0 .. c
      OBVIOUS
    <3>2. /\ CommittedWm(q, k - 1) <= CommittedWm(q, k)
          /\ JustifiedBy(CommittedWm(q, k), EndOf(q, k))
      BY <1>0, <1>2 DEF QueryOK, WatermarksGrow
    <3>3. QED
      BY <3>1, <3>2, <1>1, <1>8 DEF JustifiedBy
  <2>2. /\ CommittedWm(q, c)' <= CommittedWm(q, c + 1)'
        /\ JustifiedBy(CommittedWm(q, c + 1), EndOf(q, c + 1))'
    <3>1. /\ CommittedWm(q, c) <= nextWm[q]
          /\ JustifiedBy(nextWm[q], EndOf(q, c + 1))
      BY <1>0, <1>1, <1>2 DEF QueryOK, WatermarksGrow
    <3>2. c \in 0 .. c
      OBVIOUS
    <3>3. QED
      BY <3>1, <3>2, <1>1, <1>8 DEF JustifiedBy
  <2>3. \A k \in 1 .. c + 1 : k \in 1 .. c \/ k = c + 1
    OBVIOUS
  <2>4. c + 1 - 1 = c
    OBVIOUS
  <2>5. \A k \in 1 .. c + 1 : /\ CommittedWm(q, k - 1)' <= CommittedWm(q, k)'
                              /\ JustifiedBy(CommittedWm(q, k), EndOf(q, k))'
    BY <2>1, <2>2, <2>3, <2>4
  <2>6. QED
    BY <2>5, <1>1, <1>3, <1>5, <1>8 DEF WatermarksGrow
<1>12. VersionsFollow(q)'
  BY <1>1, <1>2, <1>8, SameVersions
<1>13. QueryOK(q)'
  BY <1>7, <1>9, <1>11, <1>12 DEF QueryOK
<1>14. QED
  BY <1>1, <1>4, <1>5, <1>13, OthersUntouched

LEMMA WriteKeeps ==
  ASSUME LakeInv, NEW q \in Queries, Write(q)
  PROVE  LakeInv'
<1>0. PICK n \in Nat : n = Len(offsets[q])
  BY LogTypes DEF LakeInv
<1>1. /\ pc[q] = "run"
      /\ pc' = [pc EXCEPT ![q] = "written"]
      /\ table' = [table EXCEPT ![q] = Append(table[q], versions[q][n].rows)]
      /\ nextWm' = [nextWm EXCEPT ![q] = Advance(nextWm[q], input, RowsOf(q, n))]
      /\ UNCHANGED <<input, job, offsets, versions, commits, faults>>
  BY <1>0 DEF Write, Goto, Last
<1>2. LakeTypes /\ QueryOK(q)
  BY DEF LakeInv
<1>3. /\ Len(commits[q]) \in Nat /\ n = Len(commits[q]) + 1
      /\ Len(table[q]) = n - 1 /\ Len(versions[q]) = n
  <2>1. /\ Len(versions[q]) \in Nat /\ Len(table[q]) \in Nat /\ Len(commits[q]) \in Nat
    BY <1>2, LogTypes
  <2>2. QED
    BY <2>1, <1>0, <1>1, <1>2 DEF QueryOK, LogsInStep
<1>4. /\ table'[q] \in Seq(Batches) /\ Len(table'[q]) = n
      /\ \A k \in 1 .. n - 1 : table'[q][k] = table[q][k]
      /\ table'[q][n] = versions[q][n].rows
  <2>1. versions[q] \in Seq(Versions) /\ table[q] \in Seq(Batches)
        /\ table'[q] = Append(table[q], versions[q][n].rows)
    BY <1>1, <1>2 DEF LakeTypes
  <2>2. versions[q][n] \in Versions
    BY <2>1, <1>3
  <2>3. versions[q][n].rows \in Batches
    BY <2>2 DEF Versions
  <2>4. QED
    BY <2>1, <2>3, <1>3
<1>5. /\ EndOf(q, n - 1) \in Nat /\ EndOf(q, n) \in Nat /\ EndOf(q, n) <= Len(input)
      /\ nextWm[q] = CommittedWm(q, n - 1) /\ nextWm[q] \in Nat /\ nextWm[q] \in Watermarks
      /\ input \in Seq(Records)
  <2>1. n \in 1 .. Len(offsets[q]) /\ n \in 0 .. Len(offsets[q]) /\ n - 1 \in 0 .. Len(offsets[q])
    BY <1>0, <1>3
  <2>2. EndOf(q, n - 1) \in Nat /\ EndOf(q, n) \in Nat /\ EndOf(q, n) <= Len(input)
    BY <2>1, <1>2, LogTypes DEF QueryOK, EndsGrow
  <2>3. Len(commits[q]) = n - 1
    BY <1>3
  <2>4. nextWm[q] = CommittedWm(q, n - 1)
    BY <2>3, <1>1, <1>2 DEF QueryOK, WatermarksGrow
  <2>5. nextWm[q] \in Nat /\ nextWm[q] \in Watermarks
    BY <1>2, LogTypes, WatermarksAreNumbers
  <2>6. QED
    BY <2>2, <2>4, <2>5, <1>2 DEF LakeTypes
<1>6. RowsOf(q, n) \in SUBSET (1 .. Len(input)) /\ RowsOf(q, n) \subseteq 1 .. EndOf(q, n)
  BY <1>5 DEF RowsOf, LakeTypes
<1> DEFINE w == Advance(nextWm[q], input, RowsOf(q, n))
<1>7. /\ w \in {nextWm[q]} \cup {Minus(input[o].time, Delay) : o \in RowsOf(q, n)}
      /\ w \in Nat /\ nextWm[q] <= w
  BY <1>5, <1>6, AdvanceIsLatest
<1>8. w \in Watermarks
  <2>1. \A o \in RowsOf(q, n) : Minus(input[o].time, Delay) \in Watermarks
    BY <1>5, <1>6, JustifiedTypes
  <2> HIDE DEF w
  <2>2. QED
    BY <2>1, <1>5, <1>7
<1>9. JustifiedBy(w, EndOf(q, n))
  <2> HIDE DEF w
  <2>1. CASE w = nextWm[q]
    <3>1. CASE n - 1 = 0
      BY <3>1, <2>1, <1>5 DEF CommittedWm, JustifiedBy
    <3>2. CASE n - 1 # 0
      <4>1. n - 1 \in 1 .. Len(commits[q]) /\ n \in 1 .. Len(offsets[q])
        BY <3>2, <1>0, <1>3
      <4>2. JustifiedBy(CommittedWm(q, n - 1), EndOf(q, n - 1))
        BY <4>1, <1>2 DEF QueryOK, WatermarksGrow
      <4>3. EndOf(q, n - 1) <= EndOf(q, n)
        BY <4>1, <1>2 DEF QueryOK, EndsGrow
      <4>4. QED
        BY <4>2, <4>3, <2>1, <1>5 DEF JustifiedBy
    <3>3. QED
      BY <3>1, <3>2
  <2>2. CASE \E o \in RowsOf(q, n) : w = Minus(input[o].time, Delay)
    <3>1. PICK o \in RowsOf(q, n) : w = Minus(input[o].time, Delay)
      BY <2>2
    <3>2. o \in 1 .. EndOf(q, n) /\ w <= Minus(input[o].time, Delay)
      BY <3>1, <1>6, <1>7
    <3>3. QED
      BY <3>2 DEF JustifiedBy
  <2>3. QED
    BY <2>1, <2>2, <1>7
<1>10. LakeTypes'
  <2>1. pc' \in [Queries -> PC]
    BY <1>1, <1>2 DEF LakeTypes, PC
  <2>2. table' \in [Queries -> Seq(Batches)]
    BY <1>1, <1>2, <1>4 DEF LakeTypes
  <2>3. nextWm' \in [Queries -> Watermarks]
    <3>1. nextWm' = [nextWm EXCEPT ![q] = w]
      BY <1>1
    <3> HIDE DEF w
    <3>2. QED
      BY <3>1, <1>2, <1>8 DEF LakeTypes
  <2>4. QED
    BY <2>1, <2>2, <2>3, <1>1, <1>2 DEF LakeTypes
<1>11. /\ pc'[q] = "written" /\ nextWm'[q] = w
       /\ \A p \in Queries \ {q} :
            pc'[p] = pc[p] /\ table'[p] = table[p] /\ nextWm'[p] = nextWm[p]
  BY <1>1, <1>2 DEF LakeTypes
<1>12. LogsInStep(q)'
  BY <1>0, <1>1, <1>3, <1>4, <1>11 DEF LogsInStep
<1>13. \A k : EndOf(q, k)' = EndOf(q, k) /\ CommittedWm(q, k)' = CommittedWm(q, k)
              /\ WmOf(q, k)' = WmOf(q, k) /\ StateOf(q, k)' = StateOf(q, k)
  BY <1>1 DEF EndOf, CommittedWm, WmOf, StateOf
<1>14. EndsGrow(q)'
  BY <1>1, <1>2, <1>13 DEF QueryOK, EndsGrow
<1>15. WatermarksGrow(q)'
  <2>1. \A v, k : JustifiedBy(v, k)' <=> JustifiedBy(v, k)
    BY <1>1 DEF JustifiedBy
  <2>2. n - 1 = Len(commits[q]) /\ Len(commits[q]) + 1 = n
    BY <1>3
  <2>3. CommittedWm(q, n - 1) <= nextWm'[q] /\ JustifiedBy(nextWm'[q], EndOf(q, n))
    BY <1>5, <1>7, <1>9, <1>11
  <2> HIDE DEF w
  <2>4. \A k \in 1 .. Len(commits'[q]) :
          /\ CommittedWm(q, k - 1)' <= CommittedWm(q, k)'
          /\ JustifiedBy(CommittedWm(q, k), EndOf(q, k))'
    BY <2>1, <1>1, <1>2, <1>13 DEF QueryOK, WatermarksGrow
  <2>5. /\ CommittedWm(q, Len(commits[q]))' <= nextWm'[q]
        /\ JustifiedBy(nextWm[q], EndOf(q, Len(commits[q]) + 1))'
    BY <2>1, <2>2, <2>3, <1>1, <1>13 DEF JustifiedBy
  <2>6. QED
    BY <2>4, <2>5, <1>1, <1>11 DEF WatermarksGrow
<1>16. VersionsFollow(q)'
  <2>1. \A k, base : BatchOn(q, k, base)' = BatchOn(q, k, base)
    <3> SUFFICES ASSUME NEW k, NEW base PROVE BatchOn(q, k, base)' = BatchOn(q, k, base)
      OBVIOUS
    <3>1. /\ RowsOf(q, k)' = RowsOf(q, k) /\ WmOf(q, k - 1)' = WmOf(q, k - 1)
          /\ WmOf(q, k)' = WmOf(q, k) /\ input' = input
      BY <1>1, <1>13 DEF RowsOf
    <3>2. QED
      BY <3>1, Zenon DEF BatchOn
  <2>2. \A k \in 1 .. n : table'[q][k] = versions[q][k].rows
    <3>1. \A k \in 1 .. n - 1 : table[q][k] = versions[q][k].rows
      BY <1>2, <1>3 DEF QueryOK, VersionsFollow
    <3>2. QED
      BY <3>1, <1>3, <1>4
  <2>3. QED
    BY <2>1, <2>2, <1>1, <1>2, <1>4, <1>13 DEF QueryOK, VersionsFollow
<1>17. QueryOK(q)'
  BY <1>12, <1>14, <1>15, <1>16 DEF QueryOK
<1>18. QED
  BY <1>1, <1>10, <1>11, <1>17, OthersUntouched

LEMMA LakeSteps == LakeInv /\ [Next]_vars => LakeInv'
<1> SUFFICES ASSUME LakeInv, [Next]_vars PROVE LakeInv'
  OBVIOUS
<1>1. CASE \E r \in Records : Arrive(r)
  BY <1>1, ArrivalKeeps
<1>2. CASE JobStep
  BY <1>2, JobKeeps, StartKeeps DEF JobStep
<1>3. CASE Interrupt \/ Crash \/ UNCHANGED vars
  BY <1>3, JobKeeps
<1>4. ASSUME NEW q \in Queries, QueryStep(q) \/ QueryFails(q) PROVE LakeInv'
  <2>1. CASE \E end \in EndOf(q, Last(q)) .. Len(input) : Plan(q, end)
    BY <2>1, PlanKeeps
  <2>2. CASE Run(q) \/ Write(q) \/ SkipWrite(q) \/ Commit(q)
    BY <2>2, RunKeeps, WriteKeeps, SkipKeeps, CommitKeeps
  <2>3. CASE QueryFails(q)
    BY <2>3, JobKeeps
  <2>4. QED
    BY <1>4, <2>1, <2>2, <2>3 DEF QueryStep
<1>5. QED
  BY <1>1, <1>2, <1>3, <1>4 DEF Next

(***************************************************************************)
(* The inductive invariant of the logs of both queries, whatever fails in  *)
(* whichever part of a batch (main.py, sinks.py).                          *)
(***************************************************************************)
THEOREM LakeInvariance == Spec => []LakeInv
BY LakeStarts, LakeSteps, PTL DEF Spec

LEMMA LakeInvTypes == LakeInv => TypeOK
<1> SUFFICES ASSUME LakeInv PROVE TypeOK
  OBVIOUS
<1>1. LakeTypes
  BY DEF LakeInv
<1>2. ASSUME NEW q \in Queries
      PROVE  /\ \A n \in DOMAIN offsets[q] :
                   offsets[q][n].end \in 0 .. Len(input) /\ offsets[q][n].wm \in Watermarks
             /\ \A n \in DOMAIN versions[q] :
                   /\ versions[q][n].seen \subseteq 1 .. offsets[q][n].end
                   /\ \A c \in versions[q][n].counted : c \in Count /\ c.row \in versions[q][n].seen
             /\ \A n \in DOMAIN commits[q] : commits[q][n] \in Watermarks
             /\ nextWm[q] \in Watermarks
             /\ Len(commits[q]) <= Len(table[q]) /\ Len(table[q]) <= Len(versions[q])
             /\ Len(versions[q]) <= Len(offsets[q])
             /\ Len(offsets[q]) <= Len(commits[q]) + 1
  <2>0. QueryOK(q)
    BY DEF LakeInv
  <2>1. /\ DOMAIN offsets[q] = 1 .. Len(offsets[q]) /\ DOMAIN versions[q] = 1 .. Len(versions[q])
        /\ DOMAIN commits[q] = 1 .. Len(commits[q])
        /\ Len(offsets[q]) \in Nat /\ Len(versions[q]) \in Nat /\ Len(input) \in Nat
        /\ Len(commits[q]) \in Nat
    BY <1>1 DEF LakeTypes
  <2>2. Len(versions[q]) <= Len(offsets[q])
    BY <2>0 DEF QueryOK, LogsInStep
  <2>3. \A n \in 1 .. Len(offsets[q]) :
          /\ EndOf(q, n) = offsets[q][n].end /\ WmOf(q, n) = offsets[q][n].wm
          /\ EndOf(q, n) \in Nat /\ WmOf(q, n) \in Watermarks
    <3>1. \A n \in 1 .. Len(offsets[q]) : n \in 0 .. Len(offsets[q]) /\ n # 0
      BY <2>1
    <3>2. QED
      BY <3>1, <1>1, LogTypes DEF EndOf, WmOf
  <2>4. \A n \in DOMAIN offsets[q] :
          offsets[q][n].end \in 0 .. Len(input) /\ offsets[q][n].wm \in Watermarks
    BY <2>0, <2>1, <2>3 DEF QueryOK, EndsGrow
  <2>5. \A n \in DOMAIN versions[q] :
          /\ n \in 1 .. Len(offsets[q])
          /\ versions[q][n].seen \subseteq 1 .. EndOf(q, n)
          /\ \A c \in versions[q][n].counted : c.row \in versions[q][n].seen
    BY <2>0, <2>1, <2>2 DEF QueryOK, VersionsFollow
  <2>6. \A n \in DOMAIN versions[q] : versions[q][n].counted \subseteq Count
    <3>1. \A n \in DOMAIN versions[q] : versions[q][n] \in Versions
      BY <1>1, <2>1 DEF LakeTypes
    <3>2. QED
      BY <3>1 DEF Versions
  <2>7. \A n \in DOMAIN commits[q] : commits[q][n] \in Watermarks
    BY <1>1, <2>1 DEF LakeTypes
  <2>8. QED
    BY <2>0, <2>3, <2>4, <2>5, <2>6, <2>7, <1>1 DEF QueryOK, LogsInStep, LakeTypes
<1>3. QED
  BY <1>1, <1>2 DEF TypeOK, LakeTypes

(***************************************************************************)
(* Every variable stays in its type and no log overtakes the one that is   *)
(* written before it.                                                      *)
(***************************************************************************)
THEOREM LakeTypeCorrect == Spec => []TypeOK
BY LakeInvariance, LakeInvTypes, PTL

=============================================================================
