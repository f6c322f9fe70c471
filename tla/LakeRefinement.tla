--------------------------- MODULE LakeRefinement ---------------------------
(***************************************************************************)
(* TLAPS proofs that each query of Lake implements ExactlyOnceQuery, and   *)
(* of what the tables of Lake then hold.                                   *)
(*                                                                         *)
(* A write is the abstract batch: by the invariant of LakeProofs the rows  *)
(* it adds are those of the batch run on the state that goes with the      *)
(* table, with a watermark that the events before it justify. Every other  *)
(* step, a rerun, a fault or a restart among them, leaves the table, and   *)
(* the version of the state that goes with it, as they are.                *)
(***************************************************************************)
EXTENDS LakeProofs, FiniteSetTheorems

\* The abstract state of a query: what its table stands for.
Taken(q) == EndOf(q, Len(table[q]))
TakenWm(q) == WmOf(q, Len(table[q]))

TableStays(q) ==
  /\ Taken(q)' = Taken(q) /\ TakenWm(q)' = TakenWm(q)
  /\ Now(q)' = Now(q)
  /\ table'[q] = table[q]

\* The abstract batch, in the terms of Lake.
TakesBatch(q, end, w) ==
  LET new    == Accepted(input, Taken(q) + 1 .. end, TakenWm(q), Now(q).seen)
      all    == IF q = "gold" THEN Now(q).counted \cup Counts(input, new, TakenWm(q)) ELSE {}
      closed == Closed(all, input, w)
  IN /\ TakenWm(q) <= w /\ w <= Advance(0, input, 1 .. Taken(q))
     /\ Taken(q)' = end
     /\ TakenWm(q)' = w
     /\ Now(q).seen' = Now(q).seen \cup new
     /\ Now(q).counted' = all \ closed
     /\ table'[q] = Append(table[q], IF q = "gold" THEN GoldRows(closed, input) ELSE new)
     /\ input' = input

\* Neither the table nor the part of the logs that it goes with has changed.
LEMMA TableUntouched ==
  ASSUME LakeTypes, NEW q \in Queries, table'[q] = table[q],
         Len(table[q]) <= Len(offsets[q]), Len(table[q]) <= Len(versions[q]),
         \A n \in 1 .. Len(table[q]) :
           offsets'[q][n] = offsets[q][n] /\ versions'[q][n] = versions[q][n]
  PROVE  TableStays(q)
<1>1. PICK t \in Nat : t = Len(table[q])
  BY LogTypes
<1>2. t = 0 \/ t \in 1 .. Len(table[q])
  BY <1>1
<1>3. Taken(q) = EndOf(q, t) /\ Taken(q)' = EndOf(q, t)'
  BY <1>1 DEF Taken
<1>4. TakenWm(q) = WmOf(q, t) /\ TakenWm(q)' = WmOf(q, t)'
  BY <1>1 DEF TakenWm
<1>5. Now(q) = StateOf(q, t) /\ Now(q)' = StateOf(q, t)'
  BY <1>1 DEF Now
<1>6. EndOf(q, t)' = EndOf(q, t) /\ WmOf(q, t)' = WmOf(q, t) /\ StateOf(q, t)' = StateOf(q, t)
  BY <1>1, <1>2 DEF EndOf, WmOf, StateOf
<1>7. QED
  BY <1>3, <1>4, <1>5, <1>6 DEF TableStays

LEMMA TableLength ==
  ASSUME LakeInv, NEW q \in Queries
  PROVE  /\ Len(table[q]) \in Nat /\ Len(versions[q]) \in Nat /\ Len(offsets[q]) \in Nat
         /\ Len(table[q]) <= Len(versions[q]) /\ Len(versions[q]) <= Len(offsets[q])
BY LogTypes DEF LakeInv, QueryOK, LogsInStep

LEMMA PlanStutters ==
  ASSUME LakeInv, NEW q \in Queries, NEW end \in EndOf(q, Last(q)) .. Len(input), Plan(q, end)
  PROVE  \A p \in Queries : TableStays(p)
<1>1. PICK o \in Nat : o = Len(offsets[q])
  BY TableLength
<1>2. /\ table' = table /\ versions' = versions
      /\ offsets' = [offsets EXCEPT ![q] = Append(offsets[q], [end |-> end, wm |-> nextWm[q]])]
  BY DEF Plan
<1>3. /\ \A p \in Queries \ {q} : offsets'[p] = offsets[p]
      /\ \A n \in 1 .. o : offsets'[q][n] = offsets[q][n]
  <2>1. offsets'[q] = Append(offsets[q], [end |-> end, wm |-> nextWm[q]])
    BY <1>2 DEF LakeInv, LakeTypes
  <2> DEFINE T == [end : Nat, wm : Watermarks]
  <2>2. offsets[q] \in Seq(T)
    BY DEF LakeInv, LakeTypes
  <2> HIDE DEF T
  <2>3. \A n \in 1 .. o : offsets'[q][n] = offsets[q][n]
    BY <1>1, <2>1, <2>2
  <2>4. QED
    BY <2>3, <1>2 DEF LakeInv, LakeTypes
<1>4. ASSUME NEW p \in Queries PROVE TableStays(p)
  <2>1. /\ LakeTypes /\ table'[p] = table[p]
        /\ Len(table[p]) <= Len(offsets[p]) /\ Len(table[p]) <= Len(versions[p])
    BY <1>2, TableLength DEF LakeInv
  <2>2. \A n \in 1 .. Len(table[p]) :
          offsets'[p][n] = offsets[p][n] /\ versions'[p][n] = versions[p][n]
    BY <1>1, <1>2, <1>3, TableLength
  <2>3. QED
    BY <2>1, <2>2, TableUntouched
<1>5. QED
  BY <1>4

\* A version is made again after those of the table only.
LEMMA RunStutters ==
  ASSUME LakeInv, NEW q \in Queries, Run(q)
  PROVE  \A p \in Queries : TableStays(p)
<1>1. PICK o \in Nat : o = Len(offsets[q])
  BY TableLength
<1>2. PICK version :
        /\ table' = table /\ offsets' = offsets /\ Len(table[q]) < o
        /\ pc[q] = "planned"
        /\ versions' = [versions EXCEPT ![q] = Append(SubSeq(versions[q], 1, o - 1), version)]
  BY <1>1 DEF Run, Make, Goto, Last
<1>3. /\ \A p \in Queries \ {q} : versions'[p] = versions[p]
      /\ \A n \in 1 .. Len(table[q]) : versions'[q][n] = versions[q][n]
  <2>1. /\ versions'[q] = Append(SubSeq(versions[q], 1, o - 1), version)
        /\ versions[q] \in Seq(Versions)
    BY <1>2 DEF LakeInv, LakeTypes
  <2>2. /\ Len(table[q]) \in Nat /\ Len(versions[q]) \in Nat /\ o - 1 <= Len(versions[q])
        /\ Len(table[q]) <= o - 1 /\ o - 1 \in Nat
    <3>1. Len(commits[q]) \in Nat /\ Len(commits[q]) <= Len(table[q])
          /\ Len(offsets[q]) = Len(commits[q]) + 1
      BY <1>2, LogTypes DEF LakeInv, QueryOK, LogsInStep
    <3>2. QED
      BY <3>1, <1>1, <1>2, TableLength
  <2>3. \A n \in 1 .. o - 1 : Append(SubSeq(versions[q], 1, o - 1), version)[n] = versions[q][n]
    <3>1. \A n \in 1 .. o - 1 : SubSeq(versions[q], 1, o - 1)[n] = versions[q][n]
      BY <2>1, <2>2
    <3>2. Len(SubSeq(versions[q], 1, o - 1)) = o - 1 /\ SubSeq(versions[q], 1, o - 1) \in Seq(Versions)
      BY <2>1, <2>2
    <3> HIDE DEF Versions
    <3> DEFINE s == SubSeq(versions[q], 1, o - 1)
    <3>3. s \in Seq(Versions) /\ Len(s) = o - 1
      BY <3>2
    <3> HIDE DEF s
    <3>4. \A n \in 1 .. o - 1 : Append(s, version)[n] = s[n]
      BY <3>3, <2>2
    <3>5. QED
      BY <3>1, <3>4 DEF s
  <2>4. QED
    BY <2>1, <2>2, <2>3, <1>2 DEF LakeInv, LakeTypes
<1>4. ASSUME NEW p \in Queries PROVE TableStays(p)
  <2>1. /\ LakeTypes /\ table'[p] = table[p]
        /\ Len(table[p]) <= Len(offsets[p]) /\ Len(table[p]) <= Len(versions[p])
    BY <1>2, TableLength DEF LakeInv
  <2>2. \A n \in 1 .. Len(table[p]) :
          offsets'[p][n] = offsets[p][n] /\ versions'[p][n] = versions[p][n]
    BY <1>2, <1>3
  <2>3. QED
    BY <2>1, <2>2, TableUntouched
<1>5. QED
  BY <1>4

LEMMA WriteTakesBatch ==
  ASSUME LakeInv, NEW q \in Queries, Write(q)
  PROVE  /\ \E end \in Taken(q) .. Len(input), w \in Watermarks : TakesBatch(q, end, w)
         /\ \A p \in Queries \ {q} : TableStays(p)
         /\ input' = input
<1>1. PICK n \in Nat : n = Len(offsets[q])
  BY TableLength
<1>2. /\ pc[q] = "run" /\ LakeTypes /\ QueryOK(q)
      /\ table' = [table EXCEPT ![q] = Append(table[q], versions[q][n].rows)]
      /\ UNCHANGED <<input, offsets, versions>>
  BY <1>1 DEF Write, Goto, Last, LakeInv
<1>3. /\ Len(commits[q]) \in Nat /\ n = Len(commits[q]) + 1
      /\ Len(table[q]) = n - 1 /\ Len(versions[q]) = n
  <2>1. /\ Len(commits[q]) \in Nat /\ Len(table[q]) \in Nat /\ Len(versions[q]) \in Nat
    BY <1>2, LogTypes
  <2>2. LogsInStep(q)
    BY <1>2 DEF QueryOK
  <2>3. QED
    BY <1>1, <1>2, <2>1, <2>2 DEF LogsInStep
<1>4. /\ table'[q] = Append(table[q], versions[q][n].rows) /\ Len(table'[q]) = n
      /\ \A p \in Queries \ {q} : table'[p] = table[p]
  <2>1. table[q] \in Seq(Batches) /\ table'[q] = Append(table[q], versions[q][n].rows)
    BY <1>2 DEF LakeTypes
  <2>2. versions[q][n] \in Versions
    BY <1>2, <1>3 DEF LakeTypes
  <2>3. versions[q][n].rows \in Batches
    BY <2>2 DEF Versions
  <2>4. QED
    BY <1>2, <1>3, <2>1, <2>3 DEF LakeTypes
<1>5. /\ Taken(q) = EndOf(q, n - 1) /\ TakenWm(q) = WmOf(q, n - 1) /\ Now(q) = StateOf(q, n - 1)
      /\ Taken(q)' = EndOf(q, n) /\ TakenWm(q)' = WmOf(q, n) /\ Now(q)' = StateOf(q, n)
  <2>1. EndOf(q, n)' = EndOf(q, n) /\ WmOf(q, n)' = WmOf(q, n) /\ StateOf(q, n)' = StateOf(q, n)
    BY <1>2 DEF EndOf, WmOf, StateOf
  <2>2. Taken(q) = EndOf(q, n - 1) /\ TakenWm(q) = WmOf(q, n - 1) /\ Now(q) = StateOf(q, n - 1)
    BY <1>3 DEF Taken, TakenWm, Now
  <2>3. Taken(q)' = EndOf(q, n)' /\ TakenWm(q)' = WmOf(q, n)' /\ Now(q)' = StateOf(q, n)'
    BY <1>4 DEF Taken, TakenWm, Now
  <2>4. QED
    BY <2>1, <2>2, <2>3
<1>6. n \in 1 .. Len(offsets[q]) /\ n \in 0 .. Len(offsets[q]) /\ n - 1 \in 0 .. Len(offsets[q])
  BY <1>1, <1>3
<1>7. /\ EndOf(q, n - 1) \in Nat /\ EndOf(q, n) \in Nat /\ Len(input) \in Nat
      /\ EndOf(q, n - 1) <= EndOf(q, n) /\ EndOf(q, n) <= Len(input)
      /\ WmOf(q, n) \in Watermarks /\ WmOf(q, n) = CommittedWm(q, n - 1)
  <2>1. WmOf(q, n) = CommittedWm(q, n - 1)
    BY <1>2, <1>3, <1>6 DEF QueryOK, EndsGrow, WmOf
  <2>2. QED
    BY <2>1, <1>2, <1>6, LogTypes DEF QueryOK, EndsGrow
<1>8. WmOf(q, n - 1) <= WmOf(q, n) /\ WmOf(q, n) <= Advance(0, input, 1 .. EndOf(q, n - 1))
  <2>1. WmOf(q, n) \in Nat /\ EndOf(q, n - 1) \in 0 .. Len(input) /\ input \in Seq(Records)
    <3>1. input \in Seq(Records)
      BY <1>2 DEF LakeTypes
    <3>2. WmOf(q, n) \in Nat
      BY <1>7, WatermarksAreNumbers
    <3>3. QED
      BY <3>1, <3>2, <1>7
  <2>2. CASE n - 1 = 0
    <3>1. WmOf(q, n) = 0 /\ WmOf(q, n - 1) = 0
      BY <2>2, <1>7 DEF CommittedWm, WmOf
    <3>2. QED
      BY <2>1, <3>1, AdvanceBounds
  <2>3. CASE n - 1 # 0
    <3>1. n - 1 \in 1 .. Len(commits[q]) /\ n - 1 \in 1 .. Len(offsets[q])
      BY <2>3, <1>1, <1>3
    <3>2. /\ CommittedWm(q, n - 1 - 1) <= CommittedWm(q, n - 1)
          /\ JustifiedBy(CommittedWm(q, n - 1), EndOf(q, n - 1))
      BY <3>1, <1>2 DEF QueryOK, WatermarksGrow
    <3>3. WmOf(q, n - 1) = CommittedWm(q, n - 1 - 1)
      BY <3>1, <2>3, <1>2 DEF QueryOK, EndsGrow, WmOf
    <3>4. WmOf(q, n) = 0 \/ \E p \in 1 .. EndOf(q, n - 1) : WmOf(q, n) <= Minus(input[p].time, Delay)
      BY <3>2, <1>7 DEF JustifiedBy
    <3>5. WmOf(q, n) <= Advance(0, input, 1 .. EndOf(q, n - 1))
      BY <3>4, <2>1, AdvanceBounds
    <3>6. QED
      BY <3>2, <3>3, <3>5, <1>7
  <2>4. QED
    BY <2>2, <2>3
<1>9. StateOf(q, n) = BatchOn(q, n, StateOf(q, n - 1)) /\ StateOf(q, n) = versions[q][n]
  BY <1>2, <1>3 DEF QueryOK, VersionsFollow, StateOf
<1> DEFINE new    == Accepted(input, EndOf(q, n - 1) + 1 .. EndOf(q, n), WmOf(q, n - 1),
                              StateOf(q, n - 1).seen)
           all    == IF q = "gold"
                     THEN StateOf(q, n - 1).counted \cup Counts(input, new, WmOf(q, n - 1)) ELSE {}
           closed == Closed(all, input, WmOf(q, n))
           rows   == IF q = "gold" THEN GoldRows(closed, input) ELSE new
<1>10. /\ StateOf(q, n).seen = StateOf(q, n - 1).seen \cup new
       /\ StateOf(q, n).counted = all \ closed
       /\ versions[q][n].rows = rows
  <2>1. BatchOn(q, n, StateOf(q, n - 1))
          = [seen |-> StateOf(q, n - 1).seen \cup new, counted |-> all \ closed, rows |-> rows]
    BY DEF BatchOn, RowsOf
  <2> HIDE DEF new, all, closed, rows
  <2>2. QED
    BY <2>1, <1>9
<1>11. TakesBatch(q, EndOf(q, n), WmOf(q, n))
  <2>1. /\ Now(q).seen' = StateOf(q, n - 1).seen \cup new
        /\ Now(q).counted' = all \ closed
        /\ table'[q] = Append(table[q], rows)
    <3> HIDE DEF new, all, closed, rows
    <3> QED BY <1>4, <1>5, <1>10
  <2>2. QED
    BY <2>1, <1>2, <1>5, <1>8, Zenon DEF TakesBatch
<1>12. EndOf(q, n) \in Taken(q) .. Len(input)
  BY <1>5, <1>7
<1>13. ASSUME NEW p \in Queries \ {q} PROVE TableStays(p)
  BY <1>2, <1>4, TableLength, TableUntouched
<1>14. QED
  BY <1>2, <1>7, <1>11, <1>12, <1>13

\* What a step does to the abstract state of a query.
LEMMA StepMaps ==
  ASSUME LakeInv, [Next]_vars, NEW q \in Queries
  PROVE  \/ \E r \in Records : input' = Append(input, r) /\ TableStays(q)
         \/ \E end \in Taken(q) .. Len(input), w \in Watermarks : TakesBatch(q, end, w)
         \/ input' = input /\ TableStays(q)
<1>1. ASSUME UNCHANGED <<offsets, versions, table>> PROVE TableStays(q)
  BY <1>1, TableLength, TableUntouched DEF LakeInv
<1>2. CASE \E r \in Records : Arrive(r)
  BY <1>1, <1>2 DEF Arrive
<1>3. CASE \/ StartJob \/ Await \/ AnyTermination \/ EndJob \/ Interrupt \/ Crash
           \/ \E p \in Queries : StartQuery(p) \/ StopQuery(p) \/ QueryFails(p)
           \/ UNCHANGED vars
  BY <1>1, <1>3 DEF StartJob, Await, AnyTermination, EndJob, Interrupt, Crash, StartQuery,
                    StopQuery, QueryFails, vars
<1>4. ASSUME NEW p \in Queries, QueryStep(p)
      PROVE  \/ \E end \in Taken(q) .. Len(input), w \in Watermarks : TakesBatch(q, end, w)
             \/ input' = input /\ TableStays(q)
  <2>1. CASE \E end \in EndOf(p, Last(p)) .. Len(input) : Plan(p, end)
    <3>1. input' = input
      BY <2>1 DEF Plan
    <3>2. QED
      BY <2>1, <3>1, PlanStutters
  <2>2. CASE Run(p)
    <3>1. input' = input
      BY <2>2 DEF Run, Make
    <3>2. QED
      BY <2>2, <3>1, RunStutters
  <2>3. CASE Write(p)
    BY <2>3, WriteTakesBatch
  <2>4. CASE SkipWrite(p) \/ Commit(p)
    BY <1>1, <2>4 DEF SkipWrite, Commit
  <2>5. QED
    BY <1>4, <2>1, <2>2, <2>3, <2>4 DEF QueryStep
<1>5. QED
  BY <1>2, <1>3, <1>4 DEF Next, JobStep

-----------------------------------------------------------------------------
(* Silver *)

SilverQuery == INSTANCE QueryProofs WITH
  Kind <- "silver", table <- table["silver"],
  done <- EndOf("silver", Len(table["silver"])), wm <- WmOf("silver", Len(table["silver"])),
  seen <- Now("silver").seen, counted <- Now("silver").counted

\* The operators of EventTime mean the same in the abstract query.
LEMMA SilverWatermarksSame ==
  /\ \A a, b : Silver!Minus(a, b) = Minus(a, b)
  /\ Silver!Watermarks = Watermarks
  /\ \A t, w : Silver!Late(t, w) <=> Late(t, w)
  /\ \A w, i, rows : Silver!Advance(w, i, rows) = Advance(w, i, rows)
  /\ \A i, rows, w, s : Silver!Accepted(i, rows, w, s) = Accepted(i, rows, w, s)
<1>1. \A a, b : Silver!Minus(a, b) = Minus(a, b)
  BY DEF Silver!Minus, Minus
<1>2. Silver!Watermarks = Watermarks
  BY <1>1 DEF Silver!Watermarks, Watermarks
<1>3. \A t, w : Silver!Late(t, w) <=> Late(t, w)
  BY DEF Silver!Late, Late
<1>4. ASSUME NEW w, NEW i, NEW rows PROVE Silver!Advance(w, i, rows) = Advance(w, i, rows)
  <2>1. {w} \cup {Silver!Minus(i[o].time, Delay) : o \in rows}
          = {w} \cup {Minus(i[o].time, Delay) : o \in rows}
    BY <1>1
  <2>2. QED
    BY <2>1, Zenon DEF Silver!Advance, Advance
<1>5. \A i, rows, w, s : Silver!Accepted(i, rows, w, s) = Accepted(i, rows, w, s)
  BY <1>3 DEF Silver!Accepted, Accepted
<1>6. QED
  BY <1>1, <1>2, <1>3, <1>4, <1>5

LEMMA SilverQueryWatermarksSame ==
  /\ \A a, b : SilverQuery!Minus(a, b) = Minus(a, b)
  /\ SilverQuery!Watermarks = Watermarks
  /\ \A t, w : SilverQuery!Late(t, w) <=> Late(t, w)
  /\ \A w, i, rows : SilverQuery!Advance(w, i, rows) = Advance(w, i, rows)
  /\ \A i, rows, w, s : SilverQuery!Accepted(i, rows, w, s) = Accepted(i, rows, w, s)
<1>1. \A a, b : SilverQuery!Minus(a, b) = Minus(a, b)
  BY DEF SilverQuery!Minus, Minus
<1>2. SilverQuery!Watermarks = Watermarks
  BY <1>1 DEF SilverQuery!Watermarks, Watermarks
<1>3. \A t, w : SilverQuery!Late(t, w) <=> Late(t, w)
  BY DEF SilverQuery!Late, Late
<1>4. ASSUME NEW w, NEW i, NEW rows PROVE SilverQuery!Advance(w, i, rows) = Advance(w, i, rows)
  <2>1. {w} \cup {SilverQuery!Minus(i[o].time, Delay) : o \in rows}
          = {w} \cup {Minus(i[o].time, Delay) : o \in rows}
    BY <1>1
  <2>2. QED
    BY <2>1, Zenon DEF SilverQuery!Advance, Advance
<1>5. \A i, rows, w, s : SilverQuery!Accepted(i, rows, w, s) = Accepted(i, rows, w, s)
  BY <1>3 DEF SilverQuery!Accepted, Accepted
<1>6. QED
  BY <1>1, <1>2, <1>3, <1>4, <1>5

LEMMA SilverTakes ==
  ASSUME NEW end, NEW w, TakesBatch("silver", end, w)
  PROVE  Silver!Batch(end, w)
<1> DEFINE q   == "silver"
           new == Accepted(input, Taken(q) + 1 .. end, TakenWm(q), Now(q).seen)
<1>1. \A x, y : Closed({}, x, y) = {} /\ Silver!Closed({}, x, y) = {}
  BY DEF Closed, Silver!Closed
<1>2. /\ TakenWm(q) <= w /\ w <= Advance(0, input, 1 .. Taken(q))
      /\ Taken(q)' = end /\ TakenWm(q)' = w
      /\ Now(q).seen' = Now(q).seen \cup new
      /\ Now(q).counted' = {}
      /\ table'[q] = Append(table[q], new)
      /\ input' = input
  BY <1>1 DEF TakesBatch
<1>3. /\ Silver!Accepted(input, Taken(q) + 1 .. end, TakenWm(q), Now(q).seen) = new
      /\ Silver!Advance(0, input, 1 .. Taken(q)) = Advance(0, input, 1 .. Taken(q))
  BY SilverWatermarksSame
<1> HIDE DEF new
<1>4. QED
  BY <1>1, <1>2, <1>3 DEF Silver!Batch, Taken, TakenWm

LEMMA SilverSteps ==
  ASSUME "silver" \in Queries, LakeInv, [Next]_vars
  PROVE  [Silver!Next]_(Silver!vars)
<1> DEFINE q == "silver"
<1>1. CASE \E r \in Records : input' = Append(input, r) /\ TableStays(q)
  <2>1. PICK r \in Records : input' = Append(input, r) /\ TableStays(q)
    BY <1>1
  <2>2. Silver!Arrive(r)
    BY <2>1 DEF Silver!Arrive, TableStays, Taken, TakenWm
  <2>3. QED
    BY <2>2 DEF Silver!Next
<1>2. CASE \E end \in Taken(q) .. Len(input), w \in Watermarks : TakesBatch(q, end, w)
  <2>1. PICK end \in Taken(q) .. Len(input), w \in Watermarks : TakesBatch(q, end, w)
    BY <1>2
  <2>2. Silver!Batch(end, w) /\ w \in Silver!Watermarks
    BY <2>1, SilverTakes, SilverWatermarksSame
  <2>3. QED
    BY <2>1, <2>2 DEF Silver!Next, Taken
<1>3. CASE input' = input /\ TableStays(q)
  BY <1>3 DEF Silver!vars, TableStays, Taken, TakenWm
<1>4. QED
  BY <1>1, <1>2, <1>3, StepMaps

LEMMA SilverStarts == "silver" \in Queries /\ Init => Silver!Init
<1> SUFFICES ASSUME "silver" \in Queries, Init PROVE Silver!Init
  OBVIOUS
<1>1. table["silver"] = << >> /\ Len(table["silver"]) = 0 /\ input = << >>
  BY DEF Init
<1>2. QED
  BY <1>1 DEF Silver!Init, EndOf, WmOf, StateOf, Now

LEMMA SilverQueryTakes ==
  ASSUME NEW end, NEW w, TakesBatch("silver", end, w)
  PROVE  SilverQuery!Batch(end, w)
<1> DEFINE q   == "silver"
           new == Accepted(input, Taken(q) + 1 .. end, TakenWm(q), Now(q).seen)
<1>1. \A x, y : Closed({}, x, y) = {} /\ SilverQuery!Closed({}, x, y) = {}
  BY DEF Closed, SilverQuery!Closed
<1>2. /\ TakenWm(q) <= w /\ w <= Advance(0, input, 1 .. Taken(q))
      /\ Taken(q)' = end /\ TakenWm(q)' = w
      /\ Now(q).seen' = Now(q).seen \cup new
      /\ Now(q).counted' = {}
      /\ table'[q] = Append(table[q], new)
      /\ input' = input
  BY <1>1 DEF TakesBatch
<1>3. /\ SilverQuery!Accepted(input, Taken(q) + 1 .. end, TakenWm(q), Now(q).seen) = new
      /\ SilverQuery!Advance(0, input, 1 .. Taken(q)) = Advance(0, input, 1 .. Taken(q))
  BY SilverQueryWatermarksSame
<1> HIDE DEF new
<1>4. QED
  BY <1>1, <1>2, <1>3 DEF SilverQuery!Batch, Taken, TakenWm

LEMMA SilverQuerySteps ==
  ASSUME "silver" \in Queries, LakeInv, [Next]_vars
  PROVE  [SilverQuery!Next]_(SilverQuery!vars)
<1> DEFINE q == "silver"
<1>1. CASE \E r \in Records : input' = Append(input, r) /\ TableStays(q)
  <2>1. PICK r \in Records : input' = Append(input, r) /\ TableStays(q)
    BY <1>1
  <2>2. SilverQuery!Arrive(r)
    BY <2>1 DEF SilverQuery!Arrive, TableStays, Taken, TakenWm
  <2>3. QED
    BY <2>2 DEF SilverQuery!Next
<1>2. CASE \E end \in Taken(q) .. Len(input), w \in Watermarks : TakesBatch(q, end, w)
  <2>1. PICK end \in Taken(q) .. Len(input), w \in Watermarks : TakesBatch(q, end, w)
    BY <1>2
  <2>2. SilverQuery!Batch(end, w) /\ w \in SilverQuery!Watermarks
    BY <2>1, SilverQueryTakes, SilverQueryWatermarksSame
  <2>3. QED
    BY <2>1, <2>2 DEF SilverQuery!Next, Taken
<1>3. CASE input' = input /\ TableStays(q)
  BY <1>3 DEF SilverQuery!vars, TableStays, Taken, TakenWm
<1>4. QED
  BY <1>1, <1>2, <1>3, StepMaps

LEMMA SilverQueryStarts == "silver" \in Queries /\ Init => SilverQuery!Init
<1> SUFFICES ASSUME "silver" \in Queries, Init PROVE SilverQuery!Init
  OBVIOUS
<1>1. table["silver"] = << >> /\ Len(table["silver"]) = 0 /\ input = << >>
  BY DEF Init
<1>2. QED
  BY <1>1 DEF SilverQuery!Init, EndOf, WmOf, StateOf, Now

(***************************************************************************)
(* Silver's query, with its checkpoint, faults and reruns, does what a     *)
(* query without failures does (main.py, start_silver_parquet_query).      *)
(***************************************************************************)
THEOREM SilverRefines == "silver" \in Queries => (Spec => SilverExactlyOnce)
<1>1. ASSUME "silver" \in Queries PROVE Spec => SilverExactlyOnce
  BY <1>1, SilverStarts, SilverSteps, LakeInvariance, PTL
     DEF Spec, SilverExactlyOnce, Silver!Spec
<1>2. QED
  BY <1>1

LEMMA SilverQueryHolds ==
  "silver" \in Queries => (Spec => [](SilverQuery!QueryInv))
<1>1. ASSUME "silver" \in Queries PROVE Spec => SilverQuery!Spec
  BY <1>1, SilverQueryStarts, SilverQuerySteps, LakeInvariance, PTL DEF Spec, SilverQuery!Spec
<1>2. SilverQuery!Spec => [](SilverQuery!QueryInv)
  BY SilverQuery!QueryInvariance, EventTimeAssumption DEF SilverQuery!EventTimeAssumption
<1>3. ASSUME "silver" \in Queries PROVE Spec => [](SilverQuery!QueryInv)
  BY <1>1, <1>2, <1>3, PTL
<1>4. QED
  BY <1>3

LEMMA SilverRowsDistinct ==
  ASSUME "silver" \in Queries, SilverQuery!QueryInv, LakeInv
  PROVE  SilverOneRowPerTransaction
<1> DEFINE q == "silver"
<1>1. DOMAIN table[q] = 1 .. Len(table[q])
  BY DEF LakeInv, LakeTypes
<1>2. /\ \A n \in DOMAIN table[q] : table[q][n] \subseteq Now(q).seen
      /\ \A n, m \in DOMAIN table[q] : \A o \in table[q][n] : o \in table[q][m] => n = m
      /\ \A o, p \in Now(q).seen : input[o].id = input[p].id => o = p
  BY <1>1 DEF SilverQuery!QueryInv, SilverQuery!SeenOnce, SilverQuery!SeenIsWritten,
              SilverQuery!Written
<1>3. ASSUME NEW x \in InTable(q), NEW y \in InTable(q), input[x[2]].id = input[y[2]].id
      PROVE  x = y
  <2>1. PICK n \in DOMAIN table[q] : \E o \in table[q][n] : x = <<n, o>>
    BY DEF InTable
  <2>2. PICK o \in table[q][n] : x = <<n, o>>
    BY <2>1
  <2>3. PICK m \in DOMAIN table[q] : \E p \in table[q][m] : y = <<m, p>>
    BY DEF InTable
  <2>4. PICK p \in table[q][m] : y = <<m, p>>
    BY <2>3
  <2>5. o = p
    BY <2>2, <2>4, <1>2, <1>3
  <2>6. QED
    BY <2>2, <2>4, <2>5, <1>2
<1>4. QED
  BY <1>3 DEF SilverOneRowPerTransaction

(***************************************************************************)
(* Silver has one row per transaction, whatever copies arrive and wherever *)
(* the job fails in a batch (prepare_events, start_silver_parquet_query).  *)
(***************************************************************************)
THEOREM SilverRowsUnique == Spec => []SilverOneRowPerTransaction
<1>1. CASE "silver" \in Queries
  BY <1>1, SilverQueryHolds, LakeInvariance, SilverRowsDistinct, PTL
<1>2. CASE "silver" \notin Queries
  <2>1. SilverOneRowPerTransaction
    BY <1>2 DEF SilverOneRowPerTransaction
  <2>2. QED
    BY <2>1, PTL
<1>3. QED
  BY <1>1, <1>2

-----------------------------------------------------------------------------
(* Gold *)

GoldQuery == INSTANCE QueryProofs WITH
  Kind <- "gold", table <- table["gold"],
  done <- EndOf("gold", Len(table["gold"])), wm <- WmOf("gold", Len(table["gold"])),
  seen <- Now("gold").seen, counted <- Now("gold").counted

LEMMA GoldWatermarksSame ==
  /\ \A a, b : Gold!Minus(a, b) = Minus(a, b)
  /\ Gold!Watermarks = Watermarks
  /\ \A t, w : Gold!Late(t, w) <=> Late(t, w)
  /\ \A w, i, rows : Gold!Advance(w, i, rows) = Advance(w, i, rows)
  /\ \A i, rows, w, s : Gold!Accepted(i, rows, w, s) = Accepted(i, rows, w, s)
<1>1. \A a, b : Gold!Minus(a, b) = Minus(a, b)
  BY DEF Gold!Minus, Minus
<1>2. Gold!Watermarks = Watermarks
  BY <1>1 DEF Gold!Watermarks, Watermarks
<1>3. \A t, w : Gold!Late(t, w) <=> Late(t, w)
  BY DEF Gold!Late, Late
<1>4. ASSUME NEW w, NEW i, NEW rows PROVE Gold!Advance(w, i, rows) = Advance(w, i, rows)
  <2>1. {w} \cup {Gold!Minus(i[o].time, Delay) : o \in rows}
          = {w} \cup {Minus(i[o].time, Delay) : o \in rows}
    BY <1>1
  <2>2. QED
    BY <2>1, Zenon DEF Gold!Advance, Advance
<1>5. \A i, rows, w, s : Gold!Accepted(i, rows, w, s) = Accepted(i, rows, w, s)
  BY <1>3 DEF Gold!Accepted, Accepted
<1>6. QED
  BY <1>1, <1>2, <1>3, <1>4, <1>5

LEMMA GoldWindowsSame ==
  /\ \A i, c : Gold!Window(i, c) = Window(i, c)
  /\ \A i, rows, w : Gold!Counts(i, rows, w) = Counts(i, rows, w)
  /\ \A counted, i, w : Gold!Closed(counted, i, w) = Closed(counted, i, w)
  /\ Gold!Count = Count
<1>1. \A i, c : Gold!Window(i, c) = Window(i, c)
  BY DEF Gold!Window, Window
<1>2. \A i, rows, w : Gold!Counts(i, rows, w) = Counts(i, rows, w)
  BY <1>1, GoldWatermarksSame DEF Gold!Counts, Counts
<1>3. \A counted, i, w : Gold!Closed(counted, i, w) = Closed(counted, i, w)
  BY <1>1, GoldWatermarksSame DEF Gold!Closed, Closed
<1>4. Gold!Count = Count
  BY DEF Gold!Count, Count
<1>5. QED
  BY <1>1, <1>2, <1>3, <1>4

LEMMA GoldRowsSame == \A closed, i : Gold!GoldRows(closed, i) = GoldRows(closed, i)
<1>1. \A S : Gold!Cardinality(S) = Cardinality(S)
  BY Zenon DEF Gold!Cardinality, Cardinality
<1>2. \A g : Gold!SumFunction(g) = SumFunction(g)
  BY Zenon DEF Gold!SumFunction, SumFunction, Gold!SumFunctionOnSet, SumFunctionOnSet,
               Gold!FoldFunctionOnSet, FoldFunctionOnSet, Gold!MapThenFoldSet, MapThenFoldSet
<1>3. \A i, rows : Gold!AmountSum(i, rows) = AmountSum(i, rows)
  BY <1>2, Zenon DEF Gold!AmountSum, AmountSum
<1>4. \A i, rows : Gold!Locations(i, rows) = Locations(i, rows)
  <2>1. \A n : Gold!Rounded(n) = Rounded(n)
    BY Zenon DEF Gold!Rounded, Rounded
  <2>2. \A r : Gold!Cells(r) = Cells(r)
    BY <2>1 DEF Gold!Cells, Cells
  <2>3. QED
    BY <2>2 DEF Gold!Locations, Locations
<1>5. \A i, rows : Gold!FarApart(i, rows) <=> FarApart(i, rows)
  <2>1. \A S : Gold!Limits(S) = Limits(S)
    BY DEF Gold!Limits, Limits
  <2>2. QED
    BY <2>1 DEF Gold!FarApart, FarApart
<1>6. \A r : Gold!IsHighAmount(r) <=> IsHighAmount(r)
  BY DEF Gold!IsHighAmount, IsHighAmount
<1>7. ASSUME NEW i, NEW rows PROVE Gold!Aggregates(i, rows) = Aggregates(i, rows)
  <2>1. {o \in rows : Gold!IsHighAmount(i[o])} = {o \in rows : IsHighAmount(i[o])}
    BY <1>6
  <2>2. QED
    BY <2>1, <1>1, <1>3, <1>4, Zenon DEF Gold!Aggregates, Aggregates
<1>8. ASSUME NEW i, NEW rows, NEW agg
      PROVE  Gold!WindowSignals(i, rows, agg) = WindowSignals(i, rows, agg)
  <2>1. Gold!FarApart(i, rows) <=> FarApart(i, rows)
    BY <1>5
  <2>2. QED
    BY <2>1 DEF Gold!WindowSignals, WindowSignals
<1>9. ASSUME NEW closed, NEW i PROVE Gold!GoldRows(closed, i) = GoldRows(closed, i)
  <2> DEFINE rows(w)  == {c.row : c \in {d \in closed : Window(i, d) = w}}
             Row(w)   == [window |-> w, rows |-> rows(w), aggregates |-> Aggregates(i, rows(w)),
                          signals |-> WindowSignals(i, rows(w), Aggregates(i, rows(w)))]
             rowsX(w) == {c.row : c \in {d \in closed : Gold!Window(i, d) = w}}
             RowX(w)  == [window |-> w, rows |-> rowsX(w),
                          aggregates |-> Gold!Aggregates(i, rowsX(w)),
                          signals |-> Gold!WindowSignals(i, rowsX(w), Gold!Aggregates(i, rowsX(w)))]
  <2>1. Gold!GoldRows(closed, i) = {RowX(w) : w \in {Gold!Window(i, c) : c \in closed}}
    BY DEF Gold!GoldRows
  <2>2. GoldRows(closed, i) = {Row(w) : w \in {Window(i, c) : c \in closed}}
    BY DEF GoldRows
  <2>3. {Gold!Window(i, c) : c \in closed} = {Window(i, c) : c \in closed}
    BY GoldWindowsSame
  <2>4. \A w : rowsX(w) = rows(w)
    BY GoldWindowsSame
  <2>5. ASSUME NEW w PROVE RowX(w) = Row(w)
    <3> HIDE DEF rows, rowsX
    <3> QED BY <2>4, <1>7, <1>8
  <2> HIDE DEF Row, RowX
  <2>6. QED
    BY <2>1, <2>2, <2>3, <2>5
<1>10. QED
  BY <1>9

LEMMA GoldQueryWatermarksSame ==
  /\ \A a, b : GoldQuery!Minus(a, b) = Minus(a, b)
  /\ GoldQuery!Watermarks = Watermarks
  /\ \A t, w : GoldQuery!Late(t, w) <=> Late(t, w)
  /\ \A w, i, rows : GoldQuery!Advance(w, i, rows) = Advance(w, i, rows)
  /\ \A i, rows, w, s : GoldQuery!Accepted(i, rows, w, s) = Accepted(i, rows, w, s)
<1>1. \A a, b : GoldQuery!Minus(a, b) = Minus(a, b)
  BY DEF GoldQuery!Minus, Minus
<1>2. GoldQuery!Watermarks = Watermarks
  BY <1>1 DEF GoldQuery!Watermarks, Watermarks
<1>3. \A t, w : GoldQuery!Late(t, w) <=> Late(t, w)
  BY DEF GoldQuery!Late, Late
<1>4. ASSUME NEW w, NEW i, NEW rows PROVE GoldQuery!Advance(w, i, rows) = Advance(w, i, rows)
  <2>1. {w} \cup {GoldQuery!Minus(i[o].time, Delay) : o \in rows}
          = {w} \cup {Minus(i[o].time, Delay) : o \in rows}
    BY <1>1
  <2>2. QED
    BY <2>1, Zenon DEF GoldQuery!Advance, Advance
<1>5. \A i, rows, w, s : GoldQuery!Accepted(i, rows, w, s) = Accepted(i, rows, w, s)
  BY <1>3 DEF GoldQuery!Accepted, Accepted
<1>6. QED
  BY <1>1, <1>2, <1>3, <1>4, <1>5

LEMMA GoldQueryWindowsSame ==
  /\ \A i, c : GoldQuery!Window(i, c) = Window(i, c)
  /\ \A i, rows, w : GoldQuery!Counts(i, rows, w) = Counts(i, rows, w)
  /\ \A counted, i, w : GoldQuery!Closed(counted, i, w) = Closed(counted, i, w)
  /\ GoldQuery!Count = Count
<1>1. \A i, c : GoldQuery!Window(i, c) = Window(i, c)
  BY DEF GoldQuery!Window, Window
<1>2. \A i, rows, w : GoldQuery!Counts(i, rows, w) = Counts(i, rows, w)
  BY <1>1, GoldQueryWatermarksSame DEF GoldQuery!Counts, Counts
<1>3. \A counted, i, w : GoldQuery!Closed(counted, i, w) = Closed(counted, i, w)
  BY <1>1, GoldQueryWatermarksSame DEF GoldQuery!Closed, Closed
<1>4. GoldQuery!Count = Count
  BY DEF GoldQuery!Count, Count
<1>5. QED
  BY <1>1, <1>2, <1>3, <1>4

LEMMA GoldQueryAggregatesSame ==
  /\ \A i, rows : GoldQuery!Aggregates(i, rows) = Aggregates(i, rows)
  /\ \A i, rows, agg : GoldQuery!WindowSignals(i, rows, agg) = WindowSignals(i, rows, agg)
<1>1. \A S : GoldQuery!Cardinality(S) = Cardinality(S)
  BY Zenon DEF GoldQuery!Cardinality, Cardinality
<1>2. \A g : GoldQuery!SumFunction(g) = SumFunction(g)
  BY Zenon DEF GoldQuery!SumFunction, SumFunction, GoldQuery!SumFunctionOnSet, SumFunctionOnSet,
               GoldQuery!FoldFunctionOnSet, FoldFunctionOnSet, GoldQuery!MapThenFoldSet, MapThenFoldSet
<1>3. \A i, rows : GoldQuery!AmountSum(i, rows) = AmountSum(i, rows)
  BY <1>2, Zenon DEF GoldQuery!AmountSum, AmountSum
<1>4. \A i, rows : GoldQuery!Locations(i, rows) = Locations(i, rows)
  <2>1. \A n : GoldQuery!Rounded(n) = Rounded(n)
    BY Zenon DEF GoldQuery!Rounded, Rounded
  <2>2. \A r : GoldQuery!Cells(r) = Cells(r)
    BY <2>1 DEF GoldQuery!Cells, Cells
  <2>3. QED
    BY <2>2 DEF GoldQuery!Locations, Locations
<1>5. \A i, rows : GoldQuery!FarApart(i, rows) <=> FarApart(i, rows)
  <2>1. \A S : GoldQuery!Limits(S) = Limits(S)
    BY DEF GoldQuery!Limits, Limits
  <2>2. QED
    BY <2>1 DEF GoldQuery!FarApart, FarApart
<1>6. \A r : GoldQuery!IsHighAmount(r) <=> IsHighAmount(r)
  BY DEF GoldQuery!IsHighAmount, IsHighAmount
<1>7. ASSUME NEW i, NEW rows PROVE GoldQuery!Aggregates(i, rows) = Aggregates(i, rows)
  <2>1. {o \in rows : GoldQuery!IsHighAmount(i[o])} = {o \in rows : IsHighAmount(i[o])}
    BY <1>6
  <2>2. QED
    BY <2>1, <1>1, <1>3, <1>4, Zenon DEF GoldQuery!Aggregates, Aggregates
<1>8. ASSUME NEW i, NEW rows, NEW agg
      PROVE  GoldQuery!WindowSignals(i, rows, agg) = WindowSignals(i, rows, agg)
  <2>1. GoldQuery!FarApart(i, rows) <=> FarApart(i, rows)
    BY <1>5
  <2>2. QED
    BY <2>1 DEF GoldQuery!WindowSignals, WindowSignals
<1>9. QED
  BY <1>7, <1>8

LEMMA GoldQueryRowsSame == \A closed, i : GoldQuery!GoldRows(closed, i) = GoldRows(closed, i)
<1>1. ASSUME NEW closed, NEW i PROVE GoldQuery!GoldRows(closed, i) = GoldRows(closed, i)
  <2> DEFINE rows(w)  == {c.row : c \in {d \in closed : Window(i, d) = w}}
             Row(w)   == [window |-> w, rows |-> rows(w), aggregates |-> Aggregates(i, rows(w)),
                          signals |-> WindowSignals(i, rows(w), Aggregates(i, rows(w)))]
             rowsX(w) == {c.row : c \in {d \in closed : GoldQuery!Window(i, d) = w}}
             RowX(w)  == [window |-> w, rows |-> rowsX(w),
                          aggregates |-> GoldQuery!Aggregates(i, rowsX(w)),
                          signals |-> GoldQuery!WindowSignals(i, rowsX(w), GoldQuery!Aggregates(i, rowsX(w)))]
  <2>1. GoldQuery!GoldRows(closed, i) = {RowX(w) : w \in {GoldQuery!Window(i, c) : c \in closed}}
    BY DEF GoldQuery!GoldRows
  <2>2. GoldRows(closed, i) = {Row(w) : w \in {Window(i, c) : c \in closed}}
    BY DEF GoldRows
  <2>3. {GoldQuery!Window(i, c) : c \in closed} = {Window(i, c) : c \in closed}
    BY GoldQueryWindowsSame
  <2>4. \A w : rowsX(w) = rows(w)
    BY GoldQueryWindowsSame
  <2>5. ASSUME NEW w PROVE RowX(w) = Row(w)
    <3> HIDE DEF rows, rowsX
    <3> QED BY <2>4, GoldQueryAggregatesSame
  <2> HIDE DEF Row, RowX
  <2>6. QED
    BY <2>1, <2>2, <2>3, <2>5
<1>2. QED
  BY <1>1

LEMMA GoldTakes ==
  ASSUME NEW end, NEW w, TakesBatch("gold", end, w)
  PROVE  Gold!Batch(end, w)
<1> DEFINE q      == "gold"
           new    == Accepted(input, Taken(q) + 1 .. end, TakenWm(q), Now(q).seen)
           all    == Now(q).counted \cup Counts(input, new, TakenWm(q))
           closed == Closed(all, input, w)
<1>1. /\ TakenWm(q) <= w /\ w <= Advance(0, input, 1 .. Taken(q))
      /\ Taken(q)' = end /\ TakenWm(q)' = w
      /\ Now(q).seen' = Now(q).seen \cup new
      /\ Now(q).counted' = all \ closed
      /\ table'[q] = Append(table[q], GoldRows(closed, input))
      /\ input' = input
  BY DEF TakesBatch
<1>2. /\ Gold!Accepted(input, Taken(q) + 1 .. end, TakenWm(q), Now(q).seen) = new
      /\ Gold!Advance(0, input, 1 .. Taken(q)) = Advance(0, input, 1 .. Taken(q))
  BY GoldWatermarksSame
<1> HIDE DEF new
<1>3. Now(q).counted \cup Gold!Counts(input, new, TakenWm(q)) = all
  BY GoldWindowsSame
<1> HIDE DEF all
<1>4. Gold!Closed(all, input, w) = closed
  BY GoldWindowsSame
<1> HIDE DEF closed
<1>5. Gold!GoldRows(closed, input) = GoldRows(closed, input)
  BY GoldRowsSame
<1>6. QED
  BY <1>1, <1>2, <1>3, <1>4, <1>5 DEF Gold!Batch, Taken, TakenWm

LEMMA GoldSteps ==
  ASSUME "gold" \in Queries, LakeInv, [Next]_vars
  PROVE  [Gold!Next]_(Gold!vars)
<1> DEFINE q == "gold"
<1>1. CASE \E r \in Records : input' = Append(input, r) /\ TableStays(q)
  <2>1. PICK r \in Records : input' = Append(input, r) /\ TableStays(q)
    BY <1>1
  <2>2. Gold!Arrive(r)
    BY <2>1 DEF Gold!Arrive, TableStays, Taken, TakenWm
  <2>3. QED
    BY <2>2 DEF Gold!Next
<1>2. CASE \E end \in Taken(q) .. Len(input), w \in Watermarks : TakesBatch(q, end, w)
  <2>1. PICK end \in Taken(q) .. Len(input), w \in Watermarks : TakesBatch(q, end, w)
    BY <1>2
  <2>2. Gold!Batch(end, w) /\ w \in Gold!Watermarks
    BY <2>1, GoldTakes, GoldWatermarksSame
  <2>3. QED
    BY <2>1, <2>2 DEF Gold!Next, Taken
<1>3. CASE input' = input /\ TableStays(q)
  BY <1>3 DEF Gold!vars, TableStays, Taken, TakenWm
<1>4. QED
  BY <1>1, <1>2, <1>3, StepMaps

LEMMA GoldStarts == "gold" \in Queries /\ Init => Gold!Init
<1> SUFFICES ASSUME "gold" \in Queries, Init PROVE Gold!Init
  OBVIOUS
<1>1. table["gold"] = << >> /\ Len(table["gold"]) = 0 /\ input = << >>
  BY DEF Init
<1>2. QED
  BY <1>1 DEF Gold!Init, EndOf, WmOf, StateOf, Now

LEMMA GoldQueryTakes ==
  ASSUME NEW end, NEW w, TakesBatch("gold", end, w)
  PROVE  GoldQuery!Batch(end, w)
<1> DEFINE q      == "gold"
           new    == Accepted(input, Taken(q) + 1 .. end, TakenWm(q), Now(q).seen)
           all    == Now(q).counted \cup Counts(input, new, TakenWm(q))
           closed == Closed(all, input, w)
<1>1. /\ TakenWm(q) <= w /\ w <= Advance(0, input, 1 .. Taken(q))
      /\ Taken(q)' = end /\ TakenWm(q)' = w
      /\ Now(q).seen' = Now(q).seen \cup new
      /\ Now(q).counted' = all \ closed
      /\ table'[q] = Append(table[q], GoldRows(closed, input))
      /\ input' = input
  BY DEF TakesBatch
<1>2. /\ GoldQuery!Accepted(input, Taken(q) + 1 .. end, TakenWm(q), Now(q).seen) = new
      /\ GoldQuery!Advance(0, input, 1 .. Taken(q)) = Advance(0, input, 1 .. Taken(q))
  BY GoldQueryWatermarksSame
<1> HIDE DEF new
<1>3. Now(q).counted \cup GoldQuery!Counts(input, new, TakenWm(q)) = all
  BY GoldQueryWindowsSame
<1> HIDE DEF all
<1>4. GoldQuery!Closed(all, input, w) = closed
  BY GoldQueryWindowsSame
<1> HIDE DEF closed
<1>5. GoldQuery!GoldRows(closed, input) = GoldRows(closed, input)
  BY GoldQueryRowsSame
<1>6. QED
  BY <1>1, <1>2, <1>3, <1>4, <1>5 DEF GoldQuery!Batch, Taken, TakenWm

LEMMA GoldQuerySteps ==
  ASSUME "gold" \in Queries, LakeInv, [Next]_vars
  PROVE  [GoldQuery!Next]_(GoldQuery!vars)
<1> DEFINE q == "gold"
<1>1. CASE \E r \in Records : input' = Append(input, r) /\ TableStays(q)
  <2>1. PICK r \in Records : input' = Append(input, r) /\ TableStays(q)
    BY <1>1
  <2>2. GoldQuery!Arrive(r)
    BY <2>1 DEF GoldQuery!Arrive, TableStays, Taken, TakenWm
  <2>3. QED
    BY <2>2 DEF GoldQuery!Next
<1>2. CASE \E end \in Taken(q) .. Len(input), w \in Watermarks : TakesBatch(q, end, w)
  <2>1. PICK end \in Taken(q) .. Len(input), w \in Watermarks : TakesBatch(q, end, w)
    BY <1>2
  <2>2. GoldQuery!Batch(end, w) /\ w \in GoldQuery!Watermarks
    BY <2>1, GoldQueryTakes, GoldQueryWatermarksSame
  <2>3. QED
    BY <2>1, <2>2 DEF GoldQuery!Next, Taken
<1>3. CASE input' = input /\ TableStays(q)
  BY <1>3 DEF GoldQuery!vars, TableStays, Taken, TakenWm
<1>4. QED
  BY <1>1, <1>2, <1>3, StepMaps

LEMMA GoldQueryStarts == "gold" \in Queries /\ Init => GoldQuery!Init
<1> SUFFICES ASSUME "gold" \in Queries, Init PROVE GoldQuery!Init
  OBVIOUS
<1>1. table["gold"] = << >> /\ Len(table["gold"]) = 0 /\ input = << >>
  BY DEF Init
<1>2. QED
  BY <1>1 DEF GoldQuery!Init, EndOf, WmOf, StateOf, Now

(***************************************************************************)
(* Gold's query, with its checkpoint, faults and reruns, does what a query *)
(* without failures does (main.py, start_gold_parquet_query).              *)
(***************************************************************************)
THEOREM GoldRefines == "gold" \in Queries => (Spec => GoldExactlyOnce)
<1>1. ASSUME "gold" \in Queries PROVE Spec => GoldExactlyOnce
  BY <1>1, GoldStarts, GoldSteps, LakeInvariance, PTL
     DEF Spec, GoldExactlyOnce, Gold!Spec
<1>2. QED
  BY <1>1

LEMMA GoldQueryHolds ==
  "gold" \in Queries => (Spec => [](GoldQuery!QueryInv))
<1>1. ASSUME "gold" \in Queries PROVE Spec => GoldQuery!Spec
  BY <1>1, GoldQueryStarts, GoldQuerySteps, LakeInvariance, PTL DEF Spec, GoldQuery!Spec
<1>2. GoldQuery!Spec => [](GoldQuery!QueryInv)
  BY GoldQuery!QueryInvariance, EventTimeAssumption DEF GoldQuery!EventTimeAssumption
<1>3. ASSUME "gold" \in Queries PROVE Spec => [](GoldQuery!QueryInv)
  BY <1>1, <1>2, <1>3, PTL
<1>4. QED
  BY <1>3

\* What the invariant of the abstract query says of Gold's table.
LEMMA GoldWindows ==
  ASSUME "gold" \in Queries, GoldQuery!QueryInv, LakeInv
  PROVE  /\ \A x, y \in InTable("gold") : x[2].window = y[2].window => x = y
         /\ \A x \in InTable("gold") :
              /\ Late(x[2].window.end, TakenWm("gold")) /\ x[2].window.size \in Sizes
              /\ \A o \in x[2].rows :
                   x[2].window = Window(input, [size |-> x[2].window.size, row |-> o])
         /\ Now("gold").counted \subseteq Count
         /\ \A c \in Now("gold").counted : ~Late(Window(input, c).end, TakenWm("gold"))
         /\ \A o \in Now("gold").seen, size \in Sizes :
              \/ [size |-> size, row |-> o] \in Now("gold").counted
              \/ \E x \in InTable("gold") : o \in x[2].rows /\ x[2].window.size = size
<1> DEFINE q == "gold"
<1>1. DOMAIN table[q] = 1 .. Len(table[q])
  BY DEF LakeInv, LakeTypes
<1>2. /\ \A c \in Now(q).counted : ~Late(Window(input, c).end, TakenWm(q))
      /\ \A n \in DOMAIN table[q] : \A g \in table[q][n] :
           /\ Late(g.window.end, TakenWm(q)) /\ g.window.size \in Sizes
           /\ \A o \in g.rows :
                g.window = Window(input, [size |-> g.window.size, row |-> o])
      /\ \A n, m \in DOMAIN table[q] : \A g \in table[q][n], h \in table[q][m] :
           g.window = h.window => n = m /\ g = h
      /\ \A o \in Now(q).seen, size \in Sizes :
           \/ [size |-> size, row |-> o] \in Now(q).counted
           \/ \E n \in DOMAIN table[q] : \E g \in table[q][n] : o \in g.rows /\ g.window.size = size
  <2>1. GoldQuery!WindowsWritten
    BY DEF GoldQuery!QueryInv
  <2>2. QED
    BY <2>1, <1>1, GoldQueryWatermarksSame, GoldQueryWindowsSame
       DEF GoldQuery!WindowsWritten, GoldQuery!Written, GoldQuery!WindowOf, TakenWm
<1>3. Now(q).counted \subseteq Count
  BY GoldQueryWindowsSame DEF GoldQuery!QueryInv, GoldQuery!QueryTypes
<1>4. \A x \in InTable(q) : \E n \in DOMAIN table[q] : \E g \in table[q][n] : x = <<n, g>>
  BY DEF InTable
<1>5. \A n \in DOMAIN table[q] : \A g \in table[q][n] : <<n, g>> \in InTable(q)
  BY DEF InTable
<1>6. ASSUME NEW x \in InTable(q), NEW y \in InTable(q), x[2].window = y[2].window
      PROVE  x = y
  <2>1. PICK n \in DOMAIN table[q] : \E g \in table[q][n] : x = <<n, g>>
    BY <1>4
  <2>2. PICK g \in table[q][n] : x = <<n, g>>
    BY <2>1
  <2>3. PICK m \in DOMAIN table[q] : \E h \in table[q][m] : y = <<m, h>>
    BY <1>4
  <2>4. PICK h \in table[q][m] : y = <<m, h>>
    BY <2>3
  <2>5. n = m /\ g = h
    BY <2>2, <2>4, <1>2, <1>6
  <2>6. QED
    BY <2>2, <2>4, <2>5
<1>7. ASSUME NEW x \in InTable(q)
      PROVE  /\ Late(x[2].window.end, TakenWm(q)) /\ x[2].window.size \in Sizes
             /\ \A o \in x[2].rows :
                  x[2].window = Window(input, [size |-> x[2].window.size, row |-> o])
  BY <1>2, <1>4
<1>8. ASSUME NEW o \in Now(q).seen, NEW size \in Sizes
      PROVE  \/ [size |-> size, row |-> o] \in Now(q).counted
             \/ \E x \in InTable(q) : o \in x[2].rows /\ x[2].window.size = size
  <2>1. CASE \E n \in DOMAIN table[q] : \E g \in table[q][n] :
               o \in g.rows /\ g.window.size = size
    <3>1. PICK n \in DOMAIN table[q], g \in UNION {table[q][m] : m \in DOMAIN table[q]} :
            g \in table[q][n] /\ o \in g.rows /\ g.window.size = size
      BY <2>1
    <3>2. <<n, g>> \in InTable(q) /\ <<n, g>>[2] = g
      BY <3>1, <1>5
    <3>3. QED
      BY <3>1, <3>2
  <2>2. QED
    BY <2>1, <1>2
<1>9. QED
  BY <1>2, <1>3, <1>6, <1>7, <1>8

LEMMA GoldTransactionsOnce ==
  ASSUME "gold" \in Queries, GoldQuery!QueryInv, LakeInv,
         NEW o \in Now("gold").seen, NEW size \in Sizes
  PROVE  LET written == {x \in InTable("gold") : x[2].window.size = size /\ o \in x[2].rows}
             open    == {c \in Now("gold").counted : c.size = size /\ c.row = o}
         IN Cardinality(written) + Cardinality(open) = 1
<1> DEFINE q       == "gold"
           count   == [size |-> size, row |-> o]
           written == {x \in InTable(q) : x[2].window.size = size /\ o \in x[2].rows}
           open    == {c \in Now(q).counted : c.size = size /\ c.row = o}
<1>1. \A c \in open : c = count
  BY GoldWindows DEF Count
<1>2. \A x \in written : x[2].window = Window(input, count)
  BY GoldWindows
<1>3. \A x, y \in written : x = y
  BY <1>2, GoldWindows
<1>4. count \in open => written = {}
  <2>1. count \in open => ~Late(Window(input, count).end, TakenWm(q))
    BY GoldWindows
  <2>2. \A x \in written : Late(Window(input, count).end, TakenWm(q))
    BY <1>2, GoldWindows
  <2>3. QED
    BY <2>1, <2>2
<1>5. count \in open \/ written # {}
  BY GoldWindows
<1>6. Cardinality({}) = 0 /\ \A x : Cardinality({x}) = 1
  BY FS_EmptySet, FS_Singleton
<1> HIDE DEF written, open, count
<1>7. Cardinality(written) + Cardinality(open) = 1
  <2>1. CASE count \in open
    <3>1. open = {count} /\ written = {}
      BY <1>1, <1>4, <2>1
    <3>2. Cardinality(open) = 1 /\ Cardinality(written) = 0
      BY <3>1, <1>6, Zenon
    <3>3. QED
      BY <3>2
  <2>2. CASE count \notin open
    <3>1. open = {} /\ \E x : written = {x}
      BY <1>1, <1>3, <1>5, <2>2
    <3>2. Cardinality(open) = 0 /\ Cardinality(written) = 1
      BY <3>1, <1>6, Zenon
    <3>3. QED
      BY <3>2
  <2>3. QED
    BY <2>1, <2>2
<1>8. QED
  BY <1>7 DEF written, open

\* Each row of Gold's table is computed from the transactions counted in it.
LEMMA GoldComputed ==
  ASSUME "gold" \in Queries, GoldQuery!QueryInv, LakeInv
  PROVE  /\ Now("gold").seen \subseteq 1 .. Len(input)
         /\ \A x \in InTable("gold") :
              /\ x[2].rows # {} /\ x[2].rows \subseteq Now("gold").seen
              /\ x[2].aggregates = Aggregates(input, x[2].rows)
              /\ x[2].signals = WindowSignals(input, x[2].rows, x[2].aggregates)
<1> DEFINE q == "gold"
<1>1. DOMAIN table[q] = 1 .. Len(table[q])
  BY DEF LakeInv, LakeTypes
<1>2. \A n \in DOMAIN table[q] : \A g \in table[q][n] :
        /\ g.rows # {} /\ g.rows \subseteq Now(q).seen
        /\ g.aggregates = Aggregates(input, g.rows)
        /\ g.signals = WindowSignals(input, g.rows, g.aggregates)
  BY <1>1, GoldQueryAggregatesSame
     DEF GoldQuery!QueryInv, GoldQuery!RowsComputed, GoldQuery!Written
<1>3. Now(q).seen \subseteq 1 .. Taken(q) /\ Taken(q) \in 0 .. Len(input)
  BY DEF GoldQuery!QueryInv, GoldQuery!QueryTypes, Taken
<1>4. \A x \in InTable(q) : \E n \in DOMAIN table[q] : \E g \in table[q][n] : x = <<n, g>>
  BY DEF InTable
<1>5. QED
  BY <1>2, <1>3, <1>4

\* The rows of windows of two sizes, the longer around the shorter.
LEMMA GoldNested ==
  ASSUME "gold" \in Queries, GoldQuery!QueryInv, LakeInv,
         NEW x \in InTable("gold"), NEW y \in InTable("gold"),
         x[2].window.account = y[2].window.account,
         y[2].window.start <= x[2].window.start, x[2].window.end <= y[2].window.end
  PROVE  /\ x[2].rows \subseteq y[2].rows
         /\ y[2].rows \in SUBSET (1 .. Len(input))
<1> DEFINE q == "gold"
           v == x[2].window
           w == y[2].window
<1>1. /\ v.size \in Sizes /\ w.size \in Sizes
      /\ \A o \in x[2].rows : v = Window(input, [size |-> v.size, row |-> o])
      /\ \A o \in y[2].rows : w = Window(input, [size |-> w.size, row |-> o])
      /\ Late(w.end, TakenWm(q))
  BY GoldWindows
<1>2. /\ x[2].rows \subseteq Now(q).seen /\ y[2].rows \subseteq Now(q).seen
      /\ y[2].rows # {}
  BY GoldComputed
<1>3. Now(q).seen \subseteq 1 .. Len(input) /\ input \in Seq(Records)
  BY GoldComputed DEF LakeInv, LakeTypes
<1> HIDE DEF v, w
<1>4. ASSUME NEW o \in x[2].rows PROVE o \in y[2].rows
  <2> DEFINE e == [size |-> w.size, row |-> o]
  <2>1. Window(input, e) = w
    <3>1. PICK p \in y[2].rows : TRUE
      BY <1>2
    <3> DEFINE c == [size |-> v.size, row |-> o]
               d == [size |-> w.size, row |-> p]
    <3>2. /\ c \in Count /\ d \in Count /\ c.row \in 1 .. Len(input) /\ d.row \in 1 .. Len(input)
          /\ d.size = w.size /\ c.row = o
      BY <1>1, <1>2, <1>3 DEF Count
    <3>3. Window(input, c) = v /\ Window(input, d) = w
      BY <1>1
    <3>4. /\ Window(input, c).account = Window(input, d).account
          /\ Window(input, d).start <= Window(input, c).start
          /\ Window(input, c).end <= Window(input, d).end
      BY <3>3 DEF v, w
    <3> HIDE DEF c, d
    <3>5. Window(input, [size |-> d.size, row |-> c.row]) = Window(input, d)
      BY <1>3, <3>2, <3>4, WindowAgain
    <3>6. QED
      BY <3>2, <3>3, <3>5
  <2>2. e \notin Now(q).counted
    BY <1>1, <2>1, GoldWindows
  <2>3. PICK z \in InTable(q) : o \in z[2].rows /\ z[2].window.size = w.size
    <3> HIDE DEF e
    <3>1. o \in Now(q).seen
      BY <1>2
    <3>2. QED
      BY <1>1, <2>2, <3>1, GoldWindows DEF e
  <2>4. z[2].window = w
    <3>1. z[2].window = Window(input, [size |-> z[2].window.size, row |-> o])
      BY <2>3, GoldWindows
    <3>2. QED
      BY <2>1, <2>3, <3>1
  <2>5. z = y
    BY <2>4, GoldWindows DEF w
  <2>6. QED
    BY <2>3, <2>5
<1>5. QED
  BY <1>2, <1>3, <1>4

(***************************************************************************)
(* Gold has one row per account and window: none is written again, in      *)
(* another batch or after a restart (account_window_features).             *)
(***************************************************************************)
THEOREM GoldRowsUnique == Spec => []GoldOneRowPerWindow
<1>1. CASE "gold" \in Queries
  <2>1. GoldQuery!QueryInv /\ LakeInv => GoldOneRowPerWindow
    BY <1>1, GoldWindows DEF GoldOneRowPerWindow
  <2>2. QED
    BY <2>1, <1>1, GoldQueryHolds, LakeInvariance, PTL
<1>2. CASE "gold" \notin Queries
  <2>1. GoldOneRowPerWindow
    BY <1>2 DEF GoldOneRowPerWindow
  <2>2. QED
    BY <2>1, PTL
<1>3. QED
  BY <1>1, <1>2

(***************************************************************************)
(* An accepted transaction is, for each window size, in exactly one row of *)
(* Gold or open window (account_window_features, prepare_events).          *)
(***************************************************************************)
THEOREM GoldCountsExact == Spec => []GoldCountsOnce
<1>1. CASE "gold" \in Queries
  <2>1. GoldQuery!QueryInv /\ LakeInv => GoldCountsOnce
    BY <1>1, GoldTransactionsOnce DEF GoldCountsOnce
  <2>2. QED
    BY <2>1, <1>1, GoldQueryHolds, LakeInvariance, PTL
<1>2. CASE "gold" \notin Queries
  <2>1. GoldCountsOnce
    BY <1>2 DEF GoldCountsOnce
  <2>2. QED
    BY <2>1, PTL
<1>3. QED
  BY <1>1, <1>2

(***************************************************************************)
(* The row of a window agrees with that of every longer one around it: no  *)
(* count or sum is less in the longer, and a signal by a count is there in *)
(* it, for every input, cut of the batches and restart                     *)
(* (account_window_features, apply_window_signals).                        *)
(***************************************************************************)
THEOREM WindowsAreNested == Spec => []WindowsNested
<1>1. CASE "gold" \in Queries
  <2>1. ASSUME GoldQuery!QueryInv, LakeInv, NEW x \in InTable("gold"), NEW y \in InTable("gold"),
               x[2].window.account = y[2].window.account,
               y[2].window.start <= x[2].window.start, x[2].window.end <= y[2].window.end
        PROVE  LET a == x[2].aggregates
                   b == y[2].aggregates
               IN /\ \A f \in DOMAIN a \ {"amount_sum"} : a[f] <= b[f]
                  /\ b.amount_sum = {} \/ \E m \in a.amount_sum, n \in b.amount_sum : m <= n
                  /\ \A s \in {"rapid_transaction", "multi_device"} :
                       x[2].signals[s] => y[2].signals[s]
    <3> DEFINE R == x[2].rows
               S == y[2].rows
    <3>1. R \in SUBSET S /\ S \in SUBSET (1 .. Len(input)) /\ input \in Seq(Records)
      BY <1>1, <2>1, GoldNested DEF LakeInv, LakeTypes
    <3>2. /\ x[2].aggregates = Aggregates(input, R) /\ y[2].aggregates = Aggregates(input, S)
          /\ x[2].signals = WindowSignals(input, R, Aggregates(input, R))
          /\ y[2].signals = WindowSignals(input, S, Aggregates(input, S))
      BY <1>1, <2>1, GoldComputed
    <3> HIDE DEF R, S
    <3>3. QED
      BY <3>1, <3>2, AggregatesGrow
  <2>2. GoldQuery!QueryInv /\ LakeInv => WindowsNested
    BY <2>1 DEF WindowsNested
  <2>3. QED
    BY <2>2, <1>1, GoldQueryHolds, LakeInvariance, PTL
<1>2. CASE "gold" \notin Queries
  <2>1. WindowsNested
    BY <1>2 DEF WindowsNested
  <2>2. QED
    BY <2>1, PTL
<1>3. QED
  BY <1>1, <1>2

-----------------------------------------------------------------------------
(* Both *)

LEMMA SilverKeepsOnTime ==
  ASSUME "silver" \in Queries, SilverQuery!QueryInv, LakeInv,
         NEW o \in 1 .. Taken("silver"),
         \A p \in 1 .. o - 1 : input[p].time < input[o].time + Delay
  PROVE  \E p \in Held("silver") : input[p].id = input[o].id
<1> DEFINE q == "silver"
<1>1. PICK p \in Now(q).seen : input[p].id = input[o].id
  BY DEF SilverQuery!QueryInv, SilverQuery!OnTimeSeen, SilverQuery!OnTime, Taken
<1>2. DOMAIN table[q] = 1 .. Len(table[q])
  BY DEF LakeInv, LakeTypes
<1>3. \E n \in DOMAIN table[q] : p \in table[q][n]
  BY <1>2 DEF SilverQuery!QueryInv, SilverQuery!SeenIsWritten, SilverQuery!Written
<1>4. \E x \in InTable(q) : x[2] = p
  <2>1. PICK n \in DOMAIN table[q] : p \in table[q][n]
    BY <1>3
  <2>2. <<n, p>> \in InTable(q) /\ <<n, p>>[2] = p
    BY <2>1 DEF InTable
  <2>3. QED
    BY <2>2
<1>5. p \in Held(q)
  BY <1>4 DEF Held
<1>6. QED
  BY <1>1, <1>5

LEMMA GoldKeepsOnTime ==
  ASSUME "gold" \in Queries, GoldQuery!QueryInv, LakeInv,
         NEW o \in 1 .. Taken("gold"),
         \A p \in 1 .. o - 1 : input[p].time < input[o].time + Delay
  PROVE  \E p \in Held("gold") : input[p].id = input[o].id
<1> DEFINE q == "gold"
<1>1. PICK p \in Now(q).seen : input[p].id = input[o].id
  BY DEF GoldQuery!QueryInv, GoldQuery!OnTimeSeen, GoldQuery!OnTime, Taken
<1>2. PICK size \in Sizes : TRUE
  BY EventTimeAssumption
<1>3. CASE [size |-> size, row |-> p] \in Now(q).counted
  <2>1. p \in {c.row : c \in Now(q).counted}
    BY <1>3
  <2>2. QED
    BY <2>1, <1>1 DEF Held
<1>4. CASE \E x \in InTable(q) : p \in x[2].rows
  <2>1. p \in UNION {x[2].rows : x \in InTable(q)}
    BY <1>4
  <2>2. QED
    BY <2>1, <1>1 DEF Held
<1>5. QED
  BY <1>3, <1>4, GoldWindows

(***************************************************************************)
(* An event on time, or another that was taken under its id, is in its     *)
(* table, or in a window that will be, once its batch is written           *)
(* (apply_watermark).                                                      *)
(***************************************************************************)
THEOREM OnTimeIsKept == Spec => []OnTimeKept
<1>1. Queries \subseteq {"silver", "gold"}
  BY LakeAssumption
<1> DEFINE Kept(q) ==
  \A o \in 1 .. Taken(q) :
    (\A p \in 1 .. o - 1 : input[p].time < input[o].time + Delay) =>
      \E p \in Held(q) : input[p].id = input[o].id
<1>2. ("silver" \in Queries => Kept("silver")) /\ ("gold" \in Queries => Kept("gold"))
      => OnTimeKept
  BY <1>1 DEF OnTimeKept, Taken
<1>3. "silver" \in Queries /\ SilverQuery!QueryInv /\ LakeInv => Kept("silver")
  BY SilverKeepsOnTime
<1>4. "gold" \in Queries /\ GoldQuery!QueryInv /\ LakeInv => Kept("gold")
  BY GoldKeepsOnTime
<1> HIDE DEF Kept
<1>5. CASE "silver" \in Queries /\ "gold" \in Queries
  BY <1>2, <1>3, <1>4, <1>5, SilverQueryHolds, GoldQueryHolds, LakeInvariance, PTL
<1>6. CASE "silver" \in Queries /\ "gold" \notin Queries
  <2>1. SilverQuery!QueryInv /\ LakeInv => OnTimeKept
    BY <1>2, <1>3, <1>6
  <2>2. QED
    BY <2>1, <1>6, SilverQueryHolds, LakeInvariance, PTL
<1>7. CASE "silver" \notin Queries /\ "gold" \in Queries
  <2>1. GoldQuery!QueryInv /\ LakeInv => OnTimeKept
    BY <1>2, <1>4, <1>7
  <2>2. QED
    BY <2>1, <1>7, GoldQueryHolds, LakeInvariance, PTL
<1>8. CASE "silver" \notin Queries /\ "gold" \notin Queries
  <2>1. OnTimeKept
    BY <1>2, <1>8
  <2>2. QED
    BY <2>1, PTL
<1>9. QED
  BY <1>5, <1>6, <1>7, <1>8

=============================================================================
