---------------------------- MODULE QueryProofs ----------------------------
(***************************************************************************)
(* TLAPS proofs about ExactlyOnceQuery: what the tables hold, however the  *)
(* batches are cut and wherever the watermark lags. Lake implements        *)
(* ExactlyOnceQuery (LakeRefinement), so what is proved of table, seen     *)
(* and counted holds of a query with its checkpoint, faults and reruns.    *)
(*                                                                         *)
(* The invariant: a transaction is seen once; every row seen is in one     *)
(* batch of Silver; for Gold each window size has it in an open window or  *)
(* in a written row; open windows end after the watermark and written ones *)
(* do not, which is why no window is written twice. A written row is       *)
(* computed from the transactions counted in it.                           *)
(***************************************************************************)
EXTENDS ExactlyOnceQuery, EventTimeProofs

QueryTypes ==
  /\ input \in Seq(Records)
  /\ done \in 0 .. Len(input)
  /\ wm \in Nat
  /\ seen \in SUBSET (1 .. done)
  /\ counted \in SUBSET Count /\ \A c \in counted : c.row \in seen
  /\ table \in Seq(Batches)

Written == 1 .. Len(table)

\* The watermark is one that the events taken justify.
Justified == wm = 0 \/ \E p \in 1 .. done : wm <= Minus(input[p].time, Delay)

SeenOnce == \A o, p \in seen : input[o].id = input[p].id => o = p

OnTime(o) == \A p \in 1 .. o - 1 : input[p].time < input[o].time + Delay

OnTimeSeen == \A o \in 1 .. done : OnTime(o) => \E p \in seen : input[p].id = input[o].id

SeenIsWritten ==
  Kind # "gold" =>
    /\ \A n \in Written : table[n] \subseteq seen
    /\ \A o \in seen : \E n \in Written : o \in table[n]
    /\ \A n, m \in Written : \A o \in table[n] : o \in table[m] => n = m

WindowOf(o, size) == Window(input, [size |-> size, row |-> o])

WindowsWritten ==
  Kind = "gold" =>
    /\ \A c \in counted : ~Late(Window(input, c).end, wm)
    /\ \A n \in Written : \A g \in table[n] :
         /\ g.window.end \in Nat /\ Late(g.window.end, wm)
         /\ g.window.size \in Sizes
         /\ \A o \in g.rows : o \in seen /\ g.window = WindowOf(o, g.window.size)
    /\ \A n, m \in Written : \A g \in table[n], h \in table[m] :
         g.window = h.window => n = m /\ g = h
    /\ \A o \in seen, size \in Sizes :
         \/ [size |-> size, row |-> o] \in counted
         \/ \E n \in Written : \E g \in table[n] : o \in g.rows /\ g.window.size = size

\* The columns of a written row are those of the transactions counted in it.
RowsComputed ==
  Kind = "gold" =>
    \A n \in Written : \A g \in table[n] :
      /\ g.rows # {} /\ g.rows \subseteq seen
      /\ g.aggregates = Aggregates(input, g.rows)
      /\ g.signals = WindowSignals(input, g.rows, g.aggregates)

QueryInv ==
  /\ QueryTypes
  /\ Justified
  /\ SeenOnce
  /\ OnTimeSeen
  /\ SeenIsWritten
  /\ WindowsWritten
  /\ RowsComputed

LEMMA QueryStarts == Init => QueryInv
<1> SUFFICES ASSUME Init PROVE QueryInv
  OBVIOUS
<1>1. Len(input) = 0 /\ Len(table) = 0 /\ 1 .. 0 = {}
  BY DEF Init
<1>2. QueryTypes
  BY <1>1 DEF QueryTypes, Init
<1>3. Written = {} /\ 1 .. done = {}
  BY <1>1 DEF Written, Init
<1>4. Justified /\ SeenOnce /\ OnTimeSeen
  BY <1>3 DEF Init, Justified, SeenOnce, OnTimeSeen
<1>5. SeenIsWritten /\ WindowsWritten /\ RowsComputed
  BY <1>3 DEF Init, SeenIsWritten, WindowsWritten, RowsComputed
<1>6. QED
  BY <1>2, <1>4, <1>5 DEF QueryInv

-----------------------------------------------------------------------------
(* A record arrives: nothing that names an older record changes *)

LEMMA ArriveKeeps ==
  ASSUME QueryInv, NEW r \in Records, Arrive(r)
  PROVE  QueryInv'
<1> USE DEF QueryInv
<1>1. /\ input' \in Seq(Records) /\ Len(input') = Len(input) + 1 /\ Len(input) \in Nat
      /\ \A o \in 1 .. Len(input) : input'[o] = input[o]
  BY DEF Arrive, QueryTypes
<1>2. Grown(input, input')
  BY <1>1 DEF Grown, QueryTypes
<1>3. /\ done' = done /\ wm' = wm /\ seen' = seen /\ counted' = counted /\ table' = table
      /\ Written' = Written
  BY DEF Arrive, Written
<1>4. QueryTypes'
  BY <1>1, <1>3 DEF QueryTypes
<1>5. /\ \A o \in seen : input'[o] = input[o]
      /\ \A o \in 1 .. done : input'[o] = input[o]
  BY <1>1 DEF QueryTypes
<1>6. Justified'
  BY <1>3, <1>5 DEF Justified
<1>7. SeenOnce'
  BY <1>3, <1>5 DEF SeenOnce
<1>8. OnTimeSeen'
  <2>1. ASSUME NEW o \in 1 .. done, OnTime(o)' PROVE OnTime(o)
    <3>1. \A p \in 1 .. o - 1 : input'[p] = input[p]
      BY <1>5 DEF QueryTypes
    <3>2. QED
      BY <2>1, <3>1, <1>5 DEF OnTime
  <2>2. QED
    BY <2>1, <1>3, <1>5 DEF OnTimeSeen
<1>9. SeenIsWritten'
  BY <1>3 DEF SeenIsWritten
<1>10. WindowsWritten'
  <2>1. \A c \in counted : Window(input', c) = Window(input, c)
    <3>1. seen \subseteq 1 .. Len(input)
      BY DEF QueryTypes
    <3>2. \A c \in counted : c \in Count /\ c.row \in 1 .. Len(input)
      BY <3>1 DEF QueryTypes
    <3>3. QED
      BY <3>2, <1>2, WindowStays
  <2>2. \A o \in seen, size \in Sizes : WindowOf(o, size)' = WindowOf(o, size)
    <3> SUFFICES ASSUME NEW o \in seen, NEW size \in Sizes
                 PROVE  Window(input', [size |-> size, row |-> o])
                          = Window(input, [size |-> size, row |-> o])
      BY DEF WindowOf
    <3>1. [size |-> size, row |-> o] \in Count /\ o \in 1 .. Len(input)
      BY DEF Count, QueryTypes
    <3>2. QED
      BY <3>1, <1>2, WindowStays
  <2>3. QED
    BY <2>1, <2>2, <1>3 DEF WindowsWritten
<1>11. RowsComputed'
  <2>1. ASSUME NEW rows, rows \subseteq seen
        PROVE  /\ Aggregates(input', rows) = Aggregates(input, rows)
               /\ \A agg : WindowSignals(input', rows, agg) = WindowSignals(input, rows, agg)
    <3>1. rows \in SUBSET (1 .. Len(input))
      BY <2>1 DEF QueryTypes
    <3>2. QED
      BY <3>1, <1>2, AggregatesStay
  <2>2. QED
    BY <2>1, <1>3 DEF RowsComputed
<1>12. QED
  BY <1>4, <1>6, <1>7, <1>8, <1>9, <1>10, <1>11

-----------------------------------------------------------------------------
(* A batch *)

\* The watermark that a batch uses is earlier than an event that is on time.
LEMMA OnTimeNotLate ==
  ASSUME QueryInv, NEW o \in 1 .. Len(input), done < o, OnTime(o)
  PROVE  ~Late(input[o].time, wm)
<1> USE DEF QueryInv
<1>1. input[o].time \in Nat \ {0} /\ wm \in Nat /\ Delay \in Nat /\ done \in Nat
  BY JustifiedTypes, EventTimeAssumption DEF QueryTypes
<1>2. CASE wm = 0
  BY <1>1, <1>2 DEF Late
<1>3. CASE \E p \in 1 .. done : wm <= Minus(input[p].time, Delay)
  <2>1. PICK p \in 1 .. done : wm <= Minus(input[p].time, Delay)
    BY <1>3
  <2>2. p \in 1 .. o - 1 /\ p \in 1 .. Len(input)
    BY <1>1 DEF QueryTypes
  <2>3. input[p].time < input[o].time + Delay
    BY <2>2 DEF OnTime
  <2>4. input[p].time \in Nat
    BY <2>2, JustifiedTypes DEF QueryTypes
  <2>5. Minus(input[p].time, Delay) < input[o].time
    BY <1>1, <2>3, <2>4 DEF Minus
  <2>6. Minus(input[p].time, Delay) \in Nat
    BY <2>2, JustifiedTypes DEF QueryTypes
  <2>7. QED
    BY <1>1, <2>1, <2>5, <2>6 DEF Late
<1>4. QED
  BY <1>2, <1>3 DEF Justified

LEMMA BatchKeeps ==
  ASSUME QueryInv, NEW end \in done .. Len(input), NEW w \in Watermarks, Batch(end, w)
  PROVE  QueryInv'
<1> USE DEF QueryInv
<1> DEFINE rows   == done + 1 .. end
           new    == Accepted(input, rows, wm, seen)
           all    == IF Kind = "gold" THEN counted \cup Counts(input, new, wm) ELSE {}
           closed == Closed(all, input, w)
           k      == Len(table) + 1
<1>1. /\ wm <= w /\ w <= Advance(0, input, 1 .. done)
      /\ done' = end /\ wm' = w /\ seen' = seen \cup new /\ counted' = all \ closed
      /\ table' = Append(table, IF Kind = "gold" THEN GoldRows(closed, input) ELSE new)
      /\ input' = input
  BY DEF Batch
<1>2. /\ rows \in SUBSET (1 .. Len(input)) /\ seen \in SUBSET (1 .. Len(input))
      /\ rows \in SUBSET Nat /\ end \in Nat /\ done \in Nat /\ done <= end
      /\ \A o \in seen : o <= done
      /\ \A o \in rows : done < o /\ o <= end
  BY DEF QueryTypes
<1>3. w \in Nat /\ wm \in Nat
  <2>1. \A r \in Records : Minus(r.time, Delay) \in Nat
    BY EventTimeAssumption DEF Minus
  <2>2. QED
    BY <2>1 DEF Watermarks, QueryTypes
<1>4. /\ new \subseteq rows
      /\ \A o \in new : ~Late(input[o].time, wm) /\ \A p \in seen : input[p].id # input[o].id
      /\ \A o, p \in new : input[o].id = input[p].id => o = p
  BY <1>2, AcceptedDistinct DEF QueryTypes
<1>5. new \cap seen = {}
  BY <1>2, <1>4
<1>6. /\ Counts(input, new, wm) \subseteq Count
      /\ \A c \in Counts(input, new, wm) : c.row \in new /\ ~Late(Window(input, c).end, wm)
  BY <1>2, <1>4 DEF Counts, Count
<1>7. /\ all \in SUBSET Count
      /\ \A c \in all : c.row \in seen \cup new
      /\ closed \subseteq all
      /\ \A c \in closed : Late(Window(input, c).end, w)
      /\ \A c \in all \ closed : ~Late(Window(input, c).end, w)
  BY <1>6 DEF QueryTypes, Closed
<1>8. /\ table' \in Seq(Batches) /\ Len(table') = k /\ Len(table) \in Nat
      /\ \A n \in Written : table'[n] = table[n]
      /\ table'[k] = IF Kind = "gold" THEN GoldRows(closed, input) ELSE new
  <2>1. (IF Kind = "gold" THEN GoldRows(closed, input) ELSE new) \in Batches
    <3>1. closed \in SUBSET Count /\ input \in Seq(Records) /\ new \in SUBSET Nat
      BY <1>2, <1>4, <1>7 DEF QueryTypes
    <3> HIDE DEF closed, new
    <3>2. QED
      BY <3>1 DEF Batches
  <2> HIDE DEF closed, new
  <2>2. QED
    BY <2>1, <1>1 DEF QueryTypes, Written
<1>9. Written' = Written \cup {k} /\ k \notin Written
  BY <1>8 DEF Written
<1> HIDE DEF all, closed, new, k
<1>10. QueryTypes'
  <2>1. seen' \in SUBSET (1 .. done')
    BY <1>1, <1>2, <1>4
  <2>2. done' \in 0 .. Len(input')
    BY <1>1, <1>2
  <2>3. QED
    BY <2>1, <2>2, <1>1, <1>3, <1>7, <1>8 DEF QueryTypes
<1>11. Justified'
  <2>1. 1 .. done \in SUBSET (1 .. Len(input)) /\ 0 \in Nat
    BY <1>2 DEF QueryTypes
  <2>2. Advance(0, input, 1 .. done) \in {0} \cup {Minus(input[p].time, Delay) : p \in 1 .. done}
    BY <2>1, AdvanceIsLatest DEF QueryTypes
  <2>3. CASE Advance(0, input, 1 .. done) = 0
    BY <2>3, <1>1, <1>3 DEF Justified
  <2>4. CASE \E p \in 1 .. done : Advance(0, input, 1 .. done) = Minus(input[p].time, Delay)
    <3>1. PICK p \in 1 .. done : w <= Minus(input[p].time, Delay)
      BY <2>4, <1>1
    <3>2. p \in 1 .. end
      BY <1>2
    <3>3. QED
      BY <3>1, <3>2, <1>1 DEF Justified
  <2>5. QED
    BY <2>2, <2>3, <2>4
<1>12. SeenOnce'
  BY <1>1, <1>4 DEF SeenOnce
<1>13. OnTimeSeen'
  <2>1. ASSUME NEW o \in 1 .. end, OnTime(o)
        PROVE  \E p \in seen \cup new : input[p].id = input[o].id
    <3>1. CASE o <= done
      BY <3>1, <2>1, <1>2 DEF OnTimeSeen
    <3>2. CASE done < o
      <4>1. o \in rows /\ o \in 1 .. Len(input)
        BY <3>2, <1>2
      <4>2. ~Late(input[o].time, wm)
        BY <3>2, <2>1, <4>1, OnTimeNotLate
      <4>3. input \in Seq(Records) /\ rows \in SUBSET (1 .. Len(input))
        BY <1>2 DEF QueryTypes
      <4>4. \E p \in seen \cup Accepted(input, rows, wm, seen) : input[p].id = input[o].id
        <5> HIDE DEF rows, QueryInv
        <5> QED BY <4>1, <4>2, <4>3, AcceptedCovers
      <4>5. QED
        BY <4>4 DEF new
    <3>3. QED
      BY <3>1, <3>2, <1>2
  <2>2. QED
    BY <2>1, <1>1 DEF OnTimeSeen, OnTime
<1>14. SeenIsWritten'
  <2> SUFFICES ASSUME Kind # "gold"
               PROVE  /\ \A n \in Written \cup {k} : table'[n] \subseteq seen \cup new
                      /\ \A o \in seen \cup new : \E n \in Written \cup {k} : o \in table'[n]
                      /\ \A n, m \in Written \cup {k} :
                           \A o \in table'[n] : o \in table'[m] => n = m
    BY <1>1, <1>9 DEF SeenIsWritten
  <2>1. table'[k] = new /\ \A n \in Written : table'[n] = table[n] /\ table[n] \subseteq seen
    BY <1>8 DEF SeenIsWritten
  <2>2. /\ \A o \in seen : \E n \in Written : o \in table[n]
        /\ \A n, m \in Written : \A o \in table[n] : o \in table[m] => n = m
    BY DEF SeenIsWritten
  <2>3. \A n \in Written : table'[n] \cap table'[k] = {}
    BY <2>1, <1>5
  <2>4. \A n \in Written \cup {k} : table'[n] \subseteq seen \cup new
    BY <2>1
  <2>5. \A o \in seen \cup new : \E n \in Written \cup {k} : o \in table'[n]
    BY <2>1, <2>2
  <2>6. \A n, m \in Written \cup {k} : \A o \in table'[n] : o \in table'[m] => n = m
    BY <2>1, <2>2, <2>3
  <2>7. QED
    BY <2>4, <2>5, <2>6
<1>15. WindowsWritten'
  <2> SUFFICES ASSUME Kind = "gold" PROVE WindowsWritten'
    BY DEF WindowsWritten
  <2> DEFINE added == GoldRows(closed, input)
  <2>1. /\ table'[k] = added
        /\ all = counted \cup Counts(input, new, wm)
        /\ \A n \in Written : table'[n] = table[n]
    BY <1>8 DEF all
  <2>2. /\ \A g, h \in added : g.window = h.window => g = h
        /\ \A g \in added :
             /\ \E c \in closed : Window(input, c) = g.window
             /\ \A o \in g.rows : \E c \in closed : c.row = o /\ Window(input, c) = g.window
        /\ \A c \in closed : \E g \in added :
             g.window = Window(input, c) /\ c.row \in g.rows
    <3>1. closed \in SUBSET Count
      BY <1>7
    <3>2. QED
      BY <3>1, GoldRowsPerWindow
  <2> HIDE DEF added
  <2>3. \A c \in all : /\ c \in Count /\ c.row \in 1 .. Len(input)
                       /\ Window(input, c).end \in Nat /\ Window(input, c).size = c.size
    <3>1. seen \cup new \subseteq 1 .. Len(input) /\ input \in Seq(Records)
      BY <1>2, <1>4 DEF QueryTypes
    <3>2. \A c \in all : c \in Count /\ c.row \in 1 .. Len(input)
      BY <3>1, <1>7
    <3>3. QED
      BY <3>1, <3>2, WindowAround
  <2>4. \A c \in all : ~Late(Window(input, c).end, wm)
    BY <2>1, <1>6 DEF WindowsWritten
  <2>5. /\ \A n \in Written : \A g \in table[n] :
             /\ g.window.end \in Nat /\ Late(g.window.end, wm)
             /\ g.window.size \in Sizes
             /\ \A o \in g.rows : o \in seen /\ g.window = WindowOf(o, g.window.size)
        /\ \A n, m \in Written : \A g \in table[n], h \in table[m] :
             g.window = h.window => n = m /\ g = h
        /\ \A o \in seen, size \in Sizes :
             \/ [size |-> size, row |-> o] \in counted
             \/ \E n \in Written : \E g \in table[n] : o \in g.rows /\ g.window.size = size
    BY DEF WindowsWritten
  <2>6. \A n \in Written : \A g \in table[n] : Late(g.window.end, w)
    BY <2>5, <1>1, <1>3 DEF Late
  <2>7. \A g \in added :
          /\ g.window.end \in Nat /\ Late(g.window.end, w) /\ ~Late(g.window.end, wm)
          /\ g.window.size \in Sizes
    <3> SUFFICES ASSUME NEW g \in added
                 PROVE  /\ g.window.end \in Nat /\ Late(g.window.end, w)
                        /\ ~Late(g.window.end, wm)
                        /\ g.window.size \in Sizes
      OBVIOUS
    <3>1. PICK c \in closed : Window(input, c) = g.window
      BY <2>2
    <3>2. c \in all /\ Late(Window(input, c).end, w) /\ c.size \in Sizes
      BY <1>7 DEF Count
    <3>3. QED
      BY <3>1, <3>2, <2>3, <2>4
  <2>8. ASSUME NEW g \in added, NEW o \in g.rows
        PROVE  o \in seen \cup new /\ g.window = WindowOf(o, g.window.size)
    <3>1. PICK c \in closed : c.row = o /\ Window(input, c) = g.window
      BY <2>2
    <3>2. c \in Count /\ c.row \in seen \cup new /\ Window(input, c).size = c.size
      BY <2>3, <1>7
    <3>3. c = [size |-> c.size, row |-> o]
      BY <3>1, <3>2 DEF Count
    <3>4. QED
      BY <3>1, <3>2, <3>3 DEF WindowOf
  <2>9. \A n \in Written \cup {k} : \A g \in table'[n] :
          /\ g.window.end \in Nat /\ Late(g.window.end, w)
          /\ g.window.size \in Sizes
          /\ \A o \in g.rows : o \in seen \cup new /\ g.window = WindowOf(o, g.window.size)
    BY <2>1, <2>5, <2>6, <2>7, <2>8
  <2>10. \A n \in Written : \A g \in table[n], h \in added : g.window # h.window
    BY <2>5, <2>7
  <2>11. \A n, m \in Written \cup {k} : \A g \in table'[n], h \in table'[m] :
           g.window = h.window => n = m /\ g = h
    BY <2>1, <2>2, <2>5, <2>10
  <2>12. ASSUME NEW c \in all
         PROVE  \/ c \in all \ closed
                \/ \E n \in Written \cup {k} : \E g \in table'[n] :
                     c.row \in g.rows /\ g.window.size = c.size
    <3>1. CASE c \in closed
      BY <3>1, <2>1, <2>2, <2>3
    <3>2. QED
      BY <3>1
  <2>13. ASSUME NEW o \in seen \cup new, NEW size \in Sizes
         PROVE  \/ [size |-> size, row |-> o] \in all \ closed
                \/ \E n \in Written \cup {k} : \E g \in table'[n] :
                     o \in g.rows /\ g.window.size = size
    <3> DEFINE c == [size |-> size, row |-> o]
    <3>1. c.row = o /\ c.size = size
      OBVIOUS
    <3>2. CASE o \in new
      <4>1. c \in [size : Sizes, row : new] /\ c \in Count /\ o \in 1 .. Len(input)
        BY <3>2, <1>2, <1>4 DEF Count
      <4>2. input[o].time < Window(input, c).end /\ Window(input, c).end \in Nat
        BY <4>1, <3>1, WindowAround DEF QueryTypes
      <4>3. ~Late(input[o].time, wm) /\ input[o].time \in Nat
        BY <3>2, <1>4, <4>1, JustifiedTypes DEF QueryTypes
      <4>4. ~Late(Window(input, c).end, wm)
        BY <4>2, <4>3, <1>3 DEF Late
      <4>5. c \in all
        BY <4>1, <4>4, <2>1 DEF Counts
      <4> HIDE DEF c
      <4>6. QED
        BY <4>5, <3>1, <2>12 DEF c
    <3>3. CASE o \in seen
      <4>1. CASE c \in counted
        <5>1. c \in all
          BY <4>1, <2>1
        <5> HIDE DEF c
        <5>2. QED
          BY <5>1, <3>1, <2>12 DEF c
      <4>2. CASE \E n \in Written : \E g \in table[n] : o \in g.rows /\ g.window.size = size
        BY <4>2, <2>1
      <4>3. QED
        BY <4>1, <4>2, <3>3, <2>5
    <3>4. QED
      BY <3>2, <3>3
  <2>14. \A c \in all \ closed : ~Late(Window(input, c).end, w)
    BY <1>7
  <2>15. /\ seen' = seen \cup new /\ counted' = all \ closed /\ wm' = w /\ input' = input
         /\ Written' = Written \cup {k}
    BY <1>1, <1>9
  <2>16. \A o, size : WindowOf(o, size)' = WindowOf(o, size)
    BY <2>15 DEF WindowOf
  <2>17. QED
    BY <2>9, <2>11, <2>13, <2>14, <2>15, <2>16 DEF WindowsWritten
<1>16. RowsComputed'
  <2> SUFFICES ASSUME Kind = "gold" PROVE RowsComputed'
    BY DEF RowsComputed
  <2>1. table'[k] = GoldRows(closed, input) /\ \A n \in Written : table'[n] = table[n]
    BY <1>8
  <2>2. ASSUME NEW g \in GoldRows(closed, input)
        PROVE  /\ g.rows # {} /\ g.rows \subseteq seen \cup new
               /\ g.aggregates = Aggregates(input, g.rows)
               /\ g.signals = WindowSignals(input, g.rows, g.aggregates)
    <3>1. closed \in SUBSET Count
      BY <1>7
    <3>2. /\ g.rows # {} /\ g.aggregates = Aggregates(input, g.rows)
          /\ g.signals = WindowSignals(input, g.rows, g.aggregates)
          /\ \A o \in g.rows : \E c \in closed : c.row = o
      BY <3>1, GoldRowsPerWindow
    <3>3. QED
      BY <3>2, <1>7
  <2>3. \A n \in Written : \A g \in table[n] :
          /\ g.rows # {} /\ g.rows \subseteq seen \cup new
          /\ g.aggregates = Aggregates(input, g.rows)
          /\ g.signals = WindowSignals(input, g.rows, g.aggregates)
    BY DEF RowsComputed
  <2>4. seen' = seen \cup new /\ input' = input /\ Written' = Written \cup {k}
    BY <1>1, <1>9
  <2>5. QED
    BY <2>1, <2>2, <2>3, <2>4 DEF RowsComputed
<1>17. QED
  BY <1>10, <1>11, <1>12, <1>13, <1>14, <1>15, <1>16

LEMMA QuerySteps == QueryInv /\ [Next]_vars => QueryInv'
<1> SUFFICES ASSUME QueryInv, [Next]_vars PROVE QueryInv'
  OBVIOUS
<1>1. ASSUME NEW r \in Records, Arrive(r) PROVE QueryInv'
  BY <1>1, ArriveKeeps
<1>2. ASSUME NEW end \in done .. Len(input), NEW w \in Watermarks, Batch(end, w)
      PROVE  QueryInv'
  BY <1>2, BatchKeeps
<1>3. CASE UNCHANGED vars
  <2>1. /\ input' = input /\ done' = done /\ wm' = wm /\ seen' = seen
        /\ counted' = counted /\ table' = table
    BY <1>3 DEF vars
  <2>2. QueryTypes' <=> QueryTypes
    BY <2>1 DEF QueryTypes
  <2>3. (Justified' <=> Justified) /\ (SeenOnce' <=> SeenOnce)
    BY <2>1 DEF Justified, SeenOnce
  <2>4. OnTimeSeen' <=> OnTimeSeen
    BY <2>1 DEF OnTimeSeen, OnTime
  <2>5. SeenIsWritten' <=> SeenIsWritten
    BY <2>1 DEF SeenIsWritten, Written
  <2>6. WindowsWritten' <=> WindowsWritten
    <3>1. Written' = Written /\ \A o, size : WindowOf(o, size)' = WindowOf(o, size)
      BY <2>1 DEF Written, WindowOf
    <3>2. QED
      BY <2>1, <3>1 DEF WindowsWritten
  <2>7. RowsComputed' <=> RowsComputed
    BY <2>1 DEF RowsComputed, Written
  <2>8. QED
    BY <2>2, <2>3, <2>4, <2>5, <2>6, <2>7 DEF QueryInv
<1>4. QED
  BY <1>1, <1>2, <1>3 DEF Next

(***************************************************************************)
(* The invariant of a query without faults, for every input, cut of the    *)
(* batches and lag of the watermark (features.py).                         *)
(***************************************************************************)
THEOREM QueryInvariance == Spec => []QueryInv
BY QueryStarts, QuerySteps, PTL DEF Spec

=============================================================================
