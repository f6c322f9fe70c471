-------------------------- MODULE EventTimeProofs --------------------------
(***************************************************************************)
(* TLAPS proofs of what the operators of EventTime return, for every       *)
(* input: the watermark, the deduplication, windows and the rows of Gold;  *)
(* that nothing of it changes when the input grows behind the rows it is   *)
(* computed from; and that what is computed from more rows is no less.     *)
(***************************************************************************)
EXTENDS EventTime, FiniteSetTheorems, TLAPS

\* What a batch may add to a table.
Batches == (SUBSET Nat) \cup {GoldRows(c, i) : c \in SUBSET Count, i \in Seq(Records)}

LEMMA Smallest ==
  ASSUME NEW S \in SUBSET Nat, S # {}
  PROVE  \E n \in S : \A m \in S : n <= m
<1> DEFINE R == {ss \in Nat \X Nat : ss[1] < ss[2]}
<1>0. R = OpToRel(<, Nat)
  BY Zenon DEF OpToRel
<1>1. \E x \in S : \A y \in S : ~ (<<y, x>> \in R)
  <2> HIDE DEF R
  <2> QED BY <1>0, NatLessThanWellFounded, WFMin
<1>2. \A x, y \in S : ~ (<<y, x>> \in R) => x <= y
  OBVIOUS
<1>3. QED
  <2> HIDE DEF R
  <2> QED BY <1>1, <1>2

LEMMA Largest ==
  ASSUME NEW S \in SUBSET Nat, S # {}, NEW b \in Nat, \A n \in S : n <= b
  PROVE  \E n \in S : \A m \in S : m <= n
<1> DEFINE T == {m \in Nat : \E n \in S : m + n = b}
<1>1. T \in SUBSET Nat /\ T # {}
  <2>1. PICK n \in S : TRUE
    OBVIOUS
  <2>2. b - n \in T
    BY <2>1
  <2>3. QED
    BY <2>2
<1>2. PICK x \in T : \A y \in T : x <= y
  <2> HIDE DEF T
  <2> QED BY <1>1, Smallest
<1>3. PICK n \in S : x + n = b
  BY <1>2
<1>4. ASSUME NEW m \in S PROVE m <= n
  <2>1. b - m \in Nat /\ (b - m) + m = b
    OBVIOUS
  <2>2. b - m \in T
    BY <2>1
  <2>3. x <= b - m /\ x \in Nat
    BY <1>2, <2>2
  <2>4. QED
    BY <2>3, <2>1, <1>3
<1>5. QED
  BY <1>4

-----------------------------------------------------------------------------
(* The watermark *)

LEMMA JustifiedTypes ==
  ASSUME NEW i \in Seq(Records), NEW o \in 1 .. Len(i)
  PROVE  /\ i[o] \in Records
         /\ i[o].time \in 1 .. MaxTime
         /\ Minus(i[o].time, Delay) \in Nat
         /\ Minus(i[o].time, Delay) <= MaxTime
         /\ Minus(i[o].time, Delay) \in Watermarks
<1>1. i[o] \in Records
  OBVIOUS
<1>2. i[o].time \in 1 .. MaxTime /\ Delay \in Nat /\ MaxTime \in Nat
  BY <1>1, EventTimeAssumption
<1>3. Minus(i[o].time, Delay) \in Nat /\ Minus(i[o].time, Delay) <= MaxTime
  BY <1>2 DEF Minus
<1>4. QED
  BY <1>1, <1>2, <1>3 DEF Watermarks

LEMMA AdvanceIsLatest ==
  ASSUME NEW i \in Seq(Records), NEW w \in Nat, NEW rows \in SUBSET (1 .. Len(i))
  PROVE  /\ Advance(w, i, rows) \in {w} \cup {Minus(i[o].time, Delay) : o \in rows}
         /\ Advance(w, i, rows) \in Nat
         /\ w <= Advance(w, i, rows)
         /\ \A o \in rows : Minus(i[o].time, Delay) <= Advance(w, i, rows)
<1> DEFINE J == {w} \cup {Minus(i[o].time, Delay) : o \in rows}
<1>1. J \in SUBSET Nat /\ J # {}
  BY JustifiedTypes
<1>2. PICK b \in Nat : \A n \in J : n <= b
  <2>1. w + MaxTime \in Nat /\ \A n \in J : n <= w + MaxTime
    BY JustifiedTypes, EventTimeAssumption
  <2>2. QED
    BY <2>1
<1>3. \E n \in J : \A m \in J : m <= n
  <2> HIDE DEF J
  <2> QED BY <1>1, <1>2, Largest
<1>4. Advance(w, i, rows) \in J /\ \A m \in J : m <= Advance(w, i, rows)
  BY <1>3 DEF Advance
<1>5. QED
  BY <1>1, <1>4

\* A watermark no later than some of the events is no later than Advance.
LEMMA AdvanceBounds ==
  ASSUME NEW i \in Seq(Records), NEW n \in 0 .. Len(i), NEW w \in Nat,
         w = 0 \/ \E p \in 1 .. n : w <= Minus(i[p].time, Delay)
  PROVE  w <= Advance(0, i, 1 .. n)
<1>1. 1 .. n \in SUBSET (1 .. Len(i))
  OBVIOUS
<1>2. /\ Advance(0, i, 1 .. n) \in Nat
      /\ \A o \in 1 .. n : Minus(i[o].time, Delay) <= Advance(0, i, 1 .. n)
  BY <1>1, AdvanceIsLatest
<1>3. CASE w = 0
  BY <1>2, <1>3
<1>4. CASE \E p \in 1 .. n : w <= Minus(i[p].time, Delay)
  <2>1. PICK p \in 1 .. n : w <= Minus(i[p].time, Delay)
    BY <1>4
  <2>2. Minus(i[p].time, Delay) \in Nat /\ Minus(i[p].time, Delay) <= Advance(0, i, 1 .. n)
    BY <1>2, JustifiedTypes
  <2>3. QED
    BY <1>2, <2>1, <2>2
<1>5. QED
  BY <1>3, <1>4

-----------------------------------------------------------------------------
(* The deduplication *)

\* Nothing accepted repeats a transaction.
LEMMA AcceptedDistinct ==
  ASSUME NEW i \in Seq(Records), NEW rows \in SUBSET (1 .. Len(i)), NEW w, NEW seen
  PROVE  /\ Accepted(i, rows, w, seen) \subseteq rows
         /\ \A o \in Accepted(i, rows, w, seen) :
              /\ ~Late(i[o].time, w)
              /\ \A p \in seen : i[p].id # i[o].id
         /\ \A o, p \in Accepted(i, rows, w, seen) : i[o].id = i[p].id => o = p
<1>1. ASSUME NEW o \in Accepted(i, rows, w, seen), NEW p \in Accepted(i, rows, w, seen),
             i[o].id = i[p].id, p < o
      PROVE  FALSE
  BY <1>1 DEF Accepted
<1>2. ASSUME NEW o \in Accepted(i, rows, w, seen), NEW p \in Accepted(i, rows, w, seen),
             i[o].id = i[p].id
      PROVE  o = p
  <2>1. o \in Nat /\ p \in Nat
    BY DEF Accepted
  <2>2. ~(p < o) /\ ~(o < p)
    BY <1>1, <1>2
  <2>3. QED
    BY <2>1, <2>2
<1>3. QED
  BY <1>2 DEF Accepted

\* A row that is not late is there, itself or another of its id.
LEMMA AcceptedCovers ==
  ASSUME NEW i \in Seq(Records), NEW rows \in SUBSET (1 .. Len(i)), NEW w, NEW seen,
         NEW o \in rows, ~Late(i[o].time, w)
  PROVE  \E p \in seen \cup Accepted(i, rows, w, seen) : i[p].id = i[o].id
<1> SUFFICES ASSUME \A p \in seen : i[p].id # i[o].id
             PROVE  \E p \in Accepted(i, rows, w, seen) : i[p].id = i[o].id
  OBVIOUS
<1> DEFINE S == {p \in rows : i[p].id = i[o].id /\ ~Late(i[p].time, w)}
<1>1. S \in SUBSET Nat /\ S # {}
  <2>1. o \in S
    OBVIOUS
  <2>2. S \subseteq rows /\ rows \subseteq Nat
    OBVIOUS
  <2>3. QED
    BY <2>1, <2>2
<1>2. PICK p \in S : \A m \in S : p <= m
  <2> HIDE DEF S
  <2> QED BY <1>1, Smallest
<1>3. p \in rows /\ i[p].id = i[o].id /\ ~Late(i[p].time, w)
  BY <1>2
<1>4. ASSUME NEW m \in rows, m < p, i[m].id = i[p].id PROVE Late(i[m].time, w)
  BY <1>2, <1>3, <1>4
<1>5. p \in Accepted(i, rows, w, seen)
  BY <1>3, <1>4 DEF Accepted
<1>6. QED
  BY <1>3, <1>5

-----------------------------------------------------------------------------
(* Windows and the rows of Gold *)

\* A window ends after every event in it.
LEMMA WindowAround ==
  ASSUME NEW i \in Seq(Records), NEW c \in Count, c.row \in 1 .. Len(i)
  PROVE  /\ Window(i, c).end \in Nat
         /\ i[c.row].time < Window(i, c).end
         /\ Window(i, c).size = c.size
<1>1. i[c.row].time \in Nat /\ c.size \in Nat \ {0}
  BY JustifiedTypes, EventTimeAssumption DEF Count
<1>2. i[c.row].time % c.size \in 0 .. c.size - 1
  BY <1>1
<1> DEFINE t == i[c.row].time
           m == t % c.size
<1>3. /\ t - m + c.size \in Nat
      /\ t < t - m + c.size
  <2> HIDE DEF m
  <2>0. t \in Nat /\ m \in Nat /\ m < c.size /\ c.size \in Nat
    <3> QED BY <1>1, <1>2 DEF m
  <2> HIDE DEF t
  <2> QED BY <2>0
<1>4. Window(i, c).end = t - m + c.size /\ Window(i, c).size = c.size
  BY DEF Window
<1>5. QED
  BY <1>3, <1>4

\* One row per window of the closed counts, of the rows counted in it.
LEMMA GoldRowsPerWindow ==
  ASSUME NEW i, NEW closed \in SUBSET Count
  PROVE  /\ \A g, h \in GoldRows(closed, i) : g.window = h.window => g = h
         /\ \A g \in GoldRows(closed, i) :
              /\ \E c \in closed : Window(i, c) = g.window
              /\ g.rows # {} /\ g.aggregates = Aggregates(i, g.rows)
              /\ g.signals = WindowSignals(i, g.rows, g.aggregates)
              /\ \A o \in g.rows : \E c \in closed : c.row = o /\ Window(i, c) = g.window
         /\ \A c \in closed : \E g \in GoldRows(closed, i) :
              g.window = Window(i, c) /\ c.row \in g.rows
<1> DEFINE rows(w) == {c.row : c \in {d \in closed : Window(i, d) = w}}
           Row(w) == [window |-> w, rows |-> rows(w), aggregates |-> Aggregates(i, rows(w)),
                      signals |-> WindowSignals(i, rows(w), Aggregates(i, rows(w)))]
<1>1. GoldRows(closed, i) = {Row(w) : w \in {Window(i, c) : c \in closed}}
  BY DEF GoldRows
<1>2. \A w : /\ Row(w).window = w /\ Row(w).rows = rows(w)
             /\ Row(w).aggregates = Aggregates(i, Row(w).rows)
             /\ Row(w).signals = WindowSignals(i, Row(w).rows, Row(w).aggregates)
  OBVIOUS
<1>3. \A w, o : o \in rows(w) => \E c \in closed : c.row = o /\ Window(i, c) = w
  OBVIOUS
<1>4. \A c \in closed : c.row \in rows(Window(i, c))
  OBVIOUS
<1> HIDE DEF rows, Row
<1>5. \A g \in GoldRows(closed, i) :
        \E c \in closed : g = Row(Window(i, c))
  BY <1>1
<1>6. \A c \in closed : Row(Window(i, c)) \in GoldRows(closed, i)
  BY <1>1
<1>7. \A g, h \in GoldRows(closed, i) : g.window = h.window => g = h
  BY <1>2, <1>5
<1>8. \A g \in GoldRows(closed, i) :
        /\ \E c \in closed : Window(i, c) = g.window
        /\ g.rows # {} /\ g.aggregates = Aggregates(i, g.rows)
        /\ g.signals = WindowSignals(i, g.rows, g.aggregates)
        /\ \A o \in g.rows : \E c \in closed : c.row = o /\ Window(i, c) = g.window
  BY <1>2, <1>3, <1>4, <1>5
<1>9. \A c \in closed : \E g \in GoldRows(closed, i) :
        g.window = Window(i, c) /\ c.row \in g.rows
  BY <1>2, <1>4, <1>6
<1>10. QED
  BY <1>7, <1>8, <1>9

-----------------------------------------------------------------------------
(* A topic that has grown: what was computed from its old rows stays *)

Grown(i, j) ==
  /\ i \in Seq(Records) /\ j \in Seq(Records)
  /\ \A o \in 1 .. Len(i) : j[o] = i[o]

LEMMA AcceptedStays ==
  ASSUME NEW i, NEW j, Grown(i, j), NEW rows \in SUBSET (1 .. Len(i)),
         NEW seen \in SUBSET (1 .. Len(i)), NEW w
  PROVE  Accepted(j, rows, w, seen) = Accepted(i, rows, w, seen)
<1>1. \A o \in rows \cup seen : j[o] = i[o]
  BY DEF Grown
<1>2. \A o \in rows : Late(j[o].time, w) <=> Late(i[o].time, w)
  BY <1>1
<1>3. QED
  BY <1>1, <1>2 DEF Accepted

LEMMA WindowStays ==
  ASSUME NEW i, NEW j, Grown(i, j), NEW c \in Count, c.row \in 1 .. Len(i)
  PROVE  Window(j, c) = Window(i, c)
<1>1. j[c.row] = i[c.row]
  BY DEF Grown
<1>2. QED
  BY <1>1 DEF Window

LEMMA CountsStay ==
  ASSUME NEW i, NEW j, Grown(i, j), NEW rows \in SUBSET (1 .. Len(i)), NEW w
  PROVE  Counts(j, rows, w) = Counts(i, rows, w)
<1>1. ASSUME NEW c \in [size : Sizes, row : rows] PROVE Window(j, c) = Window(i, c)
  <2>1. c \in Count /\ c.row \in 1 .. Len(i)
    BY DEF Count, Grown
  <2>2. QED
    BY <2>1, WindowStays
<1>2. QED
  BY <1>1 DEF Counts

LEMMA ClosedStays ==
  ASSUME NEW i, NEW j, Grown(i, j), NEW counted \in SUBSET Count,
         \A c \in counted : c.row \in 1 .. Len(i), NEW w
  PROVE  Closed(counted, j, w) = Closed(counted, i, w)
<1>1. \A c \in counted : Window(j, c) = Window(i, c)
  BY WindowStays
<1>2. QED
  BY <1>1 DEF Closed

LEMMA AggregatesStay ==
  ASSUME NEW i, NEW j, Grown(i, j), NEW rows \in SUBSET (1 .. Len(i))
  PROVE  /\ Aggregates(j, rows) = Aggregates(i, rows)
         /\ \A agg : WindowSignals(j, rows, agg) = WindowSignals(i, rows, agg)
<1>1. \A o \in rows : j[o] = i[o]
  BY DEF Grown
<1>2. [o \in rows |-> j[o].amount] = [o \in rows |-> i[o].amount]
  BY <1>1
<1>3. AmountSum(j, rows) = AmountSum(i, rows)
  BY <1>2, Zenon DEF AmountSum
<1>4. Locations(j, rows) = Locations(i, rows)
  BY <1>1 DEF Locations
<1>5. {j[o].device : o \in rows} = {i[o].device : o \in rows}
  BY <1>1
<1>6. {o \in rows : IsHighAmount(j[o])} = {o \in rows : IsHighAmount(i[o])}
  BY <1>1
<1>7. Aggregates(j, rows) = Aggregates(i, rows)
  BY <1>3, <1>4, <1>5, <1>6, Zenon DEF Aggregates
<1>8. FarApart(j, rows) <=> FarApart(i, rows)
  <2>1. /\ {j[o].latitude : o \in rows} = {i[o].latitude : o \in rows}
        /\ {j[o].longitude : o \in rows} = {i[o].longitude : o \in rows}
    BY <1>1
  <2>2. QED
    BY <2>1, Zenon DEF FarApart
<1>9. ASSUME NEW agg PROVE WindowSignals(j, rows, agg) = WindowSignals(i, rows, agg)
  BY <1>8, Zenon DEF WindowSignals
<1>10. QED
  BY <1>7, <1>9

LEMMA GoldRowsStay ==
  ASSUME NEW i, NEW j, Grown(i, j), NEW closed \in SUBSET Count,
         \A c \in closed : c.row \in 1 .. Len(i)
  PROVE  GoldRows(closed, j) = GoldRows(closed, i)
<1> DEFINE rows(k, w) == {c.row : c \in {d \in closed : Window(k, d) = w}}
           Row(k, w) == [window |-> w, rows |-> rows(k, w), aggregates |-> Aggregates(k, rows(k, w)),
                         signals |-> WindowSignals(k, rows(k, w), Aggregates(k, rows(k, w)))]
<1>1. \A c \in closed : Window(j, c) = Window(i, c)
  BY WindowStays
<1>2. ASSUME NEW w PROVE Row(j, w) = Row(i, w)
  <2>1. rows(j, w) = rows(i, w)
    BY <1>1
  <2>2. rows(i, w) \in SUBSET (1 .. Len(i))
    OBVIOUS
  <2> HIDE DEF rows
  <2>3. /\ Aggregates(j, rows(i, w)) = Aggregates(i, rows(i, w))
        /\ \A agg : WindowSignals(j, rows(i, w), agg) = WindowSignals(i, rows(i, w), agg)
    BY <2>2, AggregatesStay
  <2>4. QED
    BY <2>1, <2>3
<1>3. GoldRows(closed, j) = {Row(j, Window(j, c)) : c \in closed}
  BY DEF GoldRows
<1>4. GoldRows(closed, i) = {Row(i, Window(i, c)) : c \in closed}
  BY DEF GoldRows
<1>5. QED
  <2> HIDE DEF Row
  <2> QED BY <1>1, <1>2, <1>3, <1>4

LEMMA AdvanceStays ==
  ASSUME NEW i, NEW j, Grown(i, j), NEW rows \in SUBSET (1 .. Len(i)), NEW w
  PROVE  Advance(w, j, rows) = Advance(w, i, rows)
<1>1. {Minus(j[o].time, Delay) : o \in rows} = {Minus(i[o].time, Delay) : o \in rows}
  BY DEF Grown
<1>2. QED
  BY <1>1, Zenon DEF Advance

-----------------------------------------------------------------------------
(* Sums: SumFunction folds a CHOSEN function over the subsets of the rows *)

\* The element that SumFunction takes next, and what it leaves.
Pick(s) == CHOOSE x \in s : TRUE
Rest(s) == s \ {Pick(s)}

\* F is the sum of f over each subset of S, as SumFunction forms it.
IsSum(F, f, S) == F = [s \in SUBSET S |-> IF s = {} THEN 0 ELSE f[Pick(s)] + F[Rest(s)]]

SumOver(f, S) == CHOOSE F : IsSum(F, f, S)
Total(f, S) == SumOver(f, S)[S]

LEMMA SumIsTotal == \A f : SumFunction(f) = Total(f, DOMAIN f)
BY Zenon DEF SumFunction, SumFunctionOnSet, FoldFunctionOnSet, MapThenFoldSet,
             Total, SumOver, IsSum, Pick, Rest

\* A set of finite sets that is not empty has one of the fewest elements.
LEMMA Fewest ==
  ASSUME NEW S, IsFiniteSet(S), NEW B \in SUBSET (SUBSET S), B # {}
  PROVE  \E s \in B : \A t \in B : Cardinality(s) <= Cardinality(t)
<1> DEFINE N == {n \in Nat : \E s \in B : n = Cardinality(s)}
<1>1. \A s \in B : IsFiniteSet(s) /\ Cardinality(s) \in Nat
  BY FS_Subset, FS_CardinalityType
<1>2. N \in SUBSET Nat /\ N # {} /\ \A s \in B : Cardinality(s) \in N
  BY <1>1
<1>3. PICK n \in N : \A m \in N : n <= m
  <2> HIDE DEF N
  <2> QED BY <1>2, Smallest
<1>4. QED
  BY <1>2, <1>3

LEMMA RestOfSet ==
  ASSUME NEW s, IsFiniteSet(s), s # {}
  PROVE  /\ Pick(s) \in s /\ Rest(s) \subseteq s /\ IsFiniteSet(Rest(s))
         /\ Cardinality(Rest(s)) < Cardinality(s)
<1>1. Pick(s) \in s
  BY DEF Pick
<1>2. IsFiniteSet(Rest(s)) /\ Cardinality(Rest(s)) = Cardinality(s) - 1
  BY <1>1, FS_RemoveElement DEF Rest
<1>3. Cardinality(s) \in Nat
  BY FS_CardinalityType
<1>4. QED
  BY <1>1, <1>2, <1>3 DEF Rest

LEMMA SumUnique ==
  ASSUME NEW S, IsFiniteSet(S), NEW f, NEW F, NEW G, IsSum(F, f, S), IsSum(G, f, S)
  PROVE  F = G
<1> DEFINE B == {s \in SUBSET S : F[s] # G[s]}
<1>1. B = {}
  <2> SUFFICES ASSUME B # {} PROVE FALSE
    OBVIOUS
  <2>1. PICK s \in B : \A t \in B : Cardinality(s) <= Cardinality(t)
    <3>1. B \in SUBSET (SUBSET S)
      OBVIOUS
    <3> HIDE DEF B
    <3> QED BY <3>1, Fewest
  <2>2. IsFiniteSet(s) /\ Cardinality(s) \in Nat
    BY FS_Subset, FS_CardinalityType
  <2>3. s # {}
    BY DEF IsSum
  <2>4. Rest(s) \in SUBSET S /\ Cardinality(Rest(s)) \in Nat /\ Cardinality(Rest(s)) < Cardinality(s)
    BY <2>2, <2>3, RestOfSet, FS_CardinalityType
  <2>5. F[Rest(s)] = G[Rest(s)]
    BY <2>1, <2>2, <2>4
  <2>6. QED
    BY <2>3, <2>5 DEF IsSum
<1>2. QED
  BY <1>1 DEF IsSum

\* A sum over the subsets of S is one over those of a part of S.
LEMMA SumOfPart ==
  ASSUME NEW S, IsFiniteSet(S), NEW f, NEW F, IsSum(F, f, S), NEW T \in SUBSET S
  PROVE  IsSum([s \in SUBSET T |-> F[s]], f, T)
<1>1. \A s \in SUBSET T : Rest(s) \in SUBSET T
  BY DEF Rest
<1>2. QED
  BY <1>1 DEF IsSum

LEMMA SumExists ==
  ASSUME NEW S, IsFiniteSet(S), NEW f
  PROVE  IsSum(SumOver(f, S), f, S)
<1> DEFINE B == {T \in SUBSET S : ~IsSum(SumOver(f, T), f, T)}
<1>1. B = {}
  <2> SUFFICES ASSUME B # {} PROVE FALSE
    OBVIOUS
  <2>1. PICK T \in B : \A t \in B : Cardinality(T) <= Cardinality(t)
    <3>1. B \in SUBSET (SUBSET S)
      OBVIOUS
    <3> HIDE DEF B
    <3> QED BY <3>1, Fewest
  <2>2. IsFiniteSet(T) /\ Cardinality(T) \in Nat /\ T \in SUBSET S /\ ~IsSum(SumOver(f, T), f, T)
    BY <2>1, FS_Subset, FS_CardinalityType
  <2> DEFINE value(s) == IF s = {} THEN 0 ELSE f[Pick(s)] + Total(f, Rest(s))
             F == [s \in SUBSET T |-> value(s)]
  <2>3. ASSUME NEW u \in SUBSET T, Cardinality(u) < Cardinality(T)
        PROVE  /\ IsSum(SumOver(f, u), f, u)
    <3>1. u \in SUBSET S /\ Cardinality(u) \in Nat
      BY <2>2, FS_Subset, FS_CardinalityType
    <3>2. u \notin B
      BY <2>1, <2>2, <2>3, <3>1
    <3>3. QED
      BY <3>1, <3>2
  <2>4. ASSUME NEW u \in SUBSET T, Cardinality(u) < Cardinality(T)
        PROVE  Total(f, u) = value(u)
    <3> DEFINE G == SumOver(f, u)
    <3>1. IsSum(G, f, u) /\ IsFiniteSet(u) /\ Cardinality(u) \in Nat
      BY <2>3, <2>4, <2>2, FS_Subset, FS_CardinalityType
    <3>2. CASE u = {}
      BY <3>1, <3>2 DEF IsSum, Total
    <3>3. CASE u # {}
      <4> DEFINE r == Rest(u)
                 H == [s \in SUBSET r |-> G[s]]
      <4>1. /\ r \in SUBSET u /\ r \in SUBSET T /\ IsFiniteSet(r)
            /\ Cardinality(r) \in Nat /\ Cardinality(r) < Cardinality(T)
        BY <3>1, <3>3, <2>2, <2>4, RestOfSet, FS_CardinalityType
      <4>2. IsSum(H, f, r)
        <5> HIDE DEF G, r
        <5> QED BY <3>1, <4>1, SumOfPart
      <4>3. IsSum(SumOver(f, r), f, r)
        BY <4>1, <2>3
      <4>4. H = SumOver(f, r)
        <5> HIDE DEF H, r
        <5> QED BY <4>1, <4>2, <4>3, SumUnique
      <4>5. G[r] = Total(f, r)
        BY <4>4 DEF Total
      <4>6. G[u] = f[Pick(u)] + G[r]
        BY <3>1, <3>3 DEF IsSum
      <4>7. QED
        BY <4>5, <4>6, <3>3 DEF Total
    <3>4. QED
      BY <3>2, <3>3
  <2>5. \A s \in SUBSET T : s # {} => F[Rest(s)] = Total(f, Rest(s))
    <3>1. ASSUME NEW s \in SUBSET T, s # {}
          PROVE  Rest(s) \in SUBSET T /\ Cardinality(Rest(s)) < Cardinality(T)
      <4>1. /\ IsFiniteSet(s) /\ Cardinality(s) \in Nat /\ Cardinality(s) <= Cardinality(T)
        BY <2>2, FS_Subset, FS_CardinalityType
      <4>2. IsFiniteSet(Rest(s)) /\ Cardinality(Rest(s)) < Cardinality(s) /\ Rest(s) \subseteq s
        BY <3>1, <4>1, RestOfSet
      <4>3. Cardinality(Rest(s)) \in Nat
        BY <4>2, FS_CardinalityType
      <4>4. QED
        BY <2>2, <4>1, <4>2, <4>3
    <3> HIDE DEF value
    <3>2. QED
      BY <3>1, <2>4
  <2>6. IsSum(F, f, T)
    BY <2>5 DEF IsSum
  <2>7. QED
    <3> HIDE DEF F
    <3> QED BY <2>2, <2>6 DEF SumOver
<1>2. S \notin B
  BY <1>1
<1>3. QED
  BY <1>2

LEMMA TotalFolds ==
  ASSUME NEW S, IsFiniteSet(S), NEW f
  PROVE  Total(f, S) = IF S = {} THEN 0 ELSE f[Pick(S)] + Total(f, Rest(S))
<1>1. IsSum(SumOver(f, S), f, S)
  BY SumExists
<1>2. CASE S # {}
  <2> DEFINE r == Rest(S)
             F == SumOver(f, S)
             H == [s \in SUBSET r |-> F[s]]
  <2>1. r \in SUBSET S /\ IsFiniteSet(r)
    BY <1>2, RestOfSet
  <2>2. IsSum(H, f, r) /\ IsSum(SumOver(f, r), f, r)
    <3> HIDE DEF r, F
    <3>1. IsSum(F, f, S)
      BY <1>1 DEF F
    <3> QED BY <2>1, <3>1, SumOfPart, SumExists
  <2>3. H = SumOver(f, r)
    <3> HIDE DEF H, r
    <3> QED BY <2>1, <2>2, SumUnique
  <2>4. F[r] = Total(f, r)
    BY <2>3 DEF Total
  <2>5. F[S] = f[Pick(S)] + F[r]
    BY <1>1, <1>2 DEF IsSum
  <2>6. QED
    BY <1>2, <2>4, <2>5 DEF Total
<1>3. CASE S = {}
  BY <1>1, <1>3 DEF IsSum, Total
<1>4. QED
  BY <1>2, <1>3

\* Only the values on the set matter.
LEMMA TotalSame ==
  ASSUME NEW S, IsFiniteSet(S), NEW f, NEW g, \A o \in S : f[o] = g[o]
  PROVE  Total(f, S) = Total(g, S)
<1>1. IsSum(SumOver(f, S), f, S) /\ IsSum(SumOver(g, S), g, S)
  BY SumExists
<1>2. \A s \in SUBSET S : s # {} => f[Pick(s)] = g[Pick(s)]
  BY DEF Pick
<1>3. IsSum(SumOver(f, S), g, S)
  <2> DEFINE F == SumOver(f, S)
  <2>1. IsSum(F, f, S)
    BY <1>1
  <2> HIDE DEF F
  <2>2. IsSum(F, g, S)
    BY <2>1, <1>2 DEF IsSum
  <2>3. QED
    BY <2>2 DEF F
<1>4. QED
  BY <1>1, <1>3, SumUnique DEF Total

\* The amounts are natural numbers, and so is their sum.
LEMMA TotalIsNat ==
  ASSUME NEW S, IsFiniteSet(S), NEW f, \A o \in S : f[o] \in Nat
  PROVE  Total(f, S) \in Nat
<1> DEFINE B == {T \in SUBSET S : Total(f, T) \notin Nat}
<1>1. B = {}
  <2> SUFFICES ASSUME B # {} PROVE FALSE
    OBVIOUS
  <2>1. PICK T \in B : \A t \in B : Cardinality(T) <= Cardinality(t)
    <3>1. B \in SUBSET (SUBSET S)
      OBVIOUS
    <3> HIDE DEF B
    <3> QED BY <3>1, Fewest
  <2>2. IsFiniteSet(T) /\ Cardinality(T) \in Nat
    BY FS_Subset, FS_CardinalityType
  <2>3. Total(f, T) = IF T = {} THEN 0 ELSE f[Pick(T)] + Total(f, Rest(T))
    BY <2>2, TotalFolds
  <2>4. T # {}
    BY <2>3
  <2>5. /\ Pick(T) \in T /\ Rest(T) \in SUBSET S
        /\ Cardinality(Rest(T)) \in Nat /\ Cardinality(Rest(T)) < Cardinality(T)
    BY <2>2, <2>4, RestOfSet, FS_CardinalityType
  <2>6. Rest(T) \notin B
    BY <2>1, <2>2, <2>5
  <2>7. Total(f, Rest(T)) \in Nat /\ f[Pick(T)] \in Nat
    BY <2>5, <2>6
  <2>8. QED
    BY <2>3, <2>4, <2>7
<1>2. QED
  BY <1>1

\* In which order the amounts are taken does not matter.
LEMMA TotalWithout ==
  ASSUME NEW S, IsFiniteSet(S), NEW f, \A o \in S : f[o] \in Nat, NEW e \in S
  PROVE  Total(f, S) = f[e] + Total(f, S \ {e})
<1> DEFINE B == {T \in SUBSET S : \E x \in T : Total(f, T) # f[x] + Total(f, T \ {x})}
<1>1. B = {}
  <2> SUFFICES ASSUME B # {} PROVE FALSE
    OBVIOUS
  <2>1. PICK T \in B : \A t \in B : Cardinality(T) <= Cardinality(t)
    <3>1. B \in SUBSET (SUBSET S)
      OBVIOUS
    <3> HIDE DEF B
    <3> QED BY <3>1, Fewest
  <2>2. PICK x \in T : Total(f, T) # f[x] + Total(f, T \ {x})
    BY <2>1
  <2>3. IsFiniteSet(T) /\ Cardinality(T) \in Nat /\ T \in SUBSET S /\ T # {}
    BY FS_Subset, FS_CardinalityType
  <2> DEFINE p == Pick(T)
  <2>4. /\ Total(f, T) = f[p] + Total(f, T \ {p}) /\ p \in T
    BY <2>3, TotalFolds, RestOfSet DEF Rest
  <2>5. \A u \in SUBSET T : /\ IsFiniteSet(u) /\ Cardinality(u) \in Nat
                            /\ Total(f, u) \in Nat
    BY <2>3, FS_Subset, FS_CardinalityType, TotalIsNat
  <2>6. ASSUME NEW y \in T, NEW z \in T \ {y}
        PROVE  Total(f, T \ {y}) = f[z] + Total(f, (T \ {y}) \ {z})
    <3>1. T \ {y} \in SUBSET S /\ Cardinality(T \ {y}) = Cardinality(T) - 1
      BY <2>3, FS_RemoveElement
    <3>2. Cardinality(T \ {y}) \in Nat
      BY <2>5
    <3>3. T \ {y} \notin B
      BY <2>1, <2>3, <3>1, <3>2
    <3>4. QED
      BY <3>1, <3>3
  <2>7. p # x
    BY <2>2, <2>4
  <2> HIDE DEF p
  <2>8. /\ Total(f, T \ {p}) = f[x] + Total(f, (T \ {p}) \ {x})
        /\ Total(f, T \ {x}) = f[p] + Total(f, (T \ {x}) \ {p})
        /\ (T \ {p}) \ {x} = (T \ {x}) \ {p}
    BY <2>2, <2>4, <2>6, <2>7
  <2>9. f[p] \in Nat /\ f[x] \in Nat /\ Total(f, (T \ {x}) \ {p}) \in Nat
    BY <2>2, <2>3, <2>4, <2>5
  <2>10. QED
    BY <2>2, <2>4, <2>8, <2>9
<1>2. S \notin B
  BY <1>1
<1>3. QED
  BY <1>2

\* More rows do not sum to less.
LEMMA TotalGrows ==
  ASSUME NEW S, IsFiniteSet(S), NEW f, \A o \in S : f[o] \in Nat, NEW T \in SUBSET S
  PROVE  Total(f, T) <= Total(f, S)
<1> DEFINE B == {U \in SUBSET S : T \subseteq U /\ ~(Total(f, T) <= Total(f, U))}
<1>1. B = {}
  <2> SUFFICES ASSUME B # {} PROVE FALSE
    OBVIOUS
  <2>1. PICK U \in B : \A t \in B : Cardinality(U) <= Cardinality(t)
    <3>1. B \in SUBSET (SUBSET S)
      OBVIOUS
    <3> HIDE DEF B
    <3> QED BY <3>1, Fewest
  <2>2. IsFiniteSet(U) /\ Cardinality(U) \in Nat /\ U \in SUBSET S /\ T \subseteq U
    BY FS_Subset, FS_CardinalityType
  <2>3. \A u \in SUBSET U : IsFiniteSet(u) /\ Total(f, u) \in Nat /\ Cardinality(u) \in Nat
    BY <2>2, FS_Subset, FS_CardinalityType, TotalIsNat
  <2>4. PICK e \in U : e \notin T
    BY <2>1, <2>2, <2>3
  <2> DEFINE V == U \ {e}
  <2>5. V \in SUBSET S /\ T \subseteq V /\ Cardinality(V) = Cardinality(U) - 1 /\ V \in SUBSET U
    BY <2>2, <2>4, FS_RemoveElement
  <2>6. V \notin B
    BY <2>1, <2>2, <2>3, <2>5
  <2>7. Total(f, T) <= Total(f, V)
    BY <2>5, <2>6
  <2>8. Total(f, U) = f[e] + Total(f, V) /\ f[e] \in Nat
    BY <2>2, <2>4, TotalWithout
  <2> HIDE DEF V
  <2>9. Total(f, T) \in Nat /\ Total(f, V) \in Nat /\ Total(f, U) \in Nat
    BY <2>2, <2>3, <2>5
  <2>10. QED
    BY <2>1, <2>7, <2>8, <2>9
<1>2. S \notin B
  BY <1>1
<1>3. QED
  BY <1>2

-----------------------------------------------------------------------------
(* More rows, and longer windows around shorter ones *)

\* A record is in one cell of the grid at most.
LEMMA CellIsUnique ==
  ASSUME NEW r \in Records
  PROVE  \A m, n \in Cells(r) : m = n
<1>1. /\ \A m, n \in r.latitude : m = n
      /\ \A m, n \in r.longitude : m = n
  BY EventTimeAssumption
<1>2. \A c \in Cells(r) : \E p \in r.latitude \X r.longitude :
        c = <<Rounded(p[1]), Rounded(p[2])>>
  BY DEF Cells
<1>3. QED
  BY <1>1, <1>2

\* What is counted, added up or found in some rows is in more rows too.
LEMMA AggregatesGrow ==
  ASSUME NEW i \in Seq(Records), NEW S \in SUBSET (1 .. Len(i)), NEW R \in SUBSET S
  PROVE  LET a == Aggregates(i, R)
             b == Aggregates(i, S)
             x == WindowSignals(i, R, a)
             y == WindowSignals(i, S, b)
         IN /\ \A f \in DOMAIN a \ {"amount_sum"} : a[f] <= b[f]
            /\ b.amount_sum = {} \/ \E m \in a.amount_sum, n \in b.amount_sum : m <= n
            /\ \A s \in {"rapid_transaction", "multi_device"} : x[s] => y[s]
<1> DEFINE a == Aggregates(i, R)
           b == Aggregates(i, S)
           x == WindowSignals(i, R, a)
           y == WindowSignals(i, S, b)
<1>1. /\ IsFiniteSet(S) /\ IsFiniteSet(R)
      /\ \A o \in S : i[o].amount \in Nat
  <2>1. IsFiniteSet(1 .. Len(i))
    BY FS_Interval
  <2>2. \A o \in S : i[o] \in Records
    OBVIOUS
  <2>3. \A r \in Records : r.amount \in Nat
    BY EventTimeAssumption
  <2>4. IsFiniteSet(S) /\ IsFiniteSet(R)
    <3>1. IsFiniteSet(S)
      BY <2>1, FS_Subset
    <3>2. QED
      BY <3>1, FS_Subset
  <2>5. QED
    BY <2>2, <2>3, <2>4
<1>2. ASSUME NEW T, IsFiniteSet(T), NEW U \in SUBSET T
      PROVE  Cardinality(U) \in Nat /\ Cardinality(T) \in Nat /\ Cardinality(U) <= Cardinality(T)
  BY <1>2, FS_Subset, FS_CardinalityType
<1>3. IsFiniteSet({i[o].device : o \in S})
  <2> DEFINE T == {i[o].device : o \in S}
             g == [o \in S |-> i[o].device]
  <2>1. g \in Surjection(S, T)
    BY DEF Surjection
  <2>2. QED
    <3> HIDE DEF T, g
    <3> QED BY <2>1, <1>1, FS_Surjection DEF T
<1>4. IsFiniteSet(Locations(i, S))
  <2> DEFINE T == Locations(i, S)
             U == {o \in S : Cells(i[o]) # {}}
             g == [o \in U |-> CHOOSE c : c \in Cells(i[o])]
  <2>1. ASSUME NEW o \in S, NEW c \in Cells(i[o]) PROVE o \in U /\ c = g[o]
    <3>1. i[o] \in Records
      OBVIOUS
    <3>2. \A m, n \in Cells(i[o]) : m = n
      BY <3>1, CellIsUnique
    <3>3. QED
      BY <3>2
  <2>2. \A o \in U : g[o] \in Cells(i[o])
    OBVIOUS
  <2>3. /\ \A c \in T : \E o \in S : c \in Cells(i[o])
        /\ \A o \in S : \A c \in Cells(i[o]) : c \in T
    BY DEF Locations
  <2>4. U \in SUBSET S /\ DOMAIN g = U
    OBVIOUS
  <2> HIDE DEF T, U, g
  <2>5. g = [o \in U |-> g[o]]
    BY DEF g
  <2>6. g \in Surjection(U, T)
    BY <2>1, <2>2, <2>3, <2>4, <2>5 DEF Surjection
  <2>7. IsFiniteSet(U)
    BY <1>1, <2>4, FS_Subset
  <2>8. QED
    BY <2>6, <2>7, FS_Surjection DEF T
<1>5. a.txn_count \in Nat /\ b.txn_count \in Nat /\ a.txn_count <= b.txn_count
  BY <1>1, <1>2 DEF Aggregates
<1>6. /\ a.unique_devices \in Nat /\ b.unique_devices \in Nat
      /\ a.unique_devices <= b.unique_devices
  <2>1. {i[o].device : o \in R} \subseteq {i[o].device : o \in S}
    OBVIOUS
  <2>2. QED
    BY <2>1, <1>2, <1>3 DEF Aggregates
<1>7. /\ a.unique_locations \in Nat /\ b.unique_locations \in Nat
      /\ a.unique_locations <= b.unique_locations
  <2>1. Locations(i, R) \subseteq Locations(i, S)
    BY DEF Locations
  <2>2. QED
    BY <2>1, <1>2, <1>4 DEF Aggregates
<1>8. a.high_amount_count <= b.high_amount_count
  <2>1. /\ {o \in R : IsHighAmount(i[o])} \subseteq {o \in S : IsHighAmount(i[o])}
        /\ IsFiniteSet({o \in S : IsHighAmount(i[o])})
    BY <1>1, FS_Subset
  <2>2. QED
    BY <2>1, <1>2 DEF Aggregates
<1>9. DOMAIN a = {"txn_count", "amount_sum", "unique_devices", "unique_locations",
                  "high_amount_count"}
  BY DEF Aggregates
<1>10. b.amount_sum = {} \/ \E m \in a.amount_sum, n \in b.amount_sum : m <= n
  <2> DEFINE f == [o \in S |-> i[o].amount]
             g == [o \in R |-> i[o].amount]
             m == SumFunction(g)
             n == SumFunction(f)
  <2>1. a.amount_sum = {m} \cap 0 .. MaxAmount /\ b.amount_sum = {n} \cap 0 .. MaxAmount
    BY DEF Aggregates, AmountSum
  <2>2. /\ \A o \in S : f[o] \in Nat
        /\ \A o \in R : f[o] = g[o]
    BY <1>1
  <2>3. DOMAIN f = S /\ DOMAIN g = R
    OBVIOUS
  <2> HIDE DEF f, g
  <2>4. m = Total(g, R) /\ n = Total(f, S)
    BY <2>3, SumIsTotal
  <2>5. Total(g, R) = Total(f, R)
    BY <1>1, <2>2, TotalSame
  <2>6. Total(f, R) \in Nat /\ Total(f, S) \in Nat /\ Total(f, R) <= Total(f, S)
    BY <1>1, <2>2, TotalIsNat, TotalGrows
  <2> HIDE DEF m, n
  <2>7. m \in Nat /\ n \in Nat /\ m <= n
    BY <2>4, <2>5, <2>6
  <2>8. MaxAmount \in Nat
    BY EventTimeAssumption
  <2>9. QED
    BY <2>1, <2>7, <2>8
<1>11. {RapidTxnCount, MultiDevice} \subseteq Nat
  BY EventTimeAssumption
<1> HIDE DEF a, b
<1>12. \A s \in {"rapid_transaction", "multi_device"} : x[s] => y[s]
  <2>1. /\ a.txn_count >= RapidTxnCount => b.txn_count >= RapidTxnCount
        /\ a.unique_devices >= MultiDevice => b.unique_devices >= MultiDevice
    BY <1>5, <1>6, <1>11
  <2>2. /\ x.rapid_transaction <=> a.txn_count >= RapidTxnCount
        /\ x.multi_device <=> a.unique_devices >= MultiDevice
    BY Zenon DEF WindowSignals
  <2>3. /\ y.rapid_transaction <=> b.txn_count >= RapidTxnCount
        /\ y.multi_device <=> b.unique_devices >= MultiDevice
    BY Zenon DEF WindowSignals
  <2> HIDE DEF x, y
  <2>4. QED
    BY <2>1, <2>2, <2>3
<1>13. \A f \in DOMAIN a \ {"amount_sum"} : a[f] <= b[f]
  BY <1>5, <1>6, <1>7, <1>8, <1>9
<1>14. QED
  BY <1>10, <1>12, <1>13 DEF a, b

\* Windows of one size are as long as they are apart: a time in one is in no other.
LEMMA Aligned ==
  ASSUME NEW s \in Nat \ {0}, NEW t \in Nat, NEW u \in Nat,
         t - (t % s) <= u, u < t - (t % s) + s
  PROVE  u - (u % s) = t - (t % s)
<1> DEFINE q == t \div s
           p == u \div s
<1>1. /\ q \in Nat /\ t - (t % s) = s * q
      /\ p \in Nat /\ u = s * p + (u % s) /\ u % s \in 0 .. s - 1
  OBVIOUS
<1> HIDE DEF q, p
<1>2. CASE p = q
  BY <1>1, <1>2
<1>3. ASSUME NEW a \in Nat, NEW b \in Nat, a < b PROVE s * a + s <= s * b
  <2>1. PICK k \in Nat : b = a + 1 + k
    <3>1. b - a - 1 \in Nat /\ b = a + 1 + (b - a - 1)
      BY <1>3
    <3>2. QED
      BY <3>1
  <2>2. s * b = s * a + s + s * k /\ s * k \in Nat
    BY <2>1
  <2>3. s * a \in Nat
    OBVIOUS
  <2>4. QED
    BY <2>2, <2>3
<1>4. CASE p < q
  <2>1. s * p + s <= s * q /\ s * p \in Nat /\ s * q \in Nat
    BY <1>1, <1>3, <1>4
  <2>2. QED
    BY <2>1, <1>1
<1>5. CASE q < p
  <2>1. s * q + s <= s * p /\ s * p \in Nat /\ s * q \in Nat
    BY <1>1, <1>3, <1>5
  <2>2. QED
    BY <2>1, <1>1
<1>6. QED
  BY <1>1, <1>2, <1>4, <1>5

\* A row of a short window is, for the longer one around it, a row of its own window.
LEMMA WindowAgain ==
  ASSUME NEW i \in Seq(Records), NEW c \in Count, NEW d \in Count,
         c.row \in 1 .. Len(i), d.row \in 1 .. Len(i),
         Window(i, c).account = Window(i, d).account,
         Window(i, d).start <= Window(i, c).start, Window(i, c).end <= Window(i, d).end
  PROVE  Window(i, [size |-> d.size, row |-> c.row]) = Window(i, d)
<1> DEFINE t == i[d.row].time
           u == i[c.row].time
<1>1. t \in Nat /\ u \in Nat /\ c.size \in Nat \ {0} /\ d.size \in Nat \ {0}
  <2>1. c.size \in Nat \ {0} /\ d.size \in Nat \ {0}
    BY EventTimeAssumption DEF Count
  <2>2. t \in 1 .. MaxTime /\ u \in 1 .. MaxTime
    BY JustifiedTypes
  <2>3. QED
    BY <2>1, <2>2
<1>2. /\ Window(i, c).account = i[c.row].account /\ Window(i, d).account = i[d.row].account
      /\ Window(i, c).start = u - (u % c.size) /\ Window(i, c).end = u - (u % c.size) + c.size
      /\ Window(i, d).start = t - (t % d.size) /\ Window(i, d).end = t - (t % d.size) + d.size
  BY DEF Window
<1> HIDE DEF t, u
<1>3. t - (t % d.size) <= u /\ u < t - (t % d.size) + d.size
  <2>1. u % c.size \in Nat /\ u % c.size < c.size /\ t % d.size \in Nat
    BY <1>1
  <2>2. /\ t - (t % d.size) <= u - (u % c.size)
        /\ u - (u % c.size) + c.size <= t - (t % d.size) + d.size
    BY <1>2
  <2>3. ASSUME NEW m \in Nat, NEW n \in Nat, NEW k \in Nat, NEW l \in Nat, m < k,
               t - n <= u - m, u - m + k <= t - n + l
        PROVE  t - n <= u /\ u < t - n + l
    BY <1>1, <2>3
  <2>4. QED
    BY <1>1, <2>1, <2>2, <2>3
<1>4. u - (u % d.size) = t - (t % d.size)
  BY <1>1, <1>3, Aligned
<1>5. i[c.row].account = i[d.row].account
  BY <1>2
<1>6. QED
  BY <1>4, <1>5 DEF Window, t, u

=============================================================================
