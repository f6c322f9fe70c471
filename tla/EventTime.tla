----------------------------- MODULE EventTime -----------------------------
(***************************************************************************)
(* Event time in the streaming job (streaming/features.py): what one       *)
(* micro-batch of a query does with its part of transactions.validated.    *)
(*                                                                         *)
(* A record is [id, account, amount, device, latitude, longitude, time]:   *)
(* transaction_id, account_id, the amount in cents, device_id, the place   *)
(* and event_timestamp. A coordinate is a set of one number or, for null,  *)
(* of none. In a query records are named by their place in the topic, so   *)
(* that copies of a transaction can be told apart. Time is counted in      *)
(* units from 1; 0 is the watermark a query starts with.                   *)
(***************************************************************************)
EXTENDS Integers, Sequences, FiniteSets, Functions

CONSTANTS
  Records,   \* the records that may arrive
  Delay,     \* the watermark delay (SPARK_WATERMARK)
  Sizes,     \* the tumbling windows' lengths ("5 minutes", "30 minutes")
  HighAmount, RapidTxnCount, MultiDevice,   \* thresholds
  FarBoxes,  \* the boxes <<south, west, north, east>> between whose corners
             \* haversine_km is at least LOCATION_SPREAD_KM_THRESHOLD
  MaxAmount, \* the largest DECIMAL(12,2), in cents
  MaxTime,   \* the last time a timestamp holds
  Grid       \* size of a location's grid cell (LOCATION_GRID_DECIMALS)

ASSUME EventTimeAssumption ==
  /\ \A r \in Records :
       /\ r.time \in 1 .. MaxTime /\ r.amount \in 1 .. MaxAmount
       /\ \A c \in {r.latitude, r.longitude} : c \subseteq Int /\ \A m, n \in c : m = n
  /\ {Delay, HighAmount, RapidTxnCount, MultiDevice} \subseteq Nat
  /\ {MaxAmount, MaxTime} \subseteq Nat
  /\ Sizes \cup {Grid} \subseteq Nat \ {0} /\ Sizes # {}

Minus(a, b) == IF a > b THEN a - b ELSE 0

\* The watermarks that any input justifies.
Watermarks == {0} \cup {Minus(r.time, Delay) : r \in Records}

\* Mutant of Advance: the watermark is the latest event time itself.
AdvanceUndelayed(wm, input, rows) ==
  LET times == {wm} \cup {input[o].time : o \in rows}
  IN CHOOSE w \in times : \A v \in times : v <= w

\* The watermark after some rows: the latest of their times, less the delay,
\* and never less than it was.
Advance(wm, input, rows) ==
  LET justified == {wm} \cup {Minus(input[o].time, Delay) : o \in rows}
  IN CHOOSE w \in justified : \A v \in justified : v <= w

\* withWatermark: a row or a window that ends at or before the watermark.
Late(time, wm) == time <= wm

\* Mutant of Accepted: transactions of earlier batches are forgotten.
AcceptedPerBatch(input, rows, wm, seen) ==
  {o \in rows :
     /\ ~Late(input[o].time, wm)
     /\ \A p \in rows : p < o /\ input[p].id = input[o].id => Late(input[p].time, wm)}

\* dropDuplicates(["transaction_id"]): the rows of a batch that are not late
\* and do not repeat a transaction of the state or of the batch.
Accepted(input, rows, wm, seen) ==
  {o \in rows :
     /\ ~Late(input[o].time, wm)
     /\ \A p \in seen : input[p].id # input[o].id
     /\ \A p \in rows : p < o /\ input[p].id = input[o].id => Late(input[p].time, wm)}

\* groupBy(account_id, window(event_timestamp, size)), for a row that is
\* counted in the window of some size: [start, end).
Count == [size : Sizes, row : Nat]

Window(input, c) ==
  LET r == input[c.row]
      start == r.time - (r.time % c.size)
  IN [account |-> r.account, size |-> c.size, start |-> start, end |-> start + c.size]

\* The rows as the windows of both sizes count them.
Counts(input, rows, wm) ==
  {c \in [size : Sizes, row : rows] : ~Late(Window(input, c).end, wm)}

\* Mutant of Closed: a window is closed when the watermark enters it.
ClosedAtStart(counted, input, wm) ==
  {c \in counted : Window(input, c).start <= wm}

\* The counted rows whose window the watermark has passed.
Closed(counted, input, wm) == {c \in counted : Late(Window(input, c).end, wm)}

\* location_grid_key: a coordinate is rounded to the grid, halves away from 0,
\* and a record with no latitude or no longitude has no cell.
Rounded(n) ==
  IF n >= 0 THEN (2 * n + Grid) \div (2 * Grid) ELSE -((Grid - 2 * n) \div (2 * Grid))

Cells(r) == {<<Rounded(p[1]), Rounded(p[2])>> : p \in r.latitude \X r.longitude}
Locations(input, rows) == UNION {Cells(input[o]) : o \in rows}

\* The corners of the rows' bounding box: least and greatest latitude and
\* longitude, each passing over nulls for itself.
Limits(S) == {p \in S \X S : \A n \in S : p[1] <= n /\ n <= p[2]}
FarApart(input, rows) ==
  \E lat \in Limits(UNION {input[o].latitude : o \in rows}),
     lon \in Limits(UNION {input[o].longitude : o \in rows}) :
    <<lat[1], lon[1], lat[2], lon[2]>> \in FarBoxes

\* apply_transaction_signals
IsHighAmount(r) == r.amount >= HighAmount

\* A sum that the column does not hold is null, written as no value.
AmountSum(input, rows) ==
  {SumFunction([o \in rows |-> input[o].amount])} \cap 0 .. MaxAmount

\* Those of _window_aggregates that the rest depends on.
Aggregates(input, rows) ==
  [txn_count         |-> Cardinality(rows),
   amount_sum        |-> AmountSum(input, rows),
   unique_devices    |-> Cardinality({input[o].device : o \in rows}),
   unique_locations  |-> Cardinality(Locations(input, rows)),
   high_amount_count |-> Cardinality({o \in rows : IsHighAmount(input[o])})]

\* Mutant of WindowSignals: a signal is for exactly as many as the threshold.
SignalsAtThreshold(input, rows, agg) ==
  [rapid_transaction |-> agg.txn_count = RapidTxnCount,
   multi_device |-> agg.unique_devices = MultiDevice,
   rapid_location_change |-> FALSE]

\* apply_window_signals: the same thresholds for the windows of every size.
WindowSignals(input, rows, agg) ==
  [rapid_transaction |-> agg.txn_count >= RapidTxnCount,
   multi_device |-> agg.unique_devices >= MultiDevice,
   rapid_location_change |-> agg.unique_locations >= 2 /\ FarApart(input, rows)]

\* One Gold row per window, computed from the rows counted in it.
GoldRows(closed, input) ==
  LET Row(w) ==
        LET rows == {c.row : c \in {d \in closed : Window(input, d) = w}}
            agg  == Aggregates(input, rows)
        IN [window |-> w, rows |-> rows, aggregates |-> agg,
            signals |-> WindowSignals(input, rows, agg)]
  IN {Row(w) : w \in {Window(input, c) : c \in closed}}

=============================================================================
