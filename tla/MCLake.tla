------------------------------ MODULE MCLake ------------------------------
(***************************************************************************)
(* Small instances of Lake. With a delay of 2 and windows of 2 and 4 the   *)
(* event at 10 closes [4, 6), [6, 8) and [4, 8), and the one at 7 makes    *)
(* the one at 5 late. Of the amounts up to two digits, 40, 60 and 30 in    *)
(* one window have a sum of three.                                         *)
(*                                                                         *)
(* Longitudes go round a circle of 12. In [6, 8) t2 and t3 are on opposite *)
(* sides of it; in [4, 8) t1, of no latitude, takes the eastern edge of    *)
(* the box to 6, and its corners are only 3 apart.                         *)
(***************************************************************************)
EXTENDS Lake

Transaction(id, amount, device, latitude, longitude, time) ==
  [id |-> id, account |-> "acct", amount |-> amount, device |-> device, latitude |-> latitude,
   longitude |-> longitude, time |-> time]

Spread == {Transaction("t1", 40, "d1", {}, {6}, 5), Transaction("t2", 60, "d2", {1}, {-3}, 6),
           Transaction("t3", 30, "d3", {1}, {3}, 7), Transaction("t4", 10, "d3", {5}, {0}, 10)}

\* The same id for two transactions, as two runs of the producer make them.
Reused == {Transaction("t1", 40, "d1", {1}, {0}, 2), Transaction("t1", 60, "d2", {1}, {0}, 6),
           Transaction("t2", 30, "d3", {5}, {0}, 7)}

OneRecord == {Transaction("t1", 40, "d1", {1}, {0}, 3)}

\* The boxes whose corners are at least 4 apart, the short way round.
Far == {b \in (0 .. 6) \X (-6 .. 6) \X (0 .. 6) \X (-6 .. 6) :
          b[3] - b[1] >= 4 \/ b[4] - b[2] \in 4 .. 8}

=============================================================================
