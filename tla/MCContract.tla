----------------------------- MODULE MCContract -----------------------------
(* A small instance of Contract: times of three milliseconds, amounts of two *)
(* digits, and version numbers of three bits stand for the real ranges.      *)
EXTENDS Contract

Other == {Absent, V("other", 0, 0)}

FieldValues ==
  [f \in Fields |-> Other \cup
     CASE f \in Ids -> {V("text", 0, 0), V("text", 1, 0)}
       [] f \in Enums -> {V("text", 3, 0)}
       [] f = "schema_version" -> {V("number", n, 0) : n \in {0, 1, 7, 8}}
       [] f = "event_timestamp" ->
            {V("naive", 1500, 0)}
            \cup {V("aware", n, zone) : n \in {0, 1499, 3999}, zone \in {-1000, 0, 1000}}
       [] f = "amount" ->
            {V("nan", 0, 0)} \cup {V("number", n, 0) : n \in {-10, 0, 5, 10, 990, 1000}}
       [] f = "latitude" -> {V("nan", 0, 0)} \cup {V("number", n, 0) : n \in {-90, 90, 91}}
       [] f = "longitude" -> {V("nan", 0, 0)} \cup {V("number", n, 0) : n \in {-181, -180, 180}}]

=============================================================================
