------------------------ MODULE MCTransactionProducer ------------------------
(* Small instances of TransactionProducer for TLC. *)
EXTENDS TransactionProducer

\* One account: its events are all the events of a run.
OneAccount == [s \in Seeds |-> [n \in 1 .. MaxCount |-> CHOOSE a \in Accounts : TRUE]]

=============================================================================
