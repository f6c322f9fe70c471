------------------------------- MODULE Topics -------------------------------
(***************************************************************************)
(* The three Kafka topics around the validator (one partition each, as     *)
(* kafka-init in docker-compose.yml creates them) and the committed offset *)
(* of the validator's consumer group.                                      *)
(*                                                                         *)
(* A raw record is reduced to the way process_message treats it:           *)
(*   "valid"      - parses as a TransactionEvent;                          *)
(*   "invalid"    - one of the rejections validate_raw_payload handles;    *)
(*   "unroutable" - decoding it, or serialising or enqueueing its dead     *)
(*                  letter, raises whatever the retry (for instance a dead *)
(*                  letter larger than the producer's message limit).      *)
(* Offsets count from 0, as in Kafka; sequences count from 1.              *)
(***************************************************************************)
EXTENDS Naturals, Sequences, Functions

VARIABLES
  raw,        \* transactions.raw: the class of each record, in log order
  out,        \* per output topic, the raw offsets its records were made from
  committed   \* the group's next offset in transactions.raw (0: none yet)

Class == {"valid", "invalid", "unroutable"}
Topic == {"validated", "dlq"}

\* The offset's record exists in transactions.raw.
Offsets == 0 .. Len(raw) - 1

\* The branch of process_message on outcome.is_valid.
Dest(class) == IF class = "valid" THEN "validated" ELSE "dlq"

Routable(class) == class # "unroutable"

\* The record at o has at least one copy in the topic it belongs to.
Published(o) == o \in Range(out[Dest(raw[o + 1])])

\* Every record before o is published: o is a safe place to resume from.
AllBefore(o) == \A p \in 0 .. o - 1 : Published(p)

TopicsInit ==
  /\ raw = << >>
  /\ out = [t \in Topic |-> << >>]
  /\ committed = 0

TopicsTypeOK ==
  /\ raw \in Seq(Class)
  /\ out \in [Topic -> Seq(Nat)]
  /\ committed \in Nat

(***************************************************************************)
(* NoLoss: the input offset is committed only after the record's result    *)
(* is published, so a consumer that resumes from the committed offset      *)
(* skips no record (process_message: publish, flush, then commit; "nothing *)
(* is dropped").                                                           *)
(***************************************************************************)
NoLoss == committed <= Len(raw) /\ AllBefore(committed)

(***************************************************************************)
(* FirstPublishedInOrder: in an output topic the first copy of a record    *)
(* comes after some copy of every earlier record of that topic, whatever   *)
(* the crashes, retries and rebalances: a reader that drops repeats sees   *)
(* the records in the order of transactions.raw.                           *)
(***************************************************************************)
FirstPublishedInOrder ==
  \A t \in Topic : \A k \in DOMAIN out[t] :
    \A p \in 0 .. out[t][k] - 1 :
      Dest(raw[p + 1]) = t => \E j \in 1 .. k - 1 : out[t][j] = p

=============================================================================
