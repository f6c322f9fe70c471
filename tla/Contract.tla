------------------------------ MODULE Contract ------------------------------
(***************************************************************************)
(* What happens to the contents of one message of transactions.raw: the    *)
(* TransactionEvent contract (producer/schemas.py), the classification of  *)
(* what it rejects (validation/service.py), the JSON that is written, and  *)
(* the columns the streaming job reads from it (streaming/schema.py).      *)
(*                                                                         *)
(* A field's value is [is, n, zone]: the kind of value and, where the      *)
(* contract looks further, a number. "other" is a value of a kind that the *)
(* field does not take: a list, another kind of number, a text that is not *)
(* Unicode.                                                                *)
(*   ids:        "text", n characters after surrounding spaces are cut     *)
(*   enums:      "member", or "text" that is no member                     *)
(*   numbers:    "number", or "nan"; the amount counts thousandths         *)
(*   timestamp:  "naive", or "aware" with n local microseconds since the   *)
(*               first instant a datetime holds, and the zone's offset     *)
(***************************************************************************)
EXTENDS Integers, Sequences, FiniteSetsExt

CONSTANTS
  Values,       \* the values of each field that messages are made of
  LastInstant,  \* the last microsecond a datetime holds
  MaxCents,     \* the largest amount of max_digits=12, decimal_places=2
  MaxInt        \* the largest IntegerType value of Spark

FieldOrder ==
  <<"schema_version", "transaction_id", "account_id", "event_timestamp", "amount",
    "currency", "merchant_id", "merchant_category", "device_id", "latitude",
    "longitude", "country", "channel", "transaction_type">>
Fields == Range(FieldOrder)

Ids == {"transaction_id", "account_id", "merchant_id", "device_id"}
Coordinates == {"latitude", "longitude"}
Enums == {"currency", "merchant_category", "country", "channel", "transaction_type"}

\* The kinds of values; only an aware timestamp has an offset.
Kinds == {"absent", "null", "other", "text", "member", "number", "nan", "naive", "aware"}
Value == {v \in [is : Kinds, n : Int, zone : Int] : v.is # "aware" => v.zone = 0}

ASSUME ContractAssumption ==
  /\ DOMAIN Values = Fields
  /\ \A f \in Fields : Values[f] \subseteq Value
  /\ \A v \in Values["event_timestamp"] : v.is = "aware" => v.n \in 0 .. LastInstant
  /\ {LastInstant, MaxCents, MaxInt} \subseteq Nat
  /\ MaxCents >= 2 /\ MaxInt >= 1   \* those of ValidBase

V(is, n, zone) == [is |-> is, n |-> n, zone |-> zone]
Absent == V("absent", 0, 0)
Null == V("null", 0, 0)

\* The fixture that publish_invalid spoils.
ValidBase ==
  [f \in Fields |->
     IF f \in Ids THEN V("text", 5, 0)
     ELSE IF f \in Enums THEN V("member", 0, 0)
     ELSE IF f = "event_timestamp" THEN V("aware", LastInstant \div 2, 0)
     ELSE IF f = "schema_version" THEN V("number", 1, 0)
     ELSE V("number", 20, 0)]

Message(form, fields, extra) == [form |-> form, fields |-> fields, extra |-> extra]
Object(fields) == Message("object", fields, FALSE)

\* build_invalid_event: the message of each --case.
BuildInvalidEvent ==
  [json    |-> Message("not_json", ValidBase, FALSE),
   amount  |-> Object([ValidBase EXCEPT !["amount"] = V("number", -10000, 0)]),
   enum    |-> Object([ValidBase EXCEPT !["currency"] = V("text", 3, 0)]),
   extra   |-> Message("object", ValidBase, TRUE),
   coords  |-> Object([ValidBase EXCEPT !["latitude"] = V("number", 200, 0)]),
   missing |-> Object([ValidBase EXCEPT !["amount"] = Absent])]

\* The fixtures, any object that differs from theirs in at most two fields and
\* by an extra one, and what is no JSON object: no value at all, bytes or text that
\* do not decode, JSON that json.loads gives up on with another error than
\* JSONDecodeError (an integer or a nesting too long for it).
Messages ==
  {Message(form, ValidBase, FALSE) :
     form \in {"empty", "not_utf8", "not_json", "unloadable", "not_object"}}
  \cup Range(BuildInvalidEvent)
  \cup UNION {{Message("object", [ValidBase EXCEPT ![f] = v, ![g] = w], extra) :
                 v \in Values[f], w \in Values[g], extra \in BOOLEAN} :
               f \in Fields, g \in Fields}

\* Whether what is to be published for a message can be: a broker's record has a
\* largest size, and json.loads takes what no JSON is written for (half a surrogate
\* pair, a nesting deeper than the writer's). No field takes that, so it hides
\* where the message breaks the contract.
Hides(m) ==
  \/ m.form = "not_object"
  \/ m.form = "object" /\ (m.extra \/ \E f \in Fields : m.fields[f].is = "other")

Outputs(m) == {"fits", "too_large"} \cup (IF Hides(m) THEN {"unwritable"} ELSE {})

VARIABLES
  message,  \* the message
  output,   \* one of its Outputs
  at,       \* how far it is
  outcome,  \* what validate_raw_payload returned
  wire,     \* the value published, for an accepted event
  row       \* the columns the stream reads from it

vars == <<message, output, at, outcome, wire, row>>

Error(type, loc) == [type |-> type, loc |-> loc]
NoOutcome == [is_valid |-> FALSE, error_type |-> "UNKNOWN", schema_version |-> Null]

-----------------------------------------------------------------------------
(* The contract, field by field *)

\* The Field constraints of TransactionEvent. A coordinate that is not a number
\* is neither below nor above its bounds.
Holds(f, v) ==
  \/ f = "schema_version" /\ (v = Absent \/ (v.is = "number" /\ v.n >= 1))
  \/ f \in Ids /\ v.is = "text" /\ v.n >= 1
  \/ f \in Enums /\ v.is = "member"
  \/ f = "event_timestamp" /\ v.is = "aware"
  \/ f = "amount" /\ v.is = "number" /\ v.n % 10 = 0 /\ v.n \in 1 .. 10 * MaxCents
  \/ f = "latitude" /\ v.is = "number" /\ v.n \in -90 .. 90
  \/ f = "longitude" /\ v.is = "number" /\ v.n \in -180 .. 180
  \/ f \in Coordinates /\ v.is = "nan"

TypeOfError(f, v) ==
  IF v = Absent THEN "missing" ELSE IF f \in Enums THEN "enum" ELSE "constraint"

\* ValidationError.errors() (pydantic), each error under the place that orders
\* it: the fields as in the class, then a field the class does not have. A
\* message that is no object has one error, at no field.
Extra == Len(FieldOrder) + 1

Errors(m) ==
  LET broken == {i \in DOMAIN FieldOrder : ~Holds(FieldOrder[i], m.fields[FieldOrder[i]])}
      ErrorAt(i) ==
        IF i = Extra THEN Error("extra_forbidden", "unexpected_field")
        ELSE Error(TypeOfError(FieldOrder[i], m.fields[FieldOrder[i]]), FieldOrder[i])
  IN IF m.form # "object" THEN [i \in {1} |-> Error("model_type", "")]
     ELSE [i \in broken \cup (IF m.extra THEN {Extra} ELSE {}) |-> ErrorAt(i)]

\* The branches of _classify_validation_error for one error.
NameOf(e) ==
  CASE e.type = "extra_forbidden" -> "UNEXPECTED_FIELD"
    [] e.type = "enum" -> "INVALID_ENUM"
    [] e.type = "missing" -> "MISSING_FIELD"
    [] e.type = "constraint" /\ e.loc = "amount" -> "INVALID_AMOUNT"
    [] e.type = "constraint" /\ e.loc \in Coordinates -> "INVALID_COORDINATES"
    [] OTHER -> "SCHEMA_VALIDATION"

\* Mutant of Classify: only the first error is looked at.
ClassifyFirst(errors) == NameOf(errors[Min(DOMAIN errors)])

\* Mutant of Classify: the location decides before the type.
ClassifyByField(errors) ==
  IF \E i \in DOMAIN errors : errors[i].loc = "amount" THEN "INVALID_AMOUNT"
  ELSE ClassifyFirst(errors)

\* The first error that any branch takes; the others are passed over.
Classify(errors) ==
  LET named == {i \in DOMAIN errors : NameOf(errors[i]) # "SCHEMA_VALIDATION"}
  IN IF named = {} THEN "SCHEMA_VALIDATION" ELSE NameOf(errors[Min(named)])

\* _recover_schema_version: what the dead letter says of a rejected object.
RecoverSchemaVersion(m) ==
  IF m.form = "object" /\ m.fields["schema_version"].is = "number"
  THEN m.fields["schema_version"] ELSE Null

Accepted(m) == m.form = "object" /\ DOMAIN Errors(m) = {}

\* The event's schema_version, which has a default.
VersionOf(m) ==
  IF m.fields["schema_version"] = Absent THEN V("number", 1, 0) ELSE m.fields["schema_version"]

-----------------------------------------------------------------------------
(* The message's way *)

Init ==
  /\ message \in Messages /\ output \in Outputs(message)
  /\ at = "raw" /\ outcome = NoOutcome /\ wire = ValidBase /\ row = ValidBase

\* validate_raw_payload.
Validate ==
  /\ at = "raw"
  /\ message.form # "unloadable"
  /\ at' = "checked"
  /\ outcome' =
       [is_valid |-> Accepted(message),
        error_type |->
          CASE message.form = "empty" -> "EMPTY_PAYLOAD"
            [] message.form \in {"not_utf8", "not_json"} -> "MALFORMED_JSON"
            [] Accepted(message) -> "none"
            [] OTHER -> Classify(Errors(message)),
        schema_version |->
          IF Accepted(message) THEN VersionOf(message) ELSE RecoverSchemaVersion(message)]
  /\ UNCHANGED <<message, output, wire, row>>

\* json.loads raises what validate_raw_payload does not catch.
LoadRaises ==
  /\ at = "raw"
  /\ message.form = "unloadable"
  /\ at' = "raised"
  /\ UNCHANGED <<message, output, outcome, wire, row>>

\* Mutant of UtcMicros: the offset is left out of the instant.
LocalMicros(v) == v.n

\* Mutant of UtcMicros: the offset is added.
MicrosAhead(v) == v.n + v.zone

\* value.astimezone(timezone.utc)
UtcMicros(v) == v.n - v.zone

\* JSON has no NaN: model_dump_json writes null.
JsonFloat(v) == IF v.is = "nan" THEN Null ELSE v

\* serialize_event: the default version is written out, ids without their
\* spaces, the amount in cents, the instant in UTC milliseconds, cut.
\* astimezone raises when the instant is none that a datetime holds, and
\* produce when the record is too large.
Serialize ==
  /\ at = "checked" /\ outcome.is_valid
  /\ LET utc == UtcMicros(message.fields["event_timestamp"])
     IN IF utc \in 0 .. LastInstant /\ output = "fits"
        THEN /\ at' = "validated"
             /\ wire' = [message.fields EXCEPT
                           !["schema_version"] = VersionOf(message),
                           !["amount"] = V("text", @.n \div 10, 0),
                           !["latitude"] = JsonFloat(@),
                           !["longitude"] = JsonFloat(@),
                           !["event_timestamp"] = V("text", utc \div 1000, 0)]
        ELSE at' = "raised" /\ UNCHANGED wire
  /\ UNCHANGED <<message, output, outcome, row>>

\* build_dead_letter(...).model_dump_json() and produce; each raises for what it
\* does not take.
Reject ==
  /\ at = "checked" /\ ~outcome.is_valid
  /\ at' = IF output = "fits" THEN "dlq" ELSE "raised"
  /\ UNCHANGED <<message, output, outcome, wire, row>>

\* Mutant of ReadColumn: schema_version keeps its low bits.
ReadWrapped(f, v) ==
  CASE f = "schema_version" -> V("number", v.n % (MaxInt + 1), 0)
    [] f = "amount" -> V("number", v.n, 0)
    [] f = "event_timestamp" -> V("aware", v.n, 0)
    [] OTHER -> v

\* from_json, to_timestamp and the cast (Spark): a column whose value does not
\* fit its type, or is null, is null, the others are read.
ReadColumn(f, v) ==
  CASE f = "schema_version" -> IF v.n <= MaxInt THEN v ELSE Null
    [] f = "amount" -> IF v.n <= MaxCents THEN V("number", v.n, 0) ELSE Null
    [] f = "event_timestamp" -> V("aware", v.n, 0)
    [] OTHER -> v

\* parse_validated_json
ParseValidatedJson ==
  /\ at = "validated"
  /\ at' = "read"
  /\ row' = [f \in Fields |-> ReadColumn(f, wire[f])]
  /\ UNCHANGED <<message, output, outcome, wire>>

Next == Validate \/ LoadRaises \/ Serialize \/ Reject \/ ParseValidatedJson

Spec == Init /\ [][Next]_vars

-----------------------------------------------------------------------------
(* Properties *)

TypeOK ==
  /\ message \in Messages /\ output \in Outputs(message)
  /\ at \in {"raw", "checked", "validated", "dlq", "raised", "read"}
  /\ DOMAIN wire = Fields
  /\ DOMAIN row = Fields
  /\ row["schema_version"] \in {Null} \cup {V("number", n, 0) : n \in 1 .. MaxInt}
  /\ row["amount"].n \in 1 .. 10 * MaxCents

\* What a field of the message violates, as an operator would name it.
Violates(type) ==
  LET bad(f) == ~Holds(f, message.fields[f])
      present(f) == message.fields[f] # Absent
  IN CASE type = "UNEXPECTED_FIELD" -> message.extra
       [] type = "INVALID_ENUM" -> \E f \in Enums : bad(f) /\ present(f)
       [] type = "MISSING_FIELD" -> \E f \in Fields : bad(f) /\ ~present(f)
       [] type = "INVALID_AMOUNT" -> bad("amount") /\ present("amount")
       [] type = "INVALID_COORDINATES" ->
            \E f \in Coordinates : bad(f) /\ present(f)

NamedTypes ==
  {"UNEXPECTED_FIELD", "INVALID_ENUM", "MISSING_FIELD", "INVALID_AMOUNT",
   "INVALID_COORDINATES"}

(***************************************************************************)
(* ErrorTypeNamesAViolation: the error_type of a dead letter whose payload *)
(* is an object names something that is wrong with the payload, and is the *)
(* nameless SCHEMA_VALIDATION only if nothing wrong with it has a name,    *)
(* whichever fields are wrong together (_classify_validation_error).       *)
(***************************************************************************)
ErrorTypeNamesAViolation ==
  at = "dlq" /\ message.form = "object" =>
    IF outcome.error_type \in NamedTypes
    THEN Violates(outcome.error_type)
    ELSE /\ outcome.error_type = "SCHEMA_VALIDATION"
         /\ \A type \in NamedTypes : ~Violates(type)
         /\ \E f \in Fields : ~Holds(f, message.fields[f])

(***************************************************************************)
(* FixturesGetTheirType: each case of publish_invalid ends in the dead     *)
(* letter topic under the type it stands for (test_validation.py).         *)
(***************************************************************************)
FixturesGetTheirType ==
  \A case \in DOMAIN BuildInvalidEvent :
    message = BuildInvalidEvent[case] /\ at # "raw" =>
      /\ ~outcome.is_valid
      /\ outcome.error_type =
           [json |-> "MALFORMED_JSON", amount |-> "INVALID_AMOUNT", enum |-> "INVALID_ENUM",
            extra |-> "UNEXPECTED_FIELD", coords |-> "INVALID_COORDINATES",
            missing |-> "MISSING_FIELD"][case]

(***************************************************************************)
(* StreamReadsTheEvent: the row of the streaming job is the event that was *)
(* accepted: the amount to the cent, the same instant to the millisecond,  *)
(* wherever the event's clock was; only a schema version that no           *)
(* IntegerType holds and a coordinate that is not a number are lost, and   *)
(* they take no other column with them.                                    *)
(***************************************************************************)
StreamReadsTheEvent ==
  at = "read" =>
    LET e == message.fields
        t == e["event_timestamp"]
        version == IF e["schema_version"] = Absent THEN 1 ELSE e["schema_version"].n
    IN /\ row["amount"] = V("number", e["amount"].n \div 10, 0)
       /\ row["event_timestamp"].is = "aware"
       /\ t.n - t.zone - 1000 * row["event_timestamp"].n \in 0 .. 999
       /\ row["schema_version"] =
            IF version <= MaxInt THEN V("number", version, 0) ELSE Null
       /\ \A f \in Coordinates :
            /\ e[f].is = "number" => row[f] = e[f]
            /\ e[f].is # "number" => row[f] = Null
       /\ \A f \in Ids \cup Enums : row[f] = e[f]

(***************************************************************************)
(* OnlyTheUnwritableRaise: a message ends the service (neither topic gets  *)
(* it) if json.loads gives up on it, if no JSON or no record of Kafka      *)
(* holds what would be published for it, or if its zone moves the instant  *)
(* of an accepted event out of what a datetime holds; every other message, *)
(* whatever is wrong with it, ends in one of the topics.                   *)
(***************************************************************************)
EndsTheService ==
  \/ message.form = "unloadable"
  \/ output # "fits"
  \/ /\ Accepted(message)
     /\ LET t == message.fields["event_timestamp"]
        IN \/ t.zone > 0 /\ t.n < t.zone
           \/ t.zone < 0 /\ t.n > LastInstant + t.zone

OnlyTheUnwritableRaise ==
  /\ at = "raised" => EndsTheService
  /\ at \in {"validated", "dlq", "read"} => ~EndsTheService

=============================================================================
