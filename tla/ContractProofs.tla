--------------------------- MODULE ContractProofs ---------------------------
(***************************************************************************)
(* TLAPS proofs about Contract, for every set of field values, every range *)
(* of amounts, versions and instants and every offset of a zone.           *)
(*                                                                         *)
(* ContractInv says, for each point of a message's way, what it has been   *)
(* turned into: outcome, wire and row are functions of the message. The    *)
(* lemmas say what those functions return: which error Classify names and  *)
(* what the accepted message's fields are like.                            *)
(***************************************************************************)
EXTENDS Contract, WellFoundedInduction, TLAPS

Timely(v) == v.is = "aware" => v.n \in 0 .. LastInstant

\* What a message is turned into.
OutcomeOf(m) ==
  [is_valid |-> Accepted(m),
   error_type |->
     CASE m.form = "empty" -> "EMPTY_PAYLOAD"
       [] m.form \in {"not_utf8", "not_json"} -> "MALFORMED_JSON"
       [] Accepted(m) -> "none"
       [] OTHER -> Classify(Errors(m)),
   schema_version |-> IF Accepted(m) THEN VersionOf(m) ELSE RecoverSchemaVersion(m)]

Utc(m) == UtcMicros(m.fields["event_timestamp"])

WireOf(m) ==
  [m.fields EXCEPT
     !["schema_version"] = VersionOf(m),
     !["amount"] = V("text", @.n \div 10, 0),
     !["latitude"] = JsonFloat(@),
     !["longitude"] = JsonFloat(@),
     !["event_timestamp"] = V("text", Utc(m) \div 1000, 0)]

RowOf(w) == [f \in Fields |-> ReadColumn(f, w[f])]

ContractInv ==
  /\ message \in Messages /\ output \in Outputs(message)
  /\ at \in {"raw", "checked", "validated", "dlq", "raised", "read"}
  /\ outcome = IF at = "raw" \/ message.form = "unloadable" THEN NoOutcome ELSE OutcomeOf(message)
  /\ at = "dlq" => ~Accepted(message)
  /\ at \in {"validated", "read"} => Accepted(message) /\ Utc(message) \in 0 .. LastInstant
  /\ at \in {"validated", "read", "dlq"} => output = "fits"
  /\ at = "raised" =>
       \/ message.form = "unloadable" \/ output # "fits"
       \/ Accepted(message) /\ Utc(message) \notin 0 .. LastInstant
  /\ message.form = "unloadable" => at \in {"raw", "raised"}
  /\ wire = IF at \in {"validated", "read"} THEN WireOf(message) ELSE ValidBase
  /\ row = IF at = "read" THEN RowOf(WireOf(message)) ELSE ValidBase

-----------------------------------------------------------------------------
(* Fields, values and messages *)

AllFields ==
  {"schema_version", "transaction_id", "account_id", "event_timestamp", "amount",
   "currency", "merchant_id", "merchant_category", "device_id", "latitude",
   "longitude", "country", "channel", "transaction_type"}

LEMMA FieldPlaces ==
  /\ DOMAIN FieldOrder = 1 .. 14 /\ Extra = 15
  /\ \A i \in 1 .. 14 : FieldOrder[i] \in Fields
  /\ \A f \in Fields : \E i \in 1 .. 14 : FieldOrder[i] = f
  /\ Fields = AllFields
<1>1. DOMAIN FieldOrder = 1 .. 14 /\ Len(FieldOrder) = 14
  BY DEF FieldOrder
<1>2. \A f : f \in Fields <=> \E i \in 1 .. 14 : FieldOrder[i] = f
  BY <1>1 DEF Fields, Range
<1>3. /\ FieldOrder[1] = "schema_version" /\ FieldOrder[2] = "transaction_id"
      /\ FieldOrder[3] = "account_id" /\ FieldOrder[4] = "event_timestamp"
      /\ FieldOrder[5] = "amount" /\ FieldOrder[6] = "currency"
      /\ FieldOrder[7] = "merchant_id" /\ FieldOrder[8] = "merchant_category"
      /\ FieldOrder[9] = "device_id" /\ FieldOrder[10] = "latitude"
      /\ FieldOrder[11] = "longitude" /\ FieldOrder[12] = "country"
      /\ FieldOrder[13] = "channel" /\ FieldOrder[14] = "transaction_type"
  BY DEF FieldOrder
<1>4. \A i \in 1 .. 14 :
        \/ i = 1 \/ i = 2 \/ i = 3 \/ i = 4 \/ i = 5 \/ i = 6 \/ i = 7
        \/ i = 8 \/ i = 9 \/ i = 10 \/ i = 11 \/ i = 12 \/ i = 13 \/ i = 14
  OBVIOUS
<1>5. \A f : f \in Fields <=> f \in AllFields
  BY <1>2, <1>3, <1>4 DEF AllFields
<1>6. QED
  BY <1>1, <1>2, <1>5 DEF Extra

LEMMA ValuesTyped ==
  /\ \A f \in Fields : \A v \in Values[f] : v \in Value
  /\ \A v \in Values["event_timestamp"] : Timely(v)
BY ContractAssumption DEF Timely

LEMMA BaseTyped ==
  /\ ValidBase \in [Fields -> Value]
  /\ \A f \in Fields : Holds(f, ValidBase[f])
  /\ Timely(ValidBase["event_timestamp"])
<1>1. LastInstant \div 2 \in 0 .. LastInstant
  BY ContractAssumption
<1>2. \A f \in Fields :
        /\ f \in Ids => ValidBase[f] = V("text", 5, 0)
        /\ f \in Enums => ValidBase[f] = V("member", 0, 0)
        /\ f = "event_timestamp" => ValidBase[f] = V("aware", LastInstant \div 2, 0)
        /\ f = "schema_version" => ValidBase[f] = V("number", 1, 0)
        /\ f \in {"amount", "latitude", "longitude"} => ValidBase[f] = V("number", 20, 0)
  BY DEF ValidBase, Ids, Enums
<1>3. \A f \in Fields :
        f \in Ids \cup Enums
          \cup {"event_timestamp", "schema_version", "amount", "latitude", "longitude"}
  BY FieldPlaces DEF AllFields, Ids, Enums
<1>4. ASSUME NEW f \in Fields PROVE ValidBase[f] \in Value
  <2>1. /\ V("text", 5, 0) \in Value /\ V("member", 0, 0) \in Value
        /\ V("number", 1, 0) \in Value /\ V("number", 20, 0) \in Value
        /\ V("aware", LastInstant \div 2, 0) \in Value
    BY <1>1 DEF V, Value, Kinds
  <2>2. QED
    BY <2>1, <1>2, <1>3
<1>5. ASSUME NEW f \in Fields PROVE Holds(f, ValidBase[f])
  <2>1. 20 % 10 = 0 /\ 20 \in 1 .. 10 * MaxCents
    BY ContractAssumption
  <2>2. QED
    BY <2>1, <1>2, <1>3 DEF Holds, V
<1>6. Timely(ValidBase["event_timestamp"])
  BY <1>1, <1>2, FieldPlaces DEF Timely, V, AllFields
<1>7. ValidBase = [f \in Fields |-> ValidBase[f]]
  BY DEF ValidBase
<1>8. QED
  BY <1>4, <1>5, <1>6, <1>7

MessageType(m) ==
  /\ m.form \in {"object", "empty", "not_utf8", "not_json", "unloadable", "not_object"}
  /\ m.fields \in [Fields -> Value] /\ m.extra \in BOOLEAN
  /\ Timely(m.fields["event_timestamp"])

\* A message whose fields are the fixture's, but for two.
LEMMA TwoReplaced ==
  ASSUME NEW f \in Fields, NEW g \in Fields, NEW v \in Value, NEW w \in Value,
         f = "event_timestamp" => Timely(v), g = "event_timestamp" => Timely(w)
  PROVE  LET fields == [ValidBase EXCEPT ![f] = v, ![g] = w]
         IN fields \in [Fields -> Value] /\ Timely(fields["event_timestamp"])
<1>1. "event_timestamp" \in Fields
  BY FieldPlaces DEF AllFields
<1>2. QED
  BY <1>1, BaseTyped

\* The fixture with one field spoiled.
Spoiled(f, v) == Object([ValidBase EXCEPT ![f] = v])
NotJson == Message("not_json", ValidBase, FALSE)
WithExtra == Message("object", ValidBase, TRUE)

LEMMA Fixtures ==
  /\ DOMAIN BuildInvalidEvent = {"json", "amount", "enum", "extra", "coords", "missing"}
  /\ BuildInvalidEvent["json"] = NotJson
  /\ BuildInvalidEvent["amount"] = Spoiled("amount", V("number", -10000, 0))
  /\ BuildInvalidEvent["enum"] = Spoiled("currency", V("text", 3, 0))
  /\ BuildInvalidEvent["extra"] = WithExtra
  /\ BuildInvalidEvent["coords"] = Spoiled("latitude", V("number", 200, 0))
  /\ BuildInvalidEvent["missing"] = Spoiled("amount", Absent)
BY DEF BuildInvalidEvent, Spoiled, NotJson, WithExtra

LEMMA FixtureTyped ==
  ASSUME NEW case \in DOMAIN BuildInvalidEvent
  PROVE  /\ MessageType(BuildInvalidEvent[case])
         /\ BuildInvalidEvent[case].form \in {"object", "not_json"}
<1>1. /\ V("number", -10000, 0) \in Value /\ V("text", 3, 0) \in Value
      /\ V("number", 200, 0) \in Value /\ Absent \in Value
  BY DEF V, Absent, Value, Kinds
<1>2. "amount" \in Fields /\ "currency" \in Fields /\ "latitude" \in Fields
      /\ "event_timestamp" \in Fields
  BY FieldPlaces DEF AllFields
<1> DEFINE fine(m) == MessageType(m) /\ m.form \in {"object", "not_json"}
<1>3. ASSUME NEW f \in {"amount", "currency", "latitude"}, NEW v \in Value
      PROVE  fine(Spoiled(f, v))
  BY <1>2, BaseTyped DEF MessageType, Object, Message, Spoiled
<1>4. fine(NotJson) /\ fine(WithExtra)
  BY BaseTyped DEF MessageType, Message, NotJson, WithExtra
<1> HIDE DEF fine
<1>5. /\ fine(BuildInvalidEvent["json"]) /\ fine(BuildInvalidEvent["extra"])
      /\ fine(BuildInvalidEvent["amount"]) /\ fine(BuildInvalidEvent["enum"])
      /\ fine(BuildInvalidEvent["coords"]) /\ fine(BuildInvalidEvent["missing"])
  <2>1. /\ fine(Spoiled("amount", V("number", -10000, 0)))
        /\ fine(Spoiled("currency", V("text", 3, 0)))
        /\ fine(Spoiled("latitude", V("number", 200, 0)))
        /\ fine(Spoiled("amount", Absent))
    BY <1>1, <1>3
  <2>2. QED
    BY <1>4, <2>1, Fixtures
<1>6. DOMAIN BuildInvalidEvent = {"json", "amount", "enum", "extra", "coords", "missing"}
  BY Fixtures
<1>7. fine(BuildInvalidEvent[case])
  BY <1>5, <1>6
<1>8. QED
  BY <1>7 DEF fine

LEMMA MessagesTyped == \A m \in Messages : MessageType(m)
<1>1. ASSUME NEW form \in {"empty", "not_utf8", "not_json", "unloadable", "not_object"}
      PROVE  MessageType(Message(form, ValidBase, FALSE))
  BY BaseTyped DEF MessageType, Message
<1>2. ASSUME NEW f \in Fields, NEW g \in Fields, NEW v \in Values[f], NEW w \in Values[g],
             NEW extra \in BOOLEAN
      PROVE  MessageType(Message("object", [ValidBase EXCEPT ![f] = v, ![g] = w], extra))
  <2>1. v \in Value /\ w \in Value
        /\ (f = "event_timestamp" => Timely(v)) /\ (g = "event_timestamp" => Timely(w))
    BY ValuesTyped
  <2> DEFINE fields == [ValidBase EXCEPT ![f] = v, ![g] = w]
  <2>2. fields \in [Fields -> Value] /\ Timely(fields["event_timestamp"])
    BY <2>1, TwoReplaced
  <2> HIDE DEF fields
  <2>3. QED
    BY <2>2 DEF MessageType, Message, fields
<1>3. ASSUME NEW m \in Range(BuildInvalidEvent) PROVE MessageType(m)
  <2>1. PICK case \in DOMAIN BuildInvalidEvent : m = BuildInvalidEvent[case]
    BY DEF Range
  <2>2. QED
    BY <2>1, FixtureTyped
<1> DEFINE plain == {Message(form, ValidBase, FALSE) :
                       form \in {"empty", "not_utf8", "not_json", "unloadable", "not_object"}}
           two(f, g, v, w, extra) == Message("object", [ValidBase EXCEPT ![f] = v, ![g] = w], extra)
           differ(f, g) ==
             {two(f, g, v, w, extra) : v \in Values[f], w \in Values[g], extra \in BOOLEAN}
           others == UNION {differ(f, g) : f \in Fields, g \in Fields}
<1>4. Messages = plain \cup Range(BuildInvalidEvent) \cup others
  BY DEF Messages
<1>5. \A m \in plain : MessageType(m)
  <2> HIDE DEF MessageType
  <2> QED BY <1>1
<1>6. ASSUME NEW f \in Fields, NEW g \in Fields, NEW m \in differ(f, g) PROVE MessageType(m)
  <2>1. \A v \in Values[f], w \in Values[g], extra \in BOOLEAN :
          MessageType(two(f, g, v, w, extra))
    BY <1>2
  <2> HIDE DEF two, MessageType
  <2>2. QED
    BY <2>1
<1> HIDE DEF plain, differ
<1>7. ASSUME NEW m \in others PROVE MessageType(m)
  <2>1. \E f \in Fields, g \in Fields : m \in differ(f, g)
    OBVIOUS
  <2>2. QED
    BY <2>1, <1>6
<1> HIDE DEF others
<1>8. QED
  BY <1>3, <1>4, <1>5, <1>7

-----------------------------------------------------------------------------
(* Classification *)

LEMMA LeastPlace ==
  ASSUME NEW S \in SUBSET Nat, S # {}
  PROVE  Min(S) \in S
<1> DEFINE R == {ss \in Nat \X Nat : ss[1] < ss[2]}
<1>1. R = OpToRel(<, Nat)
  BY Zenon DEF OpToRel
<1>2. \E x \in S : \A y \in S : <<y, x>> \notin R
  <2> HIDE DEF R
  <2> QED BY <1>1, NatLessThanWellFounded, WFMin
<1>3. \A x, y \in S : <<y, x>> \notin R => x <= y
  OBVIOUS
<1>4. \E x \in S : \A y \in S : x <= y
  <2> HIDE DEF R
  <2> QED BY <1>2, <1>3
<1>5. QED
  BY <1>4 DEF Min

\* The type is the name of one of the errors, if any of them has a name.
LEMMA ClassifyNames ==
  ASSUME NEW errors, DOMAIN errors \in SUBSET Nat
  PROVE  \/ /\ Classify(errors) = "SCHEMA_VALIDATION"
            /\ \A i \in DOMAIN errors : NameOf(errors[i]) = "SCHEMA_VALIDATION"
         \/ \E i \in DOMAIN errors :
              /\ Classify(errors) = NameOf(errors[i])
              /\ NameOf(errors[i]) # "SCHEMA_VALIDATION"
<1> DEFINE named == {i \in DOMAIN errors : NameOf(errors[i]) # "SCHEMA_VALIDATION"}
<1>1. Classify(errors) = IF named = {} THEN "SCHEMA_VALIDATION" ELSE NameOf(errors[Min(named)])
  BY DEF Classify
<1>2. CASE named = {}
  BY <1>1, <1>2
<1>3. CASE named # {}
  <2>1. named \in SUBSET Nat
    OBVIOUS
  <2>2. Min(named) \in named
    <3> HIDE DEF named
    <3> QED BY <2>1, <1>3, LeastPlace
  <2>3. Classify(errors) = NameOf(errors[Min(named)])
    BY <1>1, <1>3
  <2>4. QED
    BY <2>2, <2>3
<1>4. QED
  BY <1>2, <1>3

\* The errors of an object: one at the place of each field that breaks the
\* contract, and one after them for an extra field.
LEMMA ErrorPlaces ==
  ASSUME NEW m, m.form = "object", m.extra \in BOOLEAN
  PROVE  /\ DOMAIN Errors(m) \subseteq 1 .. 15
         /\ \A i \in 1 .. 14 :
              i \in DOMAIN Errors(m) <=> ~Holds(FieldOrder[i], m.fields[FieldOrder[i]])
         /\ 15 \in DOMAIN Errors(m) <=> m.extra
         /\ \A i \in DOMAIN Errors(m) :
              IF i = 15 THEN Errors(m)[i] = Error("extra_forbidden", "unexpected_field")
              ELSE Errors(m)[i]
                     = Error(TypeOfError(FieldOrder[i], m.fields[FieldOrder[i]]), FieldOrder[i])
<1> DEFINE broken == {i \in 1 .. 14 : ~Holds(FieldOrder[i], m.fields[FieldOrder[i]])}
           extra == IF m.extra THEN {15} ELSE {}
           ErrorAt(i) ==
             IF i = 15 THEN Error("extra_forbidden", "unexpected_field")
             ELSE Error(TypeOfError(FieldOrder[i], m.fields[FieldOrder[i]]), FieldOrder[i])
<1>1. Errors(m) = [i \in broken \cup extra |-> ErrorAt(i)]
  BY FieldPlaces DEF Errors
<1>2. DOMAIN Errors(m) = broken \cup extra /\ \A i \in broken \cup extra : Errors(m)[i] = ErrorAt(i)
  <2> HIDE DEF broken, extra, ErrorAt
  <2> QED BY <1>1
<1>3. broken \subseteq 1 .. 14 /\ 15 \notin broken /\ extra \subseteq {15} /\ (15 \in extra <=> m.extra)
  OBVIOUS
<1>4. \A i \in 1 .. 14 : i \notin extra
  BY <1>3
<1>5. QED
  BY <1>2, <1>3, <1>4

LEMMA AcceptedHolds ==
  ASSUME NEW m, MessageType(m)
  PROVE  Accepted(m) <=> /\ m.form = "object" /\ ~m.extra
                         /\ \A f \in Fields : Holds(f, m.fields[f])
<1>1. CASE m.form = "object"
  <2>1. /\ DOMAIN Errors(m) \subseteq 1 .. 15
        /\ \A i \in 1 .. 14 :
             i \in DOMAIN Errors(m) <=> ~Holds(FieldOrder[i], m.fields[FieldOrder[i]])
        /\ 15 \in DOMAIN Errors(m) <=> m.extra
    BY <1>1, ErrorPlaces DEF MessageType
  <2>2. \A i \in 1 .. 15 : i \in 1 .. 14 \/ i = 15
    OBVIOUS
  <2>3. DOMAIN Errors(m) = {} <=>
          ~m.extra /\ \A i \in 1 .. 14 : Holds(FieldOrder[i], m.fields[FieldOrder[i]])
    BY <2>1, <2>2
  <2>4. QED
    BY <1>1, <2>3, FieldPlaces DEF Accepted
<1>2. QED
  BY <1>1 DEF Accepted

\* The name of an error is that of something wrong with the message.
LEMMA NamesAreViolated ==
  ASSUME MessageType(message), message.form = "object",
         NEW i \in DOMAIN Errors(message),
         NameOf(Errors(message)[i]) # "SCHEMA_VALIDATION"
  PROVE  /\ NameOf(Errors(message)[i]) \in NamedTypes
         /\ Violates(NameOf(Errors(message)[i]))
<1>1. /\ i \in 1 .. 15
      /\ i \in 1 .. 14 => ~Holds(FieldOrder[i], message.fields[FieldOrder[i]])
      /\ i = 15 => message.extra
      /\ IF i = 15 THEN Errors(message)[i] = Error("extra_forbidden", "unexpected_field")
         ELSE Errors(message)[i]
                = Error(TypeOfError(FieldOrder[i], message.fields[FieldOrder[i]]), FieldOrder[i])
  BY ErrorPlaces DEF MessageType
<1>2. CASE i = 15
  <2>1. NameOf(Errors(message)[i]) = "UNEXPECTED_FIELD"
    BY <1>1, <1>2 DEF NameOf, Error
  <2>2. QED
    BY <1>1, <1>2, <2>1 DEF Violates, NamedTypes
<1>3. CASE i # 15
  <2>1. PICK f \in Fields : f = FieldOrder[i]
    BY <1>1, <1>3, FieldPlaces
  <2>2. ~Holds(f, message.fields[f]) /\ Errors(message)[i] = Error(TypeOfError(f, message.fields[f]), f)
    BY <1>1, <1>3, <2>1
  <2>3. CASE message.fields[f] = Absent
    <3>1. NameOf(Errors(message)[i]) = "MISSING_FIELD"
      BY <2>2, <2>3 DEF NameOf, Error, TypeOfError
    <3>2. QED
      BY <2>2, <2>3, <3>1 DEF Violates, NamedTypes
  <2>4. CASE message.fields[f] # Absent /\ f \in Enums
    <3>1. NameOf(Errors(message)[i]) = "INVALID_ENUM"
      BY <2>2, <2>4 DEF NameOf, Error, TypeOfError
    <3>2. QED
      BY <2>2, <2>4, <3>1 DEF Violates, NamedTypes
  <2>5. CASE message.fields[f] # Absent /\ f \notin Enums
    <3>1. Errors(message)[i].type = "constraint" /\ Errors(message)[i].loc = f
      BY <2>2, <2>5 DEF Error, TypeOfError
    <3>2. CASE f = "amount"
      <4>1. NameOf(Errors(message)[i]) = "INVALID_AMOUNT"
        BY <3>1, <3>2 DEF NameOf, Coordinates
      <4>2. QED
        BY <2>2, <2>5, <3>2, <4>1 DEF Violates, NamedTypes
    <3>3. CASE f \in Coordinates
      <4>1. NameOf(Errors(message)[i]) = "INVALID_COORDINATES"
        BY <3>1, <3>3 DEF NameOf, Coordinates
      <4>2. QED
        BY <2>2, <2>5, <3>3, <4>1 DEF Violates, NamedTypes
    <3>4. CASE f # "amount" /\ f \notin Coordinates
      <4>1. NameOf(Errors(message)[i]) = "SCHEMA_VALIDATION"
        BY <3>1, <3>4 DEF NameOf
      <4>2. QED
        BY <4>1
    <3>5. QED
      BY <3>2, <3>3, <3>4
  <2>6. QED
    BY <2>3, <2>4, <2>5
<1>4. QED
  BY <1>2, <1>3

\* What is wrong with the message, and has a name, is the name of an error.
LEMMA ViolationsAreNamed ==
  ASSUME MessageType(message), message.form = "object", NEW type \in NamedTypes, Violates(type)
  PROVE  \E i \in DOMAIN Errors(message) : NameOf(Errors(message)[i]) # "SCHEMA_VALIDATION"
<1>1. ASSUME NEW f \in Fields, ~Holds(f, message.fields[f])
      PROVE  \E i \in DOMAIN Errors(message) :
               Errors(message)[i] = Error(TypeOfError(f, message.fields[f]), f)
  <2>1. PICK i \in 1 .. 14 : FieldOrder[i] = f
    BY FieldPlaces
  <2>2. i \in DOMAIN Errors(message) /\ i # 15
    BY <1>1, <2>1, ErrorPlaces DEF MessageType
  <2>3. Errors(message)[i] = Error(TypeOfError(f, message.fields[f]), f)
    BY <2>1, <2>2, ErrorPlaces DEF MessageType
  <2>4. QED
    BY <2>2, <2>3
<1>2. /\ "amount" \in Fields /\ "latitude" \in Fields /\ "longitude" \in Fields
      /\ Enums \subseteq Fields /\ Coordinates = {"latitude", "longitude"}
      /\ "amount" \notin Enums \cup Coordinates /\ Coordinates \cap Enums = {}
  BY FieldPlaces DEF AllFields, Enums, Coordinates
<1>3. CASE type = "UNEXPECTED_FIELD"
  <2>1. message.extra
    BY <1>3 DEF Violates
  <2>2. 15 \in DOMAIN Errors(message)
        /\ Errors(message)[15] = Error("extra_forbidden", "unexpected_field")
    BY <2>1, ErrorPlaces DEF MessageType
  <2>3. NameOf(Errors(message)[15]) = "UNEXPECTED_FIELD"
    BY <2>2 DEF NameOf, Error
  <2>4. QED
    BY <2>2, <2>3
<1>4. CASE type # "UNEXPECTED_FIELD"
  <2>1. \E f \in Fields :
          /\ ~Holds(f, message.fields[f])
          /\ f \in Enums \cup {"amount"} \cup Coordinates \/ message.fields[f] = Absent
    BY <1>2, <1>4 DEF Violates, NamedTypes
  <2>2. PICK f \in Fields :
          /\ ~Holds(f, message.fields[f])
          /\ f \in Enums \cup {"amount"} \cup Coordinates \/ message.fields[f] = Absent
    BY <2>1
  <2>3. PICK i \in DOMAIN Errors(message) :
          Errors(message)[i] = Error(TypeOfError(f, message.fields[f]), f)
    BY <1>1, <2>2
  <2>4. NameOf(Error(TypeOfError(f, message.fields[f]), f)) # "SCHEMA_VALIDATION"
    BY <1>2, <2>2 DEF NameOf, Error, TypeOfError
  <2>5. QED
    BY <2>3, <2>4
<1>5. QED
  BY <1>3, <1>4

LEMMA OneError ==
  ASSUME NEW g \in Fields, NEW v \in Value, g # "event_timestamp", ~Holds(g, v),
         NameOf(Error(TypeOfError(g, v), g)) # "SCHEMA_VALIDATION"
  PROVE  /\ Spoiled(g, v).form = "object" /\ ~Accepted(Spoiled(g, v))
         /\ Classify(Errors(Spoiled(g, v))) = NameOf(Error(TypeOfError(g, v), g))
<1> DEFINE m == Spoiled(g, v)
<1>1. /\ m.form = "object" /\ m.extra \in BOOLEAN /\ ~m.extra
      /\ m.fields \in [Fields -> Value] /\ m.fields[g] = v
      /\ \A f \in Fields \ {g} : m.fields[f] = ValidBase[f]
      /\ Timely(m.fields["event_timestamp"])
  BY BaseTyped, FieldPlaces DEF Spoiled, Object, Message, AllFields
<1>2. MessageType(m)
  BY <1>1 DEF MessageType
<1> HIDE DEF m
<1>3. \A f \in Fields : ~Holds(f, m.fields[f]) => f = g
  BY <1>1, BaseTyped
<1>4. ASSUME NEW i \in DOMAIN Errors(m) PROVE Errors(m)[i] = Error(TypeOfError(g, v), g)
  <2>1. i \in 1 .. 14 /\ ~Holds(FieldOrder[i], m.fields[FieldOrder[i]])
    BY <1>1, ErrorPlaces
  <2>2. FieldOrder[i] = g
    BY <2>1, <1>3, FieldPlaces
  <2>3. QED
    BY <2>1, <2>2, <1>1, ErrorPlaces
<1>5. ~Accepted(m)
  BY <1>1, <1>2, AcceptedHolds
<1>6. DOMAIN Errors(m) # {} /\ DOMAIN Errors(m) \in SUBSET Nat
  <2>1. DOMAIN Errors(m) \subseteq 1 .. 15
    BY <1>1, ErrorPlaces
  <2>2. DOMAIN Errors(m) # {}
    BY <1>1, <1>5 DEF Accepted
  <2>3. 1 .. 15 \subseteq Nat
    OBVIOUS
  <2>4. QED
    BY <2>1, <2>2, <2>3
<1>7. Classify(Errors(m)) = NameOf(Error(TypeOfError(g, v), g))
  BY <1>4, <1>6, ClassifyNames
<1>8. QED
  BY <1>1, <1>5, <1>7 DEF m

LEMMA FixtureTypes ==
  /\ NotJson.form = "not_json"
  /\ \A m \in {WithExtra} \cup {Spoiled("amount", V("number", -10000, 0)), Spoiled("amount", Absent),
                 Spoiled("currency", V("text", 3, 0)), Spoiled("latitude", V("number", 200, 0))} :
       m.form = "object" /\ ~Accepted(m)
  /\ Classify(Errors(WithExtra)) = "UNEXPECTED_FIELD"
  /\ Classify(Errors(Spoiled("amount", V("number", -10000, 0)))) = "INVALID_AMOUNT"
  /\ Classify(Errors(Spoiled("amount", Absent))) = "MISSING_FIELD"
  /\ Classify(Errors(Spoiled("currency", V("text", 3, 0)))) = "INVALID_ENUM"
  /\ Classify(Errors(Spoiled("latitude", V("number", 200, 0)))) = "INVALID_COORDINATES"
<1>1. /\ V("number", -10000, 0) \in Value /\ V("text", 3, 0) \in Value
      /\ V("number", 200, 0) \in Value /\ Absent \in Value
  BY DEF V, Absent, Value, Kinds
<1>2. /\ "amount" \in Fields /\ "currency" \in Fields /\ "latitude" \in Fields
  BY FieldPlaces DEF AllFields
<1>3. /\ ~Holds("amount", V("number", -10000, 0)) /\ ~Holds("amount", Absent)
      /\ ~Holds("currency", V("text", 3, 0)) /\ ~Holds("latitude", V("number", 200, 0))
  BY DEF Holds, V, Absent, Ids, Enums, Coordinates
<1>4. /\ NameOf(Error(TypeOfError("amount", V("number", -10000, 0)), "amount")) = "INVALID_AMOUNT"
      /\ NameOf(Error(TypeOfError("amount", Absent), "amount")) = "MISSING_FIELD"
      /\ NameOf(Error(TypeOfError("currency", V("text", 3, 0)), "currency")) = "INVALID_ENUM"
      /\ NameOf(Error(TypeOfError("latitude", V("number", 200, 0)), "latitude"))
           = "INVALID_COORDINATES"
  BY DEF NameOf, Error, TypeOfError, V, Absent, Enums, Coordinates
<1>5. /\ WithExtra.form = "object" /\ ~Accepted(WithExtra)
      /\ Classify(Errors(WithExtra)) = "UNEXPECTED_FIELD"
  <2> DEFINE m == WithExtra
  <2>1. m.form = "object" /\ m.extra = TRUE /\ m.fields = ValidBase
    BY DEF WithExtra, Message
  <2>2. MessageType(m)
    BY <2>1, BaseTyped DEF MessageType
  <2> HIDE DEF m
  <2>3. /\ DOMAIN Errors(m) \subseteq 1 .. 15 /\ 15 \in DOMAIN Errors(m)
        /\ Errors(m)[15] = Error("extra_forbidden", "unexpected_field")
    BY <2>1, ErrorPlaces
  <2>4. \A i \in DOMAIN Errors(m) : i = 15
    <3>1. \A i \in 1 .. 14 : Holds(FieldOrder[i], m.fields[FieldOrder[i]])
      BY <2>1, BaseTyped, FieldPlaces
    <3>2. \A i \in 1 .. 14 : i \notin DOMAIN Errors(m)
      BY <2>1, <3>1, ErrorPlaces
    <3>3. QED
      BY <2>3, <3>2
  <2>5. NameOf(Errors(m)[15]) = "UNEXPECTED_FIELD"
    BY <2>3 DEF NameOf, Error
  <2>6. Classify(Errors(m)) = "UNEXPECTED_FIELD"
    BY <2>3, <2>4, <2>5, ClassifyNames
  <2>7. QED
    BY <2>1, <2>3, <2>6 DEF Accepted, m
<1>6. NotJson.form = "not_json"
  BY DEF NotJson, Message
<1>7. ASSUME NEW g \in {"amount", "currency", "latitude"}, NEW v \in Value, ~Holds(g, v),
             NameOf(Error(TypeOfError(g, v), g)) # "SCHEMA_VALIDATION"
      PROVE  /\ Spoiled(g, v).form = "object" /\ ~Accepted(Spoiled(g, v))
             /\ Classify(Errors(Spoiled(g, v))) = NameOf(Error(TypeOfError(g, v), g))
  BY <1>2, <1>7, OneError
<1>8. QED
  BY <1>1, <1>3, <1>4, <1>5, <1>6, <1>7

-----------------------------------------------------------------------------
(* What an accepted message's fields are like *)

LEMMA AcceptedFields ==
  ASSUME NEW m, MessageType(m), Accepted(m)
  PROVE  /\ m.form = "object"
         /\ VersionOf(m).n \in Nat \ {0}
         /\ VersionOf(m) = V("number", VersionOf(m).n, 0)
         /\ \E c \in 1 .. MaxCents : m.fields["amount"].n = 10 * c
         /\ m.fields["event_timestamp"].is = "aware"
         /\ m.fields["event_timestamp"].n \in 0 .. LastInstant
         /\ m.fields["event_timestamp"].zone \in Int
<1>1. /\ m.form = "object" /\ \A f \in Fields : Holds(f, m.fields[f])
      /\ \A f \in Fields : m.fields[f] \in Value
  BY AcceptedHolds DEF MessageType
<1>2. "schema_version" \in Fields /\ "amount" \in Fields /\ "event_timestamp" \in Fields
  BY FieldPlaces DEF AllFields
<1>3. VersionOf(m).n \in Nat \ {0} /\ VersionOf(m) = V("number", VersionOf(m).n, 0)
  <2> DEFINE v == m.fields["schema_version"]
  <2>1. v \in Value /\ (v = Absent \/ (v.is = "number" /\ v.n >= 1))
    BY <1>1, <1>2 DEF Holds, Ids, Enums, Coordinates
  <2>2. VersionOf(m) = IF v = Absent THEN V("number", 1, 0) ELSE v
    BY DEF VersionOf
  <2> HIDE DEF v
  <2>3. QED
    BY <2>1, <2>2 DEF V, Absent, Value, Kinds, v
<1>4. \E c \in 1 .. MaxCents : m.fields["amount"].n = 10 * c
  <2> DEFINE n == m.fields["amount"].n
  <2>1. n \in Int /\ n % 10 = 0 /\ n \in 1 .. 10 * MaxCents
    BY <1>1, <1>2 DEF Holds, Ids, Enums, Coordinates, Value
  <2> HIDE DEF n
  <2>2. n = 10 * (n \div 10) /\ n \div 10 \in 1 .. MaxCents
    BY <2>1, ContractAssumption
  <2>3. QED
    BY <2>2 DEF n
<1>5. m.fields["event_timestamp"].is = "aware" /\ m.fields["event_timestamp"].zone \in Int
  BY <1>1, <1>2 DEF Holds, Ids, Enums, Coordinates, Value
<1>6. QED
  BY <1>1, <1>3, <1>4, <1>5 DEF MessageType, Timely

-----------------------------------------------------------------------------
(* The message's way *)

LEMMA ContractStarts == Init => ContractInv
BY DEF Init, ContractInv

LEMMA ContractSteps == ContractInv /\ [Next]_vars => ContractInv'
<1> SUFFICES ASSUME ContractInv, [Next]_vars PROVE ContractInv'
  OBVIOUS
<1> USE DEF ContractInv
<1>1. CASE Validate
  <2>1. /\ at = "raw" /\ message.form # "unloadable" /\ at' = "checked"
        /\ message' = message /\ output' = output /\ wire' = wire /\ row' = row
    BY <1>1 DEF Validate
  <2>2. outcome' = OutcomeOf(message)
    BY <1>1 DEF Validate, OutcomeOf
  <2>3. QED
    BY <2>1, <2>2
<1>2. CASE LoadRaises
  BY <1>2 DEF LoadRaises
<1>3. CASE Serialize
  <2>1. /\ at = "checked" /\ outcome.is_valid /\ message' = message /\ outcome' = outcome
        /\ row' = row /\ output' = output /\ message.form # "unloadable"
    BY <1>3 DEF Serialize
  <2>2. Accepted(message)
    BY <2>1 DEF OutcomeOf
  <2>3. CASE Utc(message) \in 0 .. LastInstant /\ output = "fits"
    <3>1. at' = "validated" /\ wire' = WireOf(message)
      BY <1>3, <2>3 DEF Serialize, WireOf, Utc
    <3>2. QED
      BY <2>1, <2>2, <2>3, <3>1
  <2>4. CASE Utc(message) \notin 0 .. LastInstant \/ output # "fits"
    <3>1. at' = "raised" /\ wire' = wire
      BY <1>3, <2>4 DEF Serialize, Utc
    <3>2. QED
      BY <2>1, <2>2, <2>4, <3>1
  <2>5. QED
    BY <2>3, <2>4
<1>4. CASE Reject
  <2>1. /\ at = "checked" /\ ~outcome.is_valid
        /\ at' = IF output = "fits" THEN "dlq" ELSE "raised"
        /\ message' = message /\ output' = output /\ outcome' = outcome /\ wire' = wire /\ row' = row
    BY <1>4 DEF Reject
  <2>2. ~Accepted(message)
    BY <2>1 DEF OutcomeOf
  <2>3. QED
    BY <2>1, <2>2
<1>5. CASE ParseValidatedJson
  <2>1. /\ at = "validated" /\ at' = "read" /\ wire = WireOf(message)
        /\ message' = message /\ output' = output /\ outcome' = outcome /\ wire' = wire
    BY <1>5 DEF ParseValidatedJson
  <2>2. row' = RowOf(WireOf(message))
    BY <1>5, <2>1 DEF ParseValidatedJson, RowOf
  <2>3. QED
    BY <2>1, <2>2
<1>6. CASE UNCHANGED vars
  BY <1>6 DEF vars
<1>7. QED
  BY <1>1, <1>2, <1>3, <1>4, <1>5, <1>6 DEF Next

LEMMA ContractInvariance == Spec => []ContractInv
BY ContractStarts, ContractSteps, PTL DEF Spec

\* The columns of an accepted message.
LEMMA Columns ==
  ASSUME NEW m, MessageType(m), Accepted(m), Utc(m) \in 0 .. LastInstant
  PROVE  LET r == RowOf(WireOf(m)) IN
         /\ DOMAIN WireOf(m) = Fields /\ DOMAIN r = Fields
         /\ r["amount"] = V("number", m.fields["amount"].n \div 10, 0)
         /\ m.fields["amount"].n \div 10 \in 1 .. MaxCents
         /\ r["event_timestamp"] = V("aware", Utc(m) \div 1000, 0)
         /\ Utc(m) - 1000 * (Utc(m) \div 1000) \in 0 .. 999
         /\ r["schema_version"] = IF VersionOf(m).n <= MaxInt
                                  THEN V("number", VersionOf(m).n, 0) ELSE Null
         /\ \A f \in Ids \cup Enums : r[f] = m.fields[f]
         /\ \A f \in Coordinates : r[f] = JsonFloat(m.fields[f])
<1> DEFINE w == WireOf(m)
           r == RowOf(w)
<1>1. /\ "schema_version" \in Fields /\ "amount" \in Fields /\ "event_timestamp" \in Fields
      /\ Ids \cup Enums \subseteq Fields /\ Coordinates \subseteq Fields
      /\ Coordinates = {"latitude", "longitude"}
      /\ \A f \in Ids \cup Enums :
           f \notin {"amount", "event_timestamp", "schema_version", "latitude", "longitude"}
  BY FieldPlaces DEF AllFields, Ids, Enums, Coordinates
<1>2. /\ DOMAIN w = Fields
      /\ w["schema_version"] = VersionOf(m)
      /\ w["amount"] = V("text", m.fields["amount"].n \div 10, 0)
      /\ w["event_timestamp"] = V("text", Utc(m) \div 1000, 0)
      /\ \A f \in Ids \cup Enums : w[f] = m.fields[f]
      /\ \A f \in Coordinates : w[f] = JsonFloat(m.fields[f])
  BY <1>1 DEF WireOf, MessageType
<1> HIDE DEF w
<1>3. /\ DOMAIN r = Fields /\ \A f \in Fields : r[f] = ReadColumn(f, w[f])
  BY DEF RowOf
<1> HIDE DEF r
<1>4. m.fields["amount"].n \div 10 \in 1 .. MaxCents
  <2>1. PICK c \in 1 .. MaxCents : m.fields["amount"].n = 10 * c
    BY AcceptedFields
  <2>2. (10 * c) \div 10 = c
    BY ContractAssumption
  <2>3. QED
    BY <2>1, <2>2
<1>5. r["amount"] = V("number", m.fields["amount"].n \div 10, 0)
  <2>1. w["amount"].n = m.fields["amount"].n \div 10
    BY <1>2 DEF V
  <2>2. w["amount"].n <= MaxCents
    BY <1>4, <2>1
  <2>3. QED
    BY <1>1, <1>3, <2>1, <2>2 DEF ReadColumn
<1>6. r["event_timestamp"] = V("aware", Utc(m) \div 1000, 0)
  BY <1>1, <1>2, <1>3 DEF ReadColumn, V
<1>7. Utc(m) - 1000 * (Utc(m) \div 1000) \in 0 .. 999
  <2> DEFINE u == Utc(m)
  <2>1. u \in Nat
    BY ContractAssumption
  <2> HIDE DEF u
  <2>2. u - 1000 * (u \div 1000) \in 0 .. 999
    BY <2>1
  <2>3. QED
    BY <2>2 DEF u
<1>8. r["schema_version"] = IF VersionOf(m).n <= MaxInt THEN V("number", VersionOf(m).n, 0) ELSE Null
  <2>1. VersionOf(m) = V("number", VersionOf(m).n, 0)
    BY AcceptedFields
  <2>2. r["schema_version"] = IF VersionOf(m).n <= MaxInt THEN VersionOf(m) ELSE Null
    BY <1>1, <1>2, <1>3 DEF ReadColumn
  <2>3. QED
    BY <2>1, <2>2
<1>9. \A f \in Ids \cup Enums \cup Coordinates : r[f] = w[f]
  BY <1>1, <1>3 DEF ReadColumn
<1>10. QED
  BY <1>2, <1>3, <1>4, <1>5, <1>6, <1>7, <1>8, <1>9 DEF r, w

(***************************************************************************)
(* Every message is at a known point, and the columns that are read have   *)
(* their types: a version that fits or is null, an amount of at least a    *)
(* cent (transaction_event_schema, parse_validated_json).                  *)
(***************************************************************************)
THEOREM ContractTypeCorrect == Spec => []TypeOK
<1>1. ContractInv => TypeOK
  <2> SUFFICES ASSUME ContractInv PROVE TypeOK
    OBVIOUS
  <2> USE DEF ContractInv
  <2>1. MessageType(message)
    BY MessagesTyped
  <2>2. "schema_version" \in Fields /\ "amount" \in Fields
    BY FieldPlaces DEF AllFields
  <2>3. /\ DOMAIN ValidBase = Fields
        /\ ValidBase["schema_version"] = V("number", 1, 0)
        /\ ValidBase["amount"].n = 20
    BY <2>2 DEF ValidBase, V, Ids, Enums
  <2>4. 1 \in 1 .. MaxInt /\ 20 \in 1 .. 10 * MaxCents
    BY ContractAssumption
  <2>5. DOMAIN wire = Fields
    BY <2>1, <2>3, Columns
  <2>6. CASE at # "read"
    BY <2>3, <2>4, <2>5, <2>6 DEF TypeOK
  <2>7. CASE at = "read"
    <3> DEFINE r == RowOf(WireOf(message))
               n == VersionOf(message).n
               c == message.fields["amount"].n \div 10
    <3>1. /\ row = r /\ DOMAIN r = Fields
          /\ r["amount"] = V("number", c, 0) /\ c \in 1 .. MaxCents
          /\ r["schema_version"] = IF n <= MaxInt THEN V("number", n, 0) ELSE Null
      BY <2>1, <2>7, Columns
    <3>2. n \in Nat \ {0}
      BY <2>1, <2>7, AcceptedFields
    <3> HIDE DEF r, n, c
    <3>3. row["amount"].n \in 1 .. 10 * MaxCents
      BY <3>1, ContractAssumption DEF V
    <3>4. row["schema_version"] \in {Null} \cup {V("number", k, 0) : k \in 1 .. MaxInt}
      BY <3>1, <3>2, ContractAssumption
    <3>5. QED
      BY <2>5, <3>1, <3>3, <3>4 DEF TypeOK
  <2>8. QED
    BY <2>6, <2>7
<1>2. QED
  BY <1>1, ContractInvariance, PTL

(***************************************************************************)
(* The type of a dead letter names something wrong with its payload, for   *)
(* every combination of broken fields (_classify_validation_error).        *)
(***************************************************************************)
THEOREM ErrorTypeIsAViolation == Spec => []ErrorTypeNamesAViolation
<1>1. ContractInv => ErrorTypeNamesAViolation
  <2> SUFFICES ASSUME ContractInv, at = "dlq", message.form = "object"
               PROVE  IF outcome.error_type \in NamedTypes
                      THEN Violates(outcome.error_type)
                      ELSE /\ outcome.error_type = "SCHEMA_VALIDATION"
                           /\ \A type \in NamedTypes : ~Violates(type)
                           /\ \E f \in Fields : ~Holds(f, message.fields[f])
    BY DEF ErrorTypeNamesAViolation
  <2>1. MessageType(message) /\ ~Accepted(message)
    BY MessagesTyped DEF ContractInv
  <2> DEFINE errors == Errors(message)
  <2>2. outcome.error_type = Classify(errors)
    BY <2>1 DEF ContractInv, OutcomeOf
  <2>3. DOMAIN errors \in SUBSET Nat
    <3>1. DOMAIN errors \subseteq 1 .. 15
      BY <2>1, ErrorPlaces DEF MessageType
    <3>2. 1 .. 15 \subseteq Nat
      OBVIOUS
    <3>3. QED
      BY <3>1, <3>2
  <2>4. CASE \E i \in DOMAIN errors :
               /\ Classify(errors) = NameOf(errors[i])
               /\ NameOf(errors[i]) # "SCHEMA_VALIDATION"
    BY <2>1, <2>2, <2>4, NamesAreViolated
  <2>5. CASE /\ Classify(errors) = "SCHEMA_VALIDATION"
             /\ \A i \in DOMAIN errors : NameOf(errors[i]) = "SCHEMA_VALIDATION"
    <3>1. \A type \in NamedTypes : ~Violates(type)
      BY <2>1, <2>5, ViolationsAreNamed
    <3>2. ~message.extra
      BY <3>1 DEF NamedTypes, Violates
    <3>3. \E f \in Fields : ~Holds(f, message.fields[f])
      BY <2>1, <3>2, AcceptedHolds
    <3>4. outcome.error_type = "SCHEMA_VALIDATION" /\ outcome.error_type \notin NamedTypes
      BY <2>2, <2>5 DEF NamedTypes
    <3>5. QED
      BY <3>1, <3>3, <3>4
  <2>6. QED
    <3> HIDE DEF errors
    <3> QED BY <2>3, <2>4, <2>5, ClassifyNames
<1>2. QED
  BY <1>1, ContractInvariance, PTL

(***************************************************************************)
(* Each case of publish_invalid is rejected under its own type             *)
(* (build_invalid_event).                                                  *)
(***************************************************************************)
THEOREM FixturesAreTold == Spec => []FixturesGetTheirType
<1>1. ContractInv => FixturesGetTheirType
  <2> DEFINE types == [json |-> "MALFORMED_JSON", amount |-> "INVALID_AMOUNT",
                       enum |-> "INVALID_ENUM", extra |-> "UNEXPECTED_FIELD",
                       coords |-> "INVALID_COORDINATES", missing |-> "MISSING_FIELD"]
  <2> SUFFICES ASSUME ContractInv, NEW case \in DOMAIN BuildInvalidEvent,
                      message = BuildInvalidEvent[case], at # "raw"
               PROVE  ~outcome.is_valid /\ outcome.error_type = types[case]
    BY DEF FixturesGetTheirType
  <2>1. outcome = OutcomeOf(message)
    BY FixtureTyped DEF ContractInv
  <2>2. case \in {"json", "amount", "enum", "extra", "coords", "missing"}
    BY Fixtures
  <2>3. CASE case = "json"
    <3>1. message.form = "not_json"
      BY <2>3, Fixtures, FixtureTypes
    <3>2. ~Accepted(message)
      BY <3>1 DEF Accepted
    <3>3. QED
      BY <2>1, <2>3, <3>1, <3>2 DEF OutcomeOf
  <2>4. CASE case # "json"
    <3>1. /\ message.form = "object" /\ ~Accepted(message)
          /\ Classify(Errors(message)) = types[case]
      BY <2>2, <2>4, Fixtures, FixtureTypes
    <3>2. QED
      BY <2>1, <3>1 DEF OutcomeOf
  <2>5. QED
    BY <2>3, <2>4
<1>2. QED
  BY <1>1, ContractInvariance, PTL

(***************************************************************************)
(* The streaming job reads the event that was accepted: its amount to the  *)
(* cent, its instant to the millisecond, and every other field but a       *)
(* version that does not fit and a coordinate that is not a number         *)
(* (serialize_event, parse_validated_json).                                *)
(***************************************************************************)
THEOREM StreamReadsWhatWasAccepted == Spec => []StreamReadsTheEvent
<1>1. ContractInv => StreamReadsTheEvent
  <2> SUFFICES ASSUME ContractInv, at = "read" PROVE StreamReadsTheEvent
    BY DEF StreamReadsTheEvent
  <2> DEFINE t == message.fields["event_timestamp"]
             version == IF message.fields["schema_version"] = Absent THEN 1
                        ELSE message.fields["schema_version"].n
             u == Utc(message)
  <2>1. /\ MessageType(message) /\ Accepted(message) /\ u \in 0 .. LastInstant
        /\ row = RowOf(WireOf(message))
    BY MessagesTyped DEF ContractInv
  <2>2. /\ row["amount"] = V("number", message.fields["amount"].n \div 10, 0)
        /\ row["event_timestamp"] = V("aware", u \div 1000, 0)
        /\ u - 1000 * (u \div 1000) \in 0 .. 999
        /\ row["schema_version"] = IF VersionOf(message).n <= MaxInt
                                   THEN V("number", VersionOf(message).n, 0) ELSE Null
        /\ \A f \in Ids \cup Enums : row[f] = message.fields[f]
        /\ \A f \in Coordinates : row[f] = JsonFloat(message.fields[f])
    BY <2>1, Columns
  <2>3. VersionOf(message).n = version
    BY DEF VersionOf, V
  <2>4. t.n - t.zone = u
    BY DEF Utc, UtcMicros
  <2>5. row["event_timestamp"].is = "aware" /\ row["event_timestamp"].n = u \div 1000
    BY <2>2 DEF V
  <2> HIDE DEF version, u, t
  <2>6. t.n - t.zone - 1000 * row["event_timestamp"].n \in 0 .. 999
    <3>1. u - 1000 * (u \div 1000) \in 0 .. 999
      BY <2>2
    <3> DEFINE k == 1000 * (u \div 1000)
    <3>2. 1000 * row["event_timestamp"].n = k
      BY <2>5
    <3> HIDE DEF k
    <3>3. u - k \in 0 .. 999
      BY <3>1 DEF k
    <3>4. QED
      BY <2>4, <3>2, <3>3
  <2>7. row["schema_version"] = IF version <= MaxInt THEN V("number", version, 0) ELSE Null
    BY <2>2, <2>3
  <2>8. /\ row["amount"] = V("number", message.fields["amount"].n \div 10, 0)
        /\ \A f \in Ids \cup Enums : row[f] = message.fields[f]
    BY <2>2
  <2>9. ASSUME NEW f \in Coordinates
        PROVE  /\ message.fields[f].is = "number" => row[f] = message.fields[f]
               /\ message.fields[f].is # "number" => row[f] = Null
    <3>1. f \in Fields /\ f \in {"latitude", "longitude"}
      BY FieldPlaces DEF AllFields, Coordinates
    <3>2. Holds(f, message.fields[f])
      BY <2>1, <3>1, AcceptedHolds
    <3>3. message.fields[f].is \in {"number", "nan"}
      BY <3>1, <3>2 DEF Holds, Ids, Enums
    <3>4. row[f] = JsonFloat(message.fields[f])
      BY <2>2
    <3>5. QED
      BY <3>3, <3>4 DEF JsonFloat
  <2>10. QED
    BY <2>5, <2>6, <2>7, <2>8, <2>9, Zenon DEF StreamReadsTheEvent, version, t
<1>2. QED
  BY <1>1, ContractInvariance, PTL

(***************************************************************************)
(* A message ends the service if, and only if, json.loads gives up on it,  *)
(* what would be published for it cannot be, or its instant has no date in *)
(* UTC (validate_raw_payload, serialize_event_timestamp,                   *)
(* build_dead_letter, _publish).                                           *)
(***************************************************************************)
THEOREM OnlyEdgesRaise == Spec => []OnlyTheUnwritableRaise
<1>1. ContractInv => OnlyTheUnwritableRaise
  <2> SUFFICES ASSUME ContractInv PROVE OnlyTheUnwritableRaise
    OBVIOUS
  <2> DEFINE t == message.fields["event_timestamp"]
             edge == \/ t.zone > 0 /\ t.n < t.zone
                     \/ t.zone < 0 /\ t.n > LastInstant + t.zone
  <2>1. EndsTheService <=> \/ message.form = "unloadable" \/ output # "fits"
                           \/ Accepted(message) /\ edge
    BY DEF EndsTheService
  <2>2. ASSUME Accepted(message) PROVE edge <=> Utc(message) \notin 0 .. LastInstant
    <3>1. t.n \in 0 .. LastInstant /\ t.zone \in Int
      BY <2>2, MessagesTyped, AcceptedFields DEF ContractInv
    <3>2. Utc(message) = t.n - t.zone
      BY DEF Utc, UtcMicros
    <3> DEFINE n == t.n
               zone == t.zone
    <3>3. ((zone > 0 /\ n < zone) \/ (zone < 0 /\ n > LastInstant + zone))
            <=> n - zone \notin 0 .. LastInstant
      <4> HIDE DEF t
      <4>1. n \in 0 .. LastInstant /\ zone \in Int
        BY <3>1
      <4> HIDE DEF n, zone
      <4>2. QED
        BY <4>1, ContractAssumption
    <3>4. QED
      BY <3>2, <3>3
  <2> HIDE DEF edge
  <2>3. at = "raised" => EndsTheService
    BY <2>1, <2>2 DEF ContractInv
  <2>4. at \in {"validated", "dlq", "read"} => ~EndsTheService
    BY <2>1, <2>2 DEF ContractInv
  <2>5. QED
    BY <2>3, <2>4 DEF OnlyTheUnwritableRaise
<1>2. QED
  BY <1>1, ContractInvariance, PTL

=============================================================================
