------------------------------ MODULE WireParity ------------------------------
(***************************************************************************)
(* scripts/check_openapi_parity.py and what a passed check says about the  *)
(* bodies the two sides exchange afterwards.                               *)
(*                                                                         *)
(* The contract is written in the executor's repository and the models in  *)
(* this one.  The check compares, for the schemas of a table, the names of *)
(* fields, which are required, and additionalProperties.  It compares no   *)
(* types, patterns or enumerations and knows nothing of the validators, so *)
(* that is all that a passed check can rule out: a body that is not taken  *)
(* has a value the other side does not allow, never a missing field or an  *)
(* unknown one.                                                            *)
(***************************************************************************)
EXTENDS Naturals

CONSTANTS MaxEdits    \* bound on the edits to the two sides

\* Two schemas and four of their fields stand for all: one schema is in the
\* table and is sent, the other is not in it and is only received.
Record == "SignOnlyLifecycleRecord"
Session == "AdminSession"
Schemas == {Record, Session}
Names == {"event_id", "state", "signed_order_ref", "principal_subject"}

\* Of a field's values three are told apart: null, a plain one, and an odd one.
\* Plain is a number for event_id, SIGNED_DRY_RUN for state, for signed_order_ref
\* one that _parse_sign_only_ref takes and that is of the record's execution, a
\* name for principal_subject.  Odd is a word for event_id, another state, any other
\* string for signed_order_ref, a blank for principal_subject.
FieldValues == {"null", "plain", "odd"}

\* Is a field there, must it be, and what it may hold; a field with a default in a
\* model has None among its values.
Shapes == {h \in [need: {"missing", "optional", "required"}, values: SUBSET FieldValues] :
             h.need = "missing" <=> h.values = {}}
ModelShapes == {h \in Shapes : h.need = "optional" => "null" \in h.values}

Missing == [need |-> "missing", values |-> {}]
MayHold(values) == [need |-> "optional", values |-> values]
MustHold(values) == [need |-> "required", values |-> values]

Contracts == [Schemas -> [closed: BOOLEAN, there: BOOLEAN, fields: [Names -> Shapes]]]
Models == [Schemas -> [Names -> ModelShapes]]

VARIABLES contract,   \* per schema: its fields, additionalProperties: false, is it there
          model,      \* per schema: the fields of the model
          verdict,    \* the check's, of what is there now
          body,       \* the last body exchanged, 0 or 1 of them
          edits

parityVars == <<contract, model, verdict, body, edits>>

\* executor.v1.yaml and models.py as they are committed.
Committed == [
  SignOnlyLifecycleRecord |-> [closed |-> TRUE, there |-> TRUE, fields |->
    [event_id |-> MayHold({"plain"}), state |-> MustHold({"plain", "odd"}),
     signed_order_ref |-> MustHold(FieldValues), principal_subject |-> Missing]],
  AdminSession |-> [closed |-> TRUE, there |-> TRUE, fields |->
    [event_id |-> Missing, state |-> Missing, signed_order_ref |-> Missing,
     principal_subject |-> MustHold({"plain", "odd"})]]]
Written == [
  SignOnlyLifecycleRecord |->
    [event_id |-> MayHold({"null", "plain"}), state |-> MustHold({"plain", "odd"}),
     signed_order_ref |-> MustHold(FieldValues), principal_subject |-> Missing],
  AdminSession |->
    [event_id |-> Missing, state |-> Missing, signed_order_ref |-> Missing,
     principal_subject |-> MustHold({"plain"})]]

ParityInit ==
  /\ contract = Committed /\ model = Written
  /\ verdict = "unchecked" /\ body = <<>> /\ edits = 0

-------------------------------------------------------------------------------
(* The check.                                                               *)

Listed == {Record}    \* MODEL_BY_SCHEMA

Present(fields) == {n \in Names : fields[n].need # "missing"}
DemandedFields(fields) == {n \in Names : fields[n].need = "required"}

\* Mutant of Differs: the names of the fields alone.
DiffersInNames(s) ==
  \/ ~contract[s].there \/ ~contract[s].closed
  \/ Present(model[s]) # Present(contract[s].fields)

\* Every model forbids extra fields, so the contract must.
Differs(s) ==
  \/ ~contract[s].there \/ ~contract[s].closed
  \/ Present(model[s]) # Present(contract[s].fields)
  \/ DemandedFields(model[s]) # DemandedFields(contract[s].fields)

CheckParity ==
  /\ verdict = "unchecked"
  /\ verdict' = IF \E s \in Listed : Differs(s) THEN "failed" ELSE "passed"
  /\ UNCHANGED <<contract, model, body, edits>>

-------------------------------------------------------------------------------
(* Bodies.                                                                  *)

Bodies == [Names -> FieldValues \cup {"absent"}]

Fits(h, v) == v \in h.values \/ (v = "absent" /\ h.need # "required")

\* What the contract says of a body: presence, type, enumeration and pattern.
Conforms(s, b) ==
  /\ contract[s].there
  /\ \A n \in Names :
       \/ Fits(contract[s].fields[n], b[n])
       \/ contract[s].fields[n].need = "missing" /\ ~contract[s].closed

\* signed_order_ref_boundary, which no line of the contract has: a reference goes
\* with SIGNED_DRY_RUN, and with no other state.
ReferenceMatchesState(s, b) ==
  s = Record /\ {"state", "signed_order_ref"} \subseteq Present(model[s]) =>
    IF b["state"] = "plain" THEN b["signed_order_ref"] = "plain"
                            ELSE b["signed_order_ref"] \in {"null", "absent"}

\* model_validate, with extra="forbid".
Validates(s, b) == (\A n \in Names : Fits(model[s][n], b[n])) /\ ReferenceMatchesState(s, b)

\* model_dump: a valid body with every field of the model.
Dumped(s, b) == Validates(s, b) /\ \A n \in Present(model[s]) : b[n] # "absent"

Exchanged(from, s, b, taken) ==
  body' = <<[from |-> from, schema |-> s, body |-> b, taken |-> taken]>>

SendBody ==
  /\ body = <<>>
  /\ \E b \in Bodies : Dumped(Record, b) /\ Exchanged("adapter", Record, b, Conforms(Record, b))
  /\ UNCHANGED <<contract, model, verdict, edits>>

ReceiveBody ==
  /\ body = <<>>
  /\ \E s \in Schemas, b \in Bodies : Conforms(s, b) /\ Exchanged("executor", s, b, Validates(s, b))
  /\ UNCHANGED <<contract, model, verdict, edits>>

-------------------------------------------------------------------------------
(* The two repositories.                                                    *)

Edit ==
  /\ edits < MaxEdits /\ edits' = edits + 1
  /\ verdict' = "unchecked" /\ body' = <<>>

EditContract ==
  /\ \E s \in Schemas :
       \/ \E n \in Names, h \in Shapes : contract' = [contract EXCEPT ![s].fields[n] = h]
       \/ contract' = [contract EXCEPT ![s].closed = FALSE]
       \/ contract' = [contract EXCEPT ![s].there = FALSE]
  /\ Edit
  /\ UNCHANGED model

EditModel ==
  /\ \E s \in Schemas, n \in Names, h \in ModelShapes : model' = [model EXCEPT ![s][n] = h]
  /\ Edit
  /\ UNCHANGED contract

ParityNext == CheckParity \/ SendBody \/ ReceiveBody \/ EditContract \/ EditModel

ParitySpec == ParityInit /\ [][ParityNext]_parityVars

-------------------------------------------------------------------------------
(* Properties.                                                              *)

\* Some field that both sides know holds what the side that is to take the body
\* does not allow there, or the values do not go together.
ValuesAreToBlame(x) ==
  LET Taker(n) == IF x.from = "adapter" THEN contract[x.schema].fields[n]
                                        ELSE model[x.schema][n] IN
  \/ \E n \in Present(model[x.schema]) \cap Present(contract[x.schema].fields) :
       x.body[n] \notin Taker(n).values \cup {"absent"}
  \/ x.from = "executor" /\ ~ReferenceMatchesState(x.schema, x.body)

\* What a passed check is worth, whatever was edited before: a body of a schema in
\* its table that is not taken is not taken for a value.  It does not lack a field
\* that the other side requires, nor has it one that the other side does not know.
PassedRefusalsAreOfValues ==
  verdict = "passed" /\ body # <<>> /\ body[1].schema \in Listed /\ ~body[1].taken
  => ValuesAreToBlame(body[1])

\* What leads to that: a verdict is about what is there now, and so is whether
\* the last body conforms to one side and is taken by the other.
ParityFlow ==
  /\ contract \in Contracts /\ model \in Models
  /\ verdict = "passed" => \A s \in Listed : ~Differs(s)
  /\ body # <<>> =>
       LET x == body[1] IN
       /\ x.body \in Bodies /\ x.schema \in Schemas
       /\ \/ x.from = "adapter" /\ Dumped(x.schema, x.body)
                                 /\ (x.taken <=> Conforms(x.schema, x.body))
          \/ x.from = "executor" /\ Conforms(x.schema, x.body)
                                  /\ (x.taken <=> Validates(x.schema, x.body))

\* After a passed check what the adapter sends is taken (README.md:16, "Pydantic
\* models aligned with OpenAPI public schemas").
PassedMeansAligned ==
  verdict = "passed" /\ body # <<>> /\ body[1].from = "adapter" => body[1].taken

\* The check speaks for every model that is used (README.md:85-87, "validates
\* Pydantic field, required-field, and additionalProperties parity").
EveryModelIsCompared ==
  verdict = "passed" /\ body # <<>> /\ ~body[1].taken => ValuesAreToBlame(body[1])
===============================================================================
