---------------------------- MODULE InterfaceProofs ----------------------------
(***************************************************************************)
(* What holds at the adapter's edges, for every value of the constants: of *)
(* the histories read page by page (EventPages), of the bodies exchanged   *)
(* with the executor (WireParity) and of the tools offered to a host       *)
(* (ToolCatalog).                                                          *)
(***************************************************************************)
EXTENDS EventPages, WireParity, ToolCatalog, TLAPS

-------------------------------------------------------------------------------
(* Histories (EventPages).                                                  *)

PageInv == PageFlow /\ PagesHaveNoGaps /\ FinishedIsComplete

LEMMA PageInit ==
  PagesInit => PageInv
<1>. SUFFICES ASSUME PagesInit
              PROVE  PageInv
  OBVIOUS
<1>1. log \in Seq(Flaws) /\ Len(log) = 0
  BY DEF PagesInit
<1>2. PageFlow
  <2>1. /\ request = <<>> /\ page = <<>> /\ seen = {} /\ top = 0 /\ cursor = 0 /\ start = 0
        /\ finished \in BOOLEAN /\ ~finished
    BY DEF PagesInit
  <2>2. 0 \in Nat /\ 0 <= 0
    OBVIOUS
  <2>. QED
    BY <1>1, <2>1, <2>2, Zenon DEF PageFlow
<1>3. 1..start \subseteq seen
  BY DEF PagesInit
<1>. QED
  BY <1>2, <1>3 DEF PagesInit, PageInv, PagesHaveNoGaps, FinishedIsComplete

LEMMA PageStep ==
  ASSUME PageInv, [PagesNext]_pageVars
  PROVE  PageInv'
<1>. USE DEF PageInv
<1>1. CASE AskPage
  <2>1. PICK l \in Limits : request' = <<[limit |-> l, before |-> cursor]>>
    BY <1>1 DEF AskPage, QueryParams
  <2>2. l \in Nat /\ start' \in Nat /\ start' <= Len(log) /\ page = <<>> /\ ~finished
    BY <1>1, <2>1, PagesAssumption DEF AskPage, PageFlow
  <2>3. UNCHANGED <<log, page, seen, top, cursor, finished>> /\ (cursor # 0 => start' = start)
    BY <1>1 DEF AskPage
  <2>4. request' # <<>> /\ request' = <<request'[1]>> /\ request'[1].limit = l /\ request'[1].before = cursor
    BY <2>1
  <2>5. PageFlow'
    BY <2>2, <2>3, <2>4 DEF PageFlow
  <2>. QED
    BY <2>2, <2>3, <2>5 DEF PagesHaveNoGaps, FinishedIsComplete
<1>2. CASE Receive
  <2>. DEFINE lo == page[1].lo
              hi == page[1].hi
  <2>1. /\ lo \in Nat /\ hi \in Nat /\ 1 <= lo /\ lo <= hi + 1 /\ hi <= Len(log)
        /\ lo > hi => hi = 0
        /\ IF cursor = 0 THEN start <= hi ELSE hi = cursor - 1
        /\ request # <<>> /\ ~finished
    BY <1>2 DEF Receive, PageFlow
  <2>2. request' = <<>> /\ page' = <<>> /\ log' = log /\ start' = start
    BY <1>2 DEF Receive
  <2>3. CASE lo > hi
    <3>1. finished' = TRUE /\ UNCHANGED <<seen, top, cursor>>
      BY <1>2, <2>3 DEF Receive
    <3>2. cursor <= 1 /\ (cursor = 0 => start = 0)
      BY <2>1, <2>3 DEF PageFlow
    <3>3. PageFlow'
      BY <2>2, <3>1, <3>2 DEF PageFlow
    <3>4. 1..start \subseteq seen
      <4>1. CASE cursor = 0
        BY <3>2, <4>1
      <4>2. CASE cursor # 0
        BY <3>2, <4>2 DEF PageFlow, PagesHaveNoGaps
      <4>. QED
        BY <4>1, <4>2
    <3>. QED
      BY <2>2, <3>1, <3>3, <3>4 DEF PagesHaveNoGaps, FinishedIsComplete
  <2>4. CASE ~(lo > hi)
    <3>1. /\ seen' = seen \cup lo..hi /\ cursor' = lo
          /\ top' = IF cursor = 0 THEN hi ELSE top
          /\ finished' = finished
      BY <1>2, <2>4 DEF Receive
    <3>. HIDE DEF lo, hi
    <3>2. top' \in Nat /\ top' <= Len(log) /\ lo <= top' /\ start <= top'
      BY <2>1, <2>4, <3>1 DEF PageFlow
    <3>3. PageFlow'
      BY <2>1, <2>2, <3>1, <3>2 DEF PageFlow
    <3>4. seen' = lo..top'
      <4>1. CASE cursor = 0
        BY <2>1, <3>1, <4>1 DEF PageFlow
      <4>2. CASE cursor # 0
        <5>1. seen = cursor..top /\ hi = cursor - 1 /\ lo <= hi /\ cursor <= top /\ top' = top
          BY <2>1, <2>4, <3>1, <4>2 DEF PageFlow, PagesHaveNoGaps
        <5>. QED
          BY <2>1, <3>1, <5>1 DEF PageFlow
      <4>. QED
        BY <4>1, <4>2
    <3>. QED
      BY <2>1, <2>2, <3>1, <3>3, <3>4 DEF PagesHaveNoGaps, FinishedIsComplete
  <2>. QED
    BY <2>3, <2>4
<1>3. CASE Fail
  BY <1>3 DEF Fail, PageFlow, PagesHaveNoGaps, FinishedIsComplete
<1>4. CASE Serve
  <2>. DEFINE q == request[1]
              size == IF q.limit = 0 THEN DefaultLimit ELSE q.limit
              hi == IF q.before = 0 THEN Len(log) ELSE q.before - 1
              lo == IF hi < size THEN 1 ELSE hi - size + 1
  <2>1. q.limit \in Nat /\ q.before = cursor /\ cursor <= Len(log) /\ start <= Len(log)
        /\ Len(log) \in Nat /\ cursor \in Nat
    BY <1>4 DEF Serve, PageFlow
  <2>2. size \in Nat /\ size # 0
    BY <2>1, PagesAssumption
  <2>3. hi \in Nat /\ hi <= Len(log) /\ (IF cursor = 0 THEN start <= hi ELSE hi = cursor - 1)
    BY <2>1
  <2>4. page' = <<[lo |-> lo, hi |-> hi]>>
    BY <1>4 DEF Serve
  <2>. HIDE DEF hi, size
  <2>5. lo \in Nat /\ 1 <= lo /\ lo <= hi + 1 /\ (lo > hi => hi = 0)
    BY <2>2, <2>3
  <2>. HIDE DEF lo
  <2>6. page'[1].lo = lo /\ page'[1].hi = hi /\ page' = <<page'[1]>>
    BY <2>4
  <2>7. PageFlow'
    BY <1>4, <2>3, <2>5, <2>6 DEF Serve, PageFlow
  <2>. QED
    BY <1>4, <2>7 DEF Serve, PagesHaveNoGaps, FinishedIsComplete
<1>5. CASE Happen
  <2>1. /\ log' \in Seq(Flaws) /\ Len(log') = Len(log) + 1
        /\ UNCHANGED <<request, page, seen, top, cursor, start, finished>>
    BY <1>5 DEF Happen, PageFlow
  <2>2. Len(log) \in Nat
    BY DEF PageFlow
  <2>. QED
    BY <2>1, <2>2 DEF PageFlow, PagesHaveNoGaps, FinishedIsComplete
<1>6. CASE UNCHANGED pageVars
  BY <1>6 DEF pageVars, PageFlow, PagesHaveNoGaps, FinishedIsComplete
<1>. QED
  BY <1>1, <1>2, <1>3, <1>4, <1>5, <1>6 DEF PagesNext

\* However long the history and whatever the limits, what is read through the
\* list methods has no gap, and a reader that met an empty page is through.
THEOREM PagesAreComplete == PagesSpec => [](PageFlow /\ PagesHaveNoGaps /\ FinishedIsComplete)
<1>1. PagesInit => PageFlow /\ PagesHaveNoGaps /\ FinishedIsComplete
  BY PageInit DEF PageInv
<1>2. PageFlow /\ PagesHaveNoGaps /\ FinishedIsComplete /\ [PagesNext]_pageVars
        => (PageFlow /\ PagesHaveNoGaps /\ FinishedIsComplete)'
  BY PageStep DEF PageInv
<1>. QED
  BY <1>1, <1>2, PTL DEF PagesSpec

\* What the list methods return page by page has no gap (a page is returned
\* whole or not at all).
THEOREM NoGaps == PagesSpec => []PagesHaveNoGaps
BY PagesAreComplete, PTL

\* A reader that met an empty page has all there was when it began.
THEOREM NothingIsMissed == PagesSpec => []FinishedIsComplete
BY PagesAreComplete, PTL

\* Request and page continue what was read (_query_params passes the cursor on).
THEOREM FlowIsKept == PagesSpec => []PageFlow
BY PagesAreComplete, PTL

-------------------------------------------------------------------------------
(* The parity check and the bodies exchanged after it (WireParity).         *)

\* Missing, MayHold and MustHold make shapes.
LEMMA ShapeTypes ==
  /\ Missing \in Shapes /\ Missing \in ModelShapes
  /\ \A v \in SUBSET FieldValues : v # {} =>
       /\ MayHold(v) \in Shapes /\ MustHold(v) \in Shapes
       /\ MustHold(v) \in ModelShapes
       /\ "null" \in v => MayHold(v) \in ModelShapes
BY DEF Missing, MayHold, MustHold, Shapes, ModelShapes

LEMMA CommittedTypes ==
  /\ Committed \in Contracts
  /\ Written \in Models
<1>1. /\ Committed = [s \in Schemas |-> Committed[s]]
      /\ Written = [s \in Schemas |-> Written[s]]
  BY DEF Committed, Written, Schemas, Record, Session
<1>. DEFINE nat == {"plain"}
            either == {"plain", "odd"}
            nullable == {"null", "plain"}
<1>2. /\ Missing \in Shapes /\ Missing \in ModelShapes
      /\ MayHold(nat) \in Shapes /\ MustHold(either) \in Shapes
      /\ MustHold(FieldValues) \in Shapes /\ MustHold(FieldValues) \in ModelShapes
      /\ MayHold(nullable) \in ModelShapes /\ MustHold(either) \in ModelShapes
      /\ MustHold(nat) \in ModelShapes
  <2>1. /\ \A v \in {nat, either, nullable, FieldValues} : v \in SUBSET FieldValues /\ v # {}
        /\ "null" \in nullable
    BY DEF FieldValues
  <2>. HIDE DEF nat, either, nullable
  <2>. QED
    BY <2>1, ShapeTypes
<1>3. ASSUME NEW s \in Schemas
      PROVE  /\ Committed[s] \in [closed: BOOLEAN, there: BOOLEAN, fields: [Names -> Shapes]]
             /\ Written[s] \in [Names -> ModelShapes]
  <2>. DEFINE fields == Committed[s].fields
              written == Written[s]
  <2>1. Committed[s] = [closed |-> TRUE, there |-> TRUE, fields |-> fields]
    <3>1. CASE s = Record
      BY <3>1 DEF Committed, Record
    <3>2. CASE s = Session
      BY <3>2 DEF Committed, Session
    <3>. QED
      BY <3>1, <3>2 DEF Schemas
  <2>2. CASE s = Record
    <3>1. /\ fields = [event_id |-> MayHold(nat), state |-> MustHold(either),
                       signed_order_ref |-> MustHold(FieldValues), principal_subject |-> Missing]
          /\ written = [event_id |-> MayHold(nullable), state |-> MustHold(either),
                        signed_order_ref |-> MustHold(FieldValues), principal_subject |-> Missing]
      BY <2>2 DEF Committed, Written, Record
    <3>. HIDE DEF fields, written, nat, either, nullable
    <3>2. fields = [n \in Names |-> fields[n]] /\ written = [n \in Names |-> written[n]]
      BY <3>1 DEF Names
    <3>3. \A n \in Names : fields[n] \in Shapes /\ written[n] \in ModelShapes
      BY <1>2, <3>1 DEF Names
    <3>4. fields \in [Names -> Shapes] /\ written \in [Names -> ModelShapes]
      BY <3>2, <3>3
    <3>. QED
      BY <2>1, <3>4 DEF written
  <2>3. CASE s = Session
    <3>1. /\ fields = [event_id |-> Missing, state |-> Missing, signed_order_ref |-> Missing,
                       principal_subject |-> MustHold(either)]
          /\ written = [event_id |-> Missing, state |-> Missing, signed_order_ref |-> Missing,
                        principal_subject |-> MustHold(nat)]
      BY <2>3 DEF Committed, Written, Session
    <3>. HIDE DEF fields, written, nat, either, nullable
    <3>2. fields = [n \in Names |-> fields[n]] /\ written = [n \in Names |-> written[n]]
      BY <3>1 DEF Names
    <3>3. \A n \in Names : fields[n] \in Shapes /\ written[n] \in ModelShapes
      BY <1>2, <3>1 DEF Names
    <3>4. fields \in [Names -> Shapes] /\ written \in [Names -> ModelShapes]
      BY <3>2, <3>3
    <3>. QED
      BY <2>1, <3>4 DEF written
  <2>. QED
    BY <2>2, <2>3 DEF Schemas
<1>. QED
  BY <1>1, <1>3 DEF Contracts, Models

\* After a passed comparison of names and of required names the two sides can
\* differ on the values of a field only, and on what validators add.
LEMMA PassedFieldsMatch ==
  ASSUME ParityFlow, NEW x, x.schema \in Schemas, ~Differs(x.schema), x.body \in Bodies,
         ~ValuesAreToBlame(x)
  PROVE  /\ x.from = "adapter" /\ Dumped(x.schema, x.body) => Conforms(x.schema, x.body)
         /\ x.from = "executor" /\ Conforms(x.schema, x.body) => Validates(x.schema, x.body)
<1>. DEFINE s == x.schema
            b == x.body
            theirs == contract[s].fields
            ours == model[s]
<1>1. contract[s].there /\ contract[s].closed
  BY DEF Differs
<1>2. ASSUME NEW n \in Names
      PROVE  /\ theirs[n] \in Shapes /\ ours[n] \in Shapes
             /\ ours[n].need = "missing" <=> theirs[n].need = "missing"
             /\ ours[n].need = "required" <=> theirs[n].need = "required"
  BY DEF ParityFlow, Contracts, Models, ModelShapes, Differs, Present, DemandedFields
<1>3. ASSUME NEW n \in Names, ours[n].need # "missing", b[n] # "absent"
      PROVE  /\ x.from = "adapter" => b[n] \in theirs[n].values
             /\ x.from = "executor" => b[n] \in ours[n].values
  BY <1>2, <1>3 DEF ValuesAreToBlame, Present
<1>4. ASSUME NEW n \in Names, ours[n].need = "missing"
      PROVE  /\ Fits(ours[n], b[n]) <=> b[n] = "absent"
             /\ Fits(theirs[n], b[n]) <=> b[n] = "absent"
  BY <1>2, <1>4 DEF Fits, Shapes
<1>5. ASSUME x.from = "adapter", Dumped(s, b), NEW n \in Names
      PROVE  Fits(theirs[n], b[n])
  <2>1. Fits(ours[n], b[n]) /\ (ours[n].need # "missing" => b[n] # "absent")
    BY <1>5 DEF Dumped, Validates, Present
  <2>. QED
    BY <1>3, <1>4, <1>5, <2>1 DEF Fits
<1>6. ASSUME x.from = "executor", Conforms(s, b), NEW n \in Names
      PROVE  Fits(ours[n], b[n])
  <2>1. Fits(theirs[n], b[n])
    BY <1>1, <1>6 DEF Conforms
  <2>. QED
    BY <1>2, <1>3, <1>4, <1>6, <2>1 DEF Fits, Shapes, FieldValues
<1>7. x.from = "executor" => ReferenceMatchesState(s, b)
  BY DEF ValuesAreToBlame
<1>. QED
  BY <1>1, <1>5, <1>6, <1>7 DEF Conforms, Validates

\* A body that is exchanged is judged by what is there then.
LEMMA ExchangeFlow ==
  ASSUME ParityFlow, SendBody \/ ReceiveBody
  PROVE  ParityFlow'
<1>1. PICK from \in {"adapter", "executor"}, s \in Schemas, b \in Bodies, t \in BOOLEAN :
        /\ body' = <<[from |-> from, schema |-> s, body |-> b, taken |-> t]>>
        /\ \/ from = "adapter" /\ Dumped(s, b) /\ (t <=> Conforms(s, b))
           \/ from = "executor" /\ Conforms(s, b) /\ (t <=> Validates(s, b))
  <2>1. CASE SendBody
    <3>1. PICK b \in Bodies : Dumped(Record, b) /\ Exchanged("adapter", Record, b, Conforms(Record, b))
      BY <2>1 DEF SendBody
    <3>2. Conforms(Record, b) \in BOOLEAN /\ Record \in Schemas
      BY DEF Conforms, Schemas
    <3>. QED
      BY <3>1, <3>2 DEF Exchanged
  <2>2. CASE ReceiveBody
    <3>1. PICK s \in Schemas, b \in Bodies :
            Conforms(s, b) /\ Exchanged("executor", s, b, Validates(s, b))
      BY <2>2 DEF ReceiveBody
    <3>2. Validates(s, b) \in BOOLEAN
      BY DEF Validates
    <3>. QED
      BY <3>1, <3>2 DEF Exchanged
  <2>. QED
    BY <2>1, <2>2
<1>2. UNCHANGED <<contract, model, verdict>>
  BY DEF SendBody, ReceiveBody
<1>3. /\ Conforms(s, b)' <=> Conforms(s, b)
      /\ Validates(s, b)' <=> Validates(s, b)
      /\ Dumped(s, b)' <=> Dumped(s, b)
      /\ \A z \in Listed : Differs(z)' <=> Differs(z)
  BY <1>2 DEF Conforms, Validates, Dumped, ReferenceMatchesState, Present, Differs
<1>. DEFINE y == [from |-> from, schema |-> s, body |-> b, taken |-> t]
<1>4. /\ body' # <<>> /\ body'[1] = y /\ y.from = from /\ y.schema = s /\ y.body = b
      /\ y.taken = t
  BY <1>1
<1>5. contract' \in Contracts /\ model' \in Models
      /\ (verdict' = "passed" => \A z \in Listed : ~Differs(z)')
  BY <1>2, <1>3 DEF ParityFlow
<1>. QED
  BY <1>1, <1>3, <1>4, <1>5 DEF ParityFlow

LEMMA ParityStep ==
  ASSUME ParityFlow, [ParityNext]_parityVars
  PROVE  ParityFlow'
<1>1. CASE CheckParity
  BY <1>1 DEF CheckParity, ParityFlow, Contracts, Models, Differs, Conforms, Dumped, Validates,
             ReferenceMatchesState, Present
<1>2. CASE SendBody \/ ReceiveBody
  BY <1>2, ExchangeFlow
<1>3. CASE EditContract
  <2>1. PICK s \in Schemas :
          \/ \E n \in Names, h \in Shapes : contract' = [contract EXCEPT ![s].fields[n] = h]
          \/ contract' = [contract EXCEPT ![s].closed = FALSE]
          \/ contract' = [contract EXCEPT ![s].there = FALSE]
    BY <1>3 DEF EditContract
  <2>2. contract' \in Contracts
    <3>. DEFINE C == [closed: BOOLEAN, there: BOOLEAN, fields: [Names -> Shapes]]
    <3>1. contract \in [Schemas -> C] /\ contract[s] \in C
      BY DEF ParityFlow, Contracts
    <3>2. ASSUME NEW n \in Names, NEW h \in Shapes,
                 contract' = [contract EXCEPT ![s].fields[n] = h]
          PROVE  contract' \in [Schemas -> C]
      <4>1. [contract[s].fields EXCEPT ![n] = h] \in [Names -> Shapes]
        BY <3>1
      <4>2. [contract[s] EXCEPT !.fields = [contract[s].fields EXCEPT ![n] = h]] \in C
        BY <3>1, <4>1
      <4>. QED
        BY <3>1, <3>2, <4>2
    <3>3. ASSUME \/ contract' = [contract EXCEPT ![s].closed = FALSE]
                 \/ contract' = [contract EXCEPT ![s].there = FALSE]
          PROVE  contract' \in [Schemas -> C]
      <4>1. /\ [contract[s] EXCEPT !.closed = FALSE] \in C
            /\ [contract[s] EXCEPT !.there = FALSE] \in C
        BY <3>1
      <4>. QED
        BY <3>1, <3>3, <4>1
    <3>. QED
      BY <2>1, <3>2, <3>3 DEF Contracts
  <2>3. model' \in Models
    BY <1>3 DEF EditContract, ParityFlow
  <2>. QED
    BY <1>3, <2>2, <2>3 DEF EditContract, Edit, ParityFlow
<1>4. CASE EditModel
  <2>1. model' \in Models /\ contract' \in Contracts
    BY <1>4 DEF EditModel, ParityFlow, Models
  <2>. QED
    BY <1>4, <2>1 DEF EditModel, Edit, ParityFlow
<1>5. CASE UNCHANGED parityVars
  BY <1>5 DEF parityVars, ParityFlow, Contracts, Models, Differs, Conforms, Dumped, Validates,
             ReferenceMatchesState, Present
<1>. QED
  BY <1>1, <1>2, <1>3, <1>4, <1>5 DEF ParityNext

\* However often the two sides were edited before: a body of a compared schema
\* that is exchanged after a passed check (check_openapi_parity.py) and not taken
\* has a value that the taker does not allow; names and requiredness are settled,
\* and types, patterns and validators are not.
THEOREM PassedChecksHold == ParitySpec => []PassedRefusalsAreOfValues
<1>1. ParityInit => ParityFlow
  BY CommittedTypes DEF ParityInit, ParityFlow
<1>2. ParityFlow /\ [ParityNext]_parityVars => ParityFlow'
  BY ParityStep
<1>3. ParityFlow => PassedRefusalsAreOfValues
  <2>. SUFFICES ASSUME ParityFlow, verdict = "passed", body # <<>>, body[1].schema \in Listed,
                       ~body[1].taken, ~ValuesAreToBlame(body[1])
                PROVE  FALSE
    BY DEF PassedRefusalsAreOfValues
  <2>1. PICK x : x = body[1]
    OBVIOUS
  <2>2. x.schema \in Schemas /\ ~Differs(x.schema) /\ x.body \in Bodies /\ ~ValuesAreToBlame(x)
    BY <2>1 DEF ParityFlow
  <2>3. /\ x.from = "adapter" /\ Dumped(x.schema, x.body) => Conforms(x.schema, x.body)
        /\ x.from = "executor" /\ Conforms(x.schema, x.body) => Validates(x.schema, x.body)
    BY <2>2, PassedFieldsMatch
  <2>. QED
    BY <2>1, <2>3 DEF ParityFlow
<1>. QED
  BY <1>1, <1>2, <1>3, PTL DEF ParitySpec

-------------------------------------------------------------------------------
(* The tools offered to a host (ToolCatalog).                               *)

\* The schemas, tool by tool.
LEMMA Tables ==
  /\ Published("executor_health") = <<>>
  /\ Published("normalize_intent") = [intent |-> "model"]
  /\ Published("capture_snapshot") = [normalized |-> "model"]
  /\ Published("evaluate_decision") = [normalized |-> "model", snapshot |-> "model"]
  /\ Published("compile_plan") = [normalized |-> "model", snapshot |-> "model",
                                  decision |-> "model", approval |-> "model"]
  /\ Published("prepare_execution_plan") = [intent |-> "model", approval |-> "model"]
  /\ Published("get_submission") = [execution_id |-> "text"]
  /\ Published("list_execution_lifecycle_events") =
       [execution_id |-> "text", limit |-> "count", before_event_id |-> "count",
        correlation_id |-> "trace"]
  /\ Published("canary_report") = [evidence |-> "model", approval |-> "model",
                                   blocked_reasons |-> "words"]
  /\ Published("admin_kill_switch") = [account_id |-> "text", enabled |-> "flag",
                                       reason |-> "text", scope |-> "scope"]
  /\ Published("admin_cancel_order") =
       [account_id |-> "text", order_id |-> "text", reason |-> "text",
        execution_id |-> "text", correlation_id |-> "trace"]
  /\ Published("admin_reconcile") =
       [account_id |-> "text", reason |-> "text", execution_id |-> "text",
        correlation_id |-> "trace"]
  /\ \A t \in AssistantTools : Published(t) = <<>>
BY DEF Published, PlanSchemas, ReadSchemas, AdminSchemas, AssistantTools

\* What a schema requires is asked for by the handler, one way or another.
LEMMA RequiredIsDemanded ==
  ASSUME NEW t \in Tools, NEW a \in Required(t)
  PROVE  \/ Published(t)[a] \in {"model", "words"}
         \/ a \in Demanded(t)
         \/ t = "admin_kill_switch" /\ a = "enabled"
BY Tables DEF Tools, ServiceTools, AdminTools, AssistantTools, Required, Optional, Demanded

\* What a handler asks for is required by its schema.
LEMMA DemandedIsRequired ==
  ASSUME NEW t \in Tools, NEW a \in Demanded(t)
  PROVE  a \in Required(t) /\ Published(t)[a] = "text"
BY Tables DEF Tools, ServiceTools, AdminTools, AssistantTools, Required, Optional, Demanded

\* An argument the schema has not is a correlation id.
LEMMA ExtraArgument ==
  ASSUME NEW t \in Tools, NEW a \in DOMAIN Kinds(t)
  PROVE  \/ a \in DOMAIN Published(t) /\ Kinds(t)[a] = Published(t)[a]
         \/ t = "admin_kill_switch" /\ a = "correlation_id" /\ Kinds(t)[a] = "trace"
<1>1. CASE t = "admin_kill_switch"
  <2>1. "correlation_id" \notin DOMAIN Published(t)
    BY <1>1, Tables
  <2>. QED
    BY <1>1, <2>1 DEF Kinds
<1>2. CASE t # "admin_kill_switch"
  BY <1>2 DEF Kinds
<1>. QED
  BY <1>1, <1>2

LEMMA PublishedIsRead ==
  ASSUME NEW t \in Tools, NEW a \in DOMAIN Published(t)
  PROVE  a \in DOMAIN Kinds(t) /\ Kinds(t)[a] = Published(t)[a]
<1>1. CASE t = "admin_kill_switch"
  <2>1. "correlation_id" \notin DOMAIN Published(t)
    BY <1>1, Tables
  <2>. QED
    BY <1>1, <2>1 DEF Kinds
<1>2. CASE t # "admin_kill_switch"
  BY <1>2 DEF Kinds
<1>. QED
  BY <1>1, <1>2

\* However many arguments are amiss, a call has every one of them, of its kind.
LEMMA ArgumentsAreTyped ==
  ASSUME NEW t \in Tools, NEW args \in Arguments(t)
  PROVE  /\ DOMAIN args = DOMAIN Kinds(t)
         /\ \A a \in DOMAIN args : args[a] \in Values(Kinds(t)[a])
<1>. DEFINE D == DOMAIN Kinds(t)
            Faulty == UNION {[S -> Amiss] : S \in {S \in SUBSET D : Cardinality(S) <= Faults}}
            Good(a, s) == IF Kinds(t)[a] = "scope" THEN s ELSE "good"
            With(f, s) == [a \in D |-> IF a \in DOMAIN f THEN f[a] ELSE Good(a, s)]
<1>1. Arguments(t) = {x \in {With(f, s) : f \in Faulty, s \in {"ACCOUNT", "GLOBAL"}} :
                        \A a \in D : x[a] \in Values(Kinds(t)[a])}
  BY DEF Arguments
<1>. HIDE DEF Faulty, Good
<1>2. PICK f \in Faulty, s \in {"ACCOUNT", "GLOBAL"} : args = With(f, s)
  BY <1>1
<1>3. DOMAIN args = D
  BY <1>2
<1>. QED
  BY <1>1, <1>3

\* A call as it stands once it has begun.
Begun(t, args) ==
  /\ t \in Tools /\ DOMAIN args = DOMAIN Kinds(t)
  /\ \A a \in DOMAIN args : args[a] \in Values(Kinds(t)[a])

\* A handler refuses what keeps to its schema for a void value or for want of an
\* account only.
LEMMA RefusedFollowers ==
  ASSUME NEW t, NEW args, Begun(t, args), Follows(t, args), Refuses(t, args)
  PROVE  \/ \E a \in DOMAIN args : args[a] = "void"
         \/ t = "admin_kill_switch" /\ args.account_id = "absent"
<1>. USE DEF Begun
<1>1. ASSUME NEW a \in DOMAIN args, Kinds(t)[a] \in {"model", "words"},
             args[a] = "alien" \/ (args[a] = "absent" /\ a \notin Optional(t))
      PROVE  FALSE
  <2>1. a \in DOMAIN Published(t)
    BY <1>1, ExtraArgument
  <2>. QED
    BY <1>1, <2>1 DEF Follows
<1>2. ASSUME NEW a \in Demanded(t), args[a] # "good"
      PROVE  a \in DOMAIN args /\ args[a] = "void"
  <2>1. a \in DOMAIN Published(t) /\ a \notin Optional(t) /\ Published(t)[a] = "text"
    BY DemandedIsRequired DEF Required
  <2>2. a \in DOMAIN args /\ Kinds(t)[a] = "text"
    BY <2>1, PublishedIsRead
  <2>3. args[a] \in {"absent", "alien", "void", "good"}
    BY <2>2 DEF Values
  <2>. QED
    BY <1>2, <2>1, <2>2, <2>3 DEF Follows
<1>3. ASSUME t = "admin_kill_switch", args.enabled # "good"
      PROVE  FALSE
  <2>1. "enabled" \in DOMAIN Published(t) /\ Published(t)["enabled"] = "flag" /\ "enabled" \notin Optional(t)
    BY <1>3, Tables DEF Optional
  <2>2. "enabled" \in DOMAIN args /\ Kinds(t)["enabled"] = "flag"
    BY <2>1, PublishedIsRead
  <2>3. args.enabled \in {"absent", "alien", "good"}
    BY <2>2 DEF Values
  <2>. QED
    BY <1>3, <2>1, <2>3 DEF Follows
<1>. QED
  BY <1>1, <1>2, <1>3 DEF Refuses, LacksAccount

\* What a handler does not refuse has all that its schema requires.
LEMMA UnrefusedIsComplete ==
  ASSUME NEW t, NEW args, Begun(t, args), ~Refuses(t, args), NEW a \in Required(t)
  PROVE  args[a] \notin Amiss
<1>. USE DEF Begun
<1>1. a \in DOMAIN Published(t) /\ a \notin Optional(t) /\ a \in DOMAIN args
  BY PublishedIsRead DEF Required
<1>2. CASE Published(t)[a] \in {"model", "words"}
  <2>1. Kinds(t)[a] = Published(t)[a]
    BY <1>1, PublishedIsRead
  <2>2. args[a] \notin {"alien", "void"} /\ args[a] # "absent"
    BY <1>1, <1>2, <2>1 DEF Refuses
  <2>. QED
    BY <2>2 DEF Amiss
<1>3. CASE a \in Demanded(t)
  BY <1>3 DEF Refuses, Amiss
<1>4. CASE t = "admin_kill_switch" /\ a = "enabled"
  BY <1>4 DEF Refuses, Amiss
<1>. QED
  BY <1>2, <1>3, <1>4, RequiredIsDemanded

CatalogInv == TypeOK /\ CatalogFlow

\* How far a call gets when it is made, and what it says then.
LEMMA CallFlow ==
  ASSUME CatalogInv, Call
  PROVE  CatalogInv'
<1>. DEFINE t == offer.tool
<1>1. t \in Tools /\ offer # NoOffer /\ call = NoCall /\ UNCHANGED <<env, offer>>
  BY DEF Call, CatalogInv, TypeOK
<1>2. PICK args \in Arguments(t) :
        call' = IF Refuses(t, args) THEN Ended(t, args, "refused")
                ELSE IF IsLocal(t) THEN Ended(t, args, "done")
                ELSE IF Config(env) # "fine" THEN Ended(t, args, Config(env))
                ELSE [at |-> "open", tool |-> t, args |-> args, env |-> env]
  BY DEF Call
<1>3. Begun(t, args)
  BY <1>1, ArgumentsAreTyped DEF Begun
<1>4. env \in Environments /\ env \in Variables
  BY CatalogAssumption DEF CatalogInv, TypeOK
<1>. HIDE DEF t
<1>5. CASE Refuses(t, args)
  BY <1>1, <1>2, <1>3, <1>5 DEF CatalogInv, TypeOK, CatalogFlow, Begun, Ended, Answers, t, NoCall
<1>6. CASE ~Refuses(t, args) /\ IsLocal(t)
  BY <1>1, <1>2, <1>3, <1>6 DEF CatalogInv, TypeOK, CatalogFlow, Begun, Ended, Answers, t, NoCall
<1>7. CASE ~Refuses(t, args) /\ ~IsLocal(t) /\ Config(env) # "fine"
  <2>1. call' = Ended(t, args, Config(env)) /\ Config(env) \in Answers
    BY <1>2, <1>4, <1>7 DEF Config, Answers, Variables
  <2>. QED
    BY <1>1, <1>3, <1>4, <1>7, <2>1
       DEF CatalogInv, TypeOK, CatalogFlow, Begun, Ended, Answered, t, NoCall
<1>8. CASE ~Refuses(t, args) /\ ~IsLocal(t) /\ Config(env) = "fine"
  BY <1>1, <1>2, <1>3, <1>4, <1>8 DEF CatalogInv, TypeOK, CatalogFlow, Begun, t, NoCall
<1>. QED
  BY <1>5, <1>6, <1>7, <1>8

\* What the first request says.
LEMMA ProceedFlow ==
  ASSUME CatalogInv, Proceed
  PROVE  CatalogInv'
<1>1. PICK t, args, e :
      /\ call.tool = t /\ call.args = args /\ call.env = e
      /\ call.at = "open" /\ Begun(t, args) /\ t = offer.tool /\ UNCHANGED <<env, offer>>
      /\ ~Refuses(t, args) /\ ~IsLocal(t) /\ Config(e) = "fine"
      /\ e \in Environments /\ (offer.steady => e = env)
  BY DEF Proceed, CatalogInv, TypeOK, CatalogFlow, Begun, NoCall
<1>2. \/ t \in AdminTools /\ ~env.subject /\ call' = Ended(t, args, "CONFIG_MISSING_ADMIN_SUBJECT")
      \/ t \in AdminTools /\ e.admin = None /\ call' = Ended(t, args, "PERMISSION_DENIED")
      \/ /\ t \in AdminTools => env.subject /\ e.admin # None
         /\ \E x \in FirstRequest(t, args, e) : call' = [Ended(t, args, x) EXCEPT !.url = e.url]
  BY <1>1 DEF Proceed
<1>3. PICK x : /\ x \in Answers /\ Answered(t, args, e)'
               /\ call'.at = "ended" /\ call'.tool = t /\ call'.args = args /\ call'.answer = x
  <2>1. CASE t \in AdminTools /\ ~env.subject /\ call' = Ended(t, args, "CONFIG_MISSING_ADMIN_SUBJECT")
    BY <1>1, <2>1 DEF Ended, Answered, Answers
  <2>2. CASE t \in AdminTools /\ e.admin = None /\ call' = Ended(t, args, "PERMISSION_DENIED")
    BY <1>1, <2>2 DEF Ended, Answered, Answers
  <2>3. ASSUME t \in AdminTools => env.subject /\ e.admin # None,
               NEW x \in FirstRequest(t, args, e), call' = [Ended(t, args, x) EXCEPT !.url = e.url]
        PROVE  x \in Answers /\ Answered(t, args, e)' /\ call'.at = "ended" /\ call'.tool = t
               /\ call'.args = args /\ call'.answer = x
    <3>1. x \in Answers
      BY <2>3 DEF FirstRequest, Answers
    <3>2. call'.at = "ended" /\ call'.tool = t /\ call'.args = args /\ call'.answer = x /\ call'.url = e.url
      BY <2>3 DEF Ended
    <3>. QED
      BY <1>1, <2>3, <3>1, <3>2 DEF Answered
  <2>. QED
    BY <1>2, <2>1, <2>2, <2>3
<1>. QED
  BY <1>1, <1>3 DEF CatalogInv, TypeOK, CatalogFlow, Begun, NoCall

LEMMA CatalogStep ==
  ASSUME CatalogInv, [Next]_vars
  PROVE  CatalogInv'
<1>1. CASE Call
  BY <1>1, CallFlow
<1>2. CASE Proceed
  BY <1>2, ProceedFlow
<1>3. CASE Reconfigure
  <2>1. /\ call.at # "ended" /\ call' = call /\ env' \in Environments
        /\ offer' = [offer EXCEPT !.steady = FALSE]
    BY <1>3 DEF Reconfigure
  <2>2. offer'.tool = offer.tool /\ offer'.result = offer.result /\ ~offer'.steady
    BY <2>1 DEF CatalogInv, TypeOK, NoOffer
  <2>3. offer' = NoOffer \/ (offer'.tool \in Tools /\ offer'.result \in {"yes", "no", "raises"})
    <3>1. CASE offer = NoOffer
      BY <2>1, <3>1 DEF NoOffer
    <3>2. CASE offer # NoOffer
      BY <2>2, <3>2 DEF CatalogInv, TypeOK
    <3>. QED
      BY <3>1, <3>2
  <2>. QED
    BY <2>1, <2>2, <2>3 DEF CatalogInv, TypeOK, CatalogFlow, NoCall
<1>4. ASSUME NEW t \in Tools, Ask(t)
      PROVE  CatalogInv'
  <2>1. Check(t, env) \in {"yes", "no", "raises"}
    BY <1>4 DEF Check, AdminCheck, ServiceCheck, Tools
  <2>. QED
    BY <1>4, <2>1 DEF Ask, CatalogInv, TypeOK, CatalogFlow, NoCall
<1>5. CASE UNCHANGED vars
  BY <1>5 DEF vars, CatalogInv, TypeOK, CatalogFlow, Answered
<1>. QED
  BY <1>1, <1>2, <1>3, <1>4, <1>5 DEF Next

\* The types and the flow of offers and calls, whatever the environments and
\* however many arguments are amiss.
THEOREM CatalogIsKept == Spec => [](TypeOK /\ CatalogFlow)
<1>1. Init => TypeOK /\ CatalogFlow
  BY DEF Init, TypeOK, CatalogFlow, NoCall, NoOffer
<1>2. TypeOK /\ CatalogFlow /\ [Next]_vars => (TypeOK /\ CatalogFlow)'
  BY CatalogStep DEF CatalogInv
<1>. QED
  BY <1>1, <1>2, PTL DEF Spec

\* Offers and calls have their types.
THEOREM CatalogTypes == Spec => []TypeOK
BY CatalogIsKept, PTL

\* A tool that check_executor_available or check_admin_available lets the host
\* offer does not fail for its configuration, but for equal tokens, a correlation
\* id no header holds or a URL httpx does not take, and one that is not offered
\* would not have sent anything.
THEOREM OfferedRun == Spec => []OfferedToolsRun
<1>1. TypeOK /\ CatalogFlow => OfferedToolsRun
  <2>. SUFFICES ASSUME TypeOK, CatalogFlow, offer.steady, call.at = "ended"
                PROVE  /\ offer.result = "yes" /\ call.answer \notin {"refused", "done", "sent", "raised"}
                            => \/ env.admin = env.service
                               \/ /\ call.answer = "EXECUTOR_ADAPTER_ERROR"
                                  /\ "correlation_id" \in DOMAIN call.args
                                  /\ call.args.correlation_id = "void"
                       /\ offer.result # "yes" =>
                            /\ call.answer \notin {"sent", "raised"}
                            /\ call.answer = "done" => call.tool = "canary_report"
    BY DEF OfferedToolsRun
  <2>. DEFINE t == call.tool
  <2>1. t \in Tools /\ offer.result = Check(t, env) /\ env \in Environments
    BY DEF CatalogFlow, TypeOK, NoCall
  <2>2. env \in Variables /\ None \notin Tokens
    BY <2>1, CatalogAssumption
  <2>3. CASE call.answer = "refused"
    BY <2>3
  <2>4. CASE call.answer = "done" /\ IsLocal(t)
    BY <2>1, <2>4 DEF IsLocal, Check, AssistantTools, ServiceTools, AdminTools
  <2>5. CASE Answered(t, call.args, env)
    <3>1. ASSUME offer.result = "yes"
          PROVE  \/ Config(env) = "fine" /\ (t \in AdminTools => env.subject /\ env.admin # None)
                 \/ env.admin = env.service
      BY <2>1, <2>2, <2>5, <3>1
         DEF Answered, IsLocal, Check, AdminCheck, ServiceCheck, Config, Variables, Tools,
             ServiceTools, AdminTools, AssistantTools
    <3>2. ASSUME offer.result # "yes"
          PROVE  Config(env) # "fine" \/ (t \in AdminTools /\ ~(env.subject /\ env.admin # None))
      BY <2>1, <2>2, <2>5, <3>2
         DEF Answered, IsLocal, Check, AdminCheck, ServiceCheck, Config, Variables, Tools,
             ServiceTools, AdminTools, AssistantTools
    <3>3. Config(env) \notin {"sent", "raised", "done"}
      BY <2>1, <2>2 DEF Config, Variables
    <3>4. \A x \in FirstRequest(t, call.args, env) :
            \/ x \in {"sent", "raised"}
            \/ /\ x = "EXECUTOR_ADAPTER_ERROR"
               /\ "correlation_id" \in DOMAIN call.args /\ call.args.correlation_id = "void"
      BY DEF FirstRequest
    <3>5. CASE offer.result = "yes"
      BY <2>5, <3>1, <3>4, <3>5 DEF Answered
    <3>6. CASE offer.result # "yes"
      BY <2>5, <3>2, <3>3, <3>6 DEF Answered
    <3>. QED
      BY <3>5, <3>6
  <2>. QED
    BY <2>3, <2>4, <2>5 DEF CatalogFlow
<1>. QED
  BY CatalogIsKept, <1>1, PTL

\* A caller that keeps to the published schema, with any number of arguments, is
\* refused by a handler's early returns for a void value or a missing account
\* only, and sees an exception only for a correlation id or a URL.
THEOREM FollowersAreServed == Spec => []SchemaFollowersAreServed
<1>1. TypeOK /\ CatalogFlow => SchemaFollowersAreServed
  <2>. SUFFICES ASSUME TypeOK, CatalogFlow, call.at = "ended", Follows(call.tool, call.args)
                PROVE  /\ call.answer = "refused" =>
                            \/ \E a \in DOMAIN call.args : call.args[a] = "void"
                            \/ call.tool = "admin_kill_switch" /\ call.args.account_id = "absent"
                       /\ call.answer = "raised" =>
                            \/ \E a \in DOMAIN call.args : a = "correlation_id" /\ call.args[a] = "void"
                            \/ call.url = "unroutable"
    BY DEF SchemaFollowersAreServed
  <2>. DEFINE t == call.tool
              args == call.args
  <2>1. Begun(t, args)
    BY DEF Begun, TypeOK, CatalogFlow, NoCall
  <2>2. CASE call.answer = "refused" /\ Refuses(t, args)
    BY <2>1, <2>2, RefusedFollowers
  <2>3. CASE call.answer = "done"
    BY <2>3
  <2>4. ASSUME NEW e \in Environments, Answered(t, args, e)
        PROVE  /\ call.answer # "refused"
               /\ call.answer = "raised" =>
                    \/ \E a \in DOMAIN args : a = "correlation_id" /\ args[a] = "void"
                    \/ call.url = "unroutable"
    <3>1. Config(e) \notin {"refused", "raised"}
      BY <2>4, CatalogAssumption DEF Config, Variables
    <3>2. "correlation_id" \in DOMAIN args => args.correlation_id # "alien"
      BY <2>1 DEF Follows, Begun
    <3>3. \A x \in FirstRequest(t, args, e) :
            /\ x # "refused"
            /\ x = "raised" => \/ "correlation_id" \in DOMAIN args /\ args.correlation_id = "void"
                               \/ e.url = "unroutable"
      BY <3>2 DEF FirstRequest
    <3>. QED
      BY <2>4, <3>1, <3>3 DEF Answered
  <2>. QED
    BY <2>2, <2>3, <2>4 DEF CatalogFlow
<1>. QED
  BY CatalogIsKept, <1>1, PTL

\* Whatever the host lets through, what a handler sends or answers has every
\* argument its schema requires, of its type and in order.
THEOREM SentIsComplete == Spec => []WhatIsSentIsComplete
<1>1. TypeOK /\ CatalogFlow => WhatIsSentIsComplete
  <2>. SUFFICES ASSUME TypeOK, CatalogFlow, call.at = "ended", call.answer \in {"sent", "done"},
                       NEW a \in Required(call.tool)
                PROVE  call.args[a] \notin Amiss
    BY DEF WhatIsSentIsComplete
  <2>1. Begun(call.tool, call.args)
    BY DEF Begun, TypeOK, CatalogFlow, NoCall
  <2>2. ~Refuses(call.tool, call.args)
    BY DEF CatalogFlow, Answered
  <2>. QED
    BY <2>1, <2>2, UnrefusedIsComplete
<1>. QED
  BY CatalogIsKept, <1>1, PTL
===============================================================================
