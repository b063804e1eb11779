# Specifications of the Hermes Polymarket executor adapter

The adapter lets an agent host (Hermes) use a trade executor over HTTP without
ever signing, posting or holding secrets itself. These TLA+ modules model what
the adapter's code does, TLC checks them on small instances, and TLAPS proves
the most important properties for every value of the constants. Paths below are
relative to `src/src/hermes_polymarket_executor_adapter/` unless they start with
`src/`.

## The system

| Component | State it keeps | Operations | Interacts with |
|---|---|---|---|
| Handlers (`hermes_handlers.py`) | per call: arguments, position in its requests, one client | 14 tools, each a synchronous function; all but the canary report go through `_with_client` | host (calls them), client |
| Client (`client.py`) | configuration, one `httpx.Client` | one method per executor endpoint; `_headers` picks the token | executor, over a network that loses and delays |
| Configuration (`config.py`) | the environment, read anew by each call | `from_env`, validation | operator |
| Wire models (`models.py`) | none | validators, some against the clock | all of the above |
| Admin path (`_verified_admin_call`) | expected subject, session | verify, then operate | operator, executor's grants |
| Assistant-v0 (`assistant_v0_*.py`) | registered tools, a loaded contract, handlers | load, register, dispatch | plugin, embedding program |
| Canary report (`cli.py`, `tools.py`) | files on disk, one report | read, hash, report | release directory, clock |
| Plugin (`hermes_plugin.py`, `hermes_schemas.py`) | none | `register`, schemas, availability functions | host, operator's environment |
| Parity check (`src/scripts/check_openapi_parity.py`) | none | compare models with the contract | authors of both repositories |
| Executor (external) | intents, snapshots, decisions, plans, grants, switches, submissions, sign-only records, histories | as the client uses it | |

Hard behaviours, and the properties they ask for:

- **One request among several fails, or is answered too late.** httpx's own
  exceptions pass through `_with_client` uncaught; a request under way may still
  be carried out. So: each step at most once and in order, an answer is final,
  `ok` means done, and every client is closed.
- **Concurrent calls share the executor's store.** So: a prepared plan is made
  of its own call's objects.
- **Time passes between check and use** (approvals, canary approvals). So: what
  exactly was true at the moment of the check.
- **Admin calls check and act in two requests** while the operator may rotate
  both token and subject. So: what was done is what was verified.
- **Files are read one after the other**, and vouch for each other. So: what
  any mixture of them can get accepted.
- **Retrying is left to the caller.** A kill switch has no idempotency key, a
  submission and a lifecycle record have one. So: what the endings of several
  attempts say together, and which of them can still take effect.
- **A reply is validated after the effect**, and lists are taken whole. So: what
  a caller that saw an error may conclude, and what can make a list unreadable.
- **The host asks first and calls later**, about an environment that each
  function reads for itself. So: whether what is offered works.
- **Two repositories describe the same messages.** So: what a passed comparison
  is worth.

## Modules

| Module | Models | Runs |
|---|---|---|
| `ToolCall` | what one call of any tool promises (abstract) | through `PlanPreparation` and `AdminOperations` |
| `Transport` | one handler's connection: `_with_client`'s ending, `_post`, `_raise_for_status`, and the network | (extended by `PlanPreparation`, `AdminOperations`, `KillSwitch`, `Submission` and `SignOnly`) |
| `PlanPreparation` | normalize, snapshot, decision, compile and prepare | `plan_all_tools` |
| `AdminOperations` | kill switch, cancel, reconcile, audit and live-read lists | `admin_one_call` |
| `AssistantV0` | contract loader, registration, request validation, facade | `assistant`, `assistant_dry_run` |
| `CanaryReport` | the command and the tool, file by file | `canary_report` |
| `KillSwitch` | `set_kill_switch` once verified: the switches at the executor | `kill_switch` |
| `Submission` | `submit_plan` and `get_submission`, several attempts | `submission_retries` |
| `SignOnly` | recording and listing sign-only events and constructions | `sign_only` |
| `EventPages` | the three list methods, read page by page | `event_pages` |
| `ToolCatalog` | registration, schemas, availability, handlers up to the first request | `tool_catalog`, `catalog_setup` |
| `WireParity` | the parity check, and bodies exchanged after it | `wire_parity` |
| `InterfaceProofs` | the theorems about `EventPages`, `WireParity` and `ToolCatalog` | |
| the other `*Proofs` | the theorems of the module they extend | |
| `MC*` | the instances TLC checks | |

`PROJECT.json` maps each definition to the lines it stands for. A few
correspondences that are not obvious:

- `pc` is where a handler is; `"waiting"` is inside httpx, `"raised"` means an
  exception left the handler, `"refused"` is an error answer before there is a
  client. In `AdminOperations`, `"denied"` is the answer `PERMISSION_DENIED`.
- `link[c]` is a call's connection. A call makes one request at a time, so one
  value is enough: nothing, the request, or its outcome. `Abandon` leaves a
  request where it is; `Respond` drops the reply to a handler that has gone.
- An object the executor makes for call `c` is named `c`. That a call makes at
  most one object of each kind is not assumed but checked: `CarriedOutInOrder`.
- `HandlerStep` groups what the adapter does by itself. Everything else is
  somebody else's: the agent invoking, the executor serving, the network, the
  operator, the clock. None of those is assumed fair.
- In `AssistantV0` a list of names is a function from names to how often each
  occurs, because the loader compares sorted tuples: order is lost and
  duplicates are not. `fixed` and `noOverride` are the two comparisons made with
  a dry-run entry.
- In `KillSwitch` a call begins where `AdminOperations` leaves `Verified`: one
  request is left. `version` is the receipt's `state_version`; `saved` is what
  survives a restart of the executor, which the receipt's `persisted` reports.
- In `Submission` and `SignOnly` each attempt is a call of its own, because the
  methods make one request and retrying is the caller's business. `over` (and
  `answered` in `KillSwitch`) is what a caller knew to be finished when it made
  a call; an attempt that raised is never part of it.
- In `SignOnly` a reference is the record of its three parts; `Colons` are the
  executions whose ids contain the separator, so that `split(":")` finds more.
  Other programs' records are whatever the contract lets in: with a reference
  that does not parse, or beside a state that should have none, and under any
  client_event_id, for the contract makes that a key of the execution
  (`src/contracts/executor.v1.yaml:616`). So a record of somebody else can be
  what a recording call is answered with.
- In `EventPages` an event is what is wrong with it, its id its position. The
  reader is not in this repository: it is the loop the two parameters are for.
- In `ToolCatalog` an argument is absent, of another type, void or good. What
  is void differs by kind and is said at `Amiss`.
- In `WireParity` the shape of a field is whether it is there, whether it is
  required and which of three values it may hold: null, a plain one, and an odd
  one, which is what the two sides may disagree on (another state, a reference
  that does not parse, a blank name). `ReferenceMatchesState` is the one
  validator across fields that is modelled. Two schemas and four fields stand for
  all, one schema in the check's table and one outside it.
- In `CanaryReport` a release stands for its artifact's hash and a manifest for
  its own; two equal hashes mean the same content.

## What the runs show

| Run | Instance | Shows |
|---|---|---|
| `plan_all_tools` | 2 calls, 5 tools, 4 approvals, 3 instants | order, checked approvals, coherent plans; answers are final, every call ends, each call implements `ToolCall` |
| `admin_one_call` | 1 call, 3 tools, 3 tokens, 2 principals | nothing is done for an unverified principal, whatever is rotated and revoked; answers match deeds; the call ends and implements `ToolCall` |
| `assistant` | 6 names, manifests of up to 3 of 5 entries, every conformance list those can match | accepted contracts are safe, handlers are guarded, contract tools are served without an exception |
| `assistant_dry_run` | the same | *violated*: see below |
| `canary_report` | 2 releases, 3 instants | ready means approved; two manifests meet only for a stated reason |
| `kill_switch` | 3 calls of either scope, an account, a blank one and none | what `ok` says about the switch; only concurrent or raised calls can overturn a later one; asking again is safe |
| `submission_retries` | 3 calls, 2 keys, 2 plans, a blocked and a live status | endings match effects, retries are one submission, "not found" is final |
| `sign_only` | 2 calls, 2 executions, one with a colon, 2 digests, one not in lower case, a foreign record under any key | what is turned away has a cause, attempts leave at most one record and are answered alike, endings match the log |
| `event_pages` | 4 events, limits none, 1 and 2 | pages have no gaps, an empty page means all was read |
| `tool_catalog` | 17 tools, 60 environments, up to 2 arguments amiss | what is offered runs; callers that keep to a schema are served; what is sent is complete |
| `catalog_setup` | the documented variables | *violated*: see below |
| `wire_parity` | 2 edits to contract and models | after a passed check a body that is not taken has a value that is not allowed: it lacks no field and has no unknown one |

Some configurations beside these runs are there to be checked by hand.
`AdminTwoCalls.cfg` has two kill-switch calls at once (`AnswersMatchDeeds` and
`FlowInv`). `PlanApprovalOrder.cfg`, `AssistantTools.cfg`, `AssistantAnswers.cfg`,
`CanarySidecar.cfg`, `CatalogChecks.cfg`, `SignOnlyReceipts.cfg`,
`WireParityNull.cfg` and `WireParityTable.cfg` each check one claim of a document
and end with a counterexample; they are listed under "Disagreements". `FlowInv`
(of `PlanPreparation`, `AdminOperations`, `KillSwitch`, `Submission` and
`SignOnly`), `PageFlow`, `CatalogFlow`, `ParityFlow`, `OkMeansDone`,
`RefusedLeavesNoTrace`, `ClientsAreNotLeaked`, `KillSwitchTargetsAreClear` and the
action property `HandlersOnlyAdvance` hold in the runs of their modules as well
and can be added to those configurations; they are left out there because they
are proved and, where they are about single calls, implied by
`ImplementsToolCall` or part of why `EveryCallEnds` holds.

Why the bounds are enough. Calls share nothing but the executor's store and the
environment, so two are enough for one to interfere with another; the proofs are
for any number. Four approvals lie on either side of each comparison a receipt
goes through (scope, start, end, empty window), and three instants let one
expire, and another begin, during a chain. Admin calls share only what others
change at any moment anyway, token, subject and grants, so one call meets all
that can be done to it; the theorems are for any number. Two admin tokens of two principals
give each way in which token and subject can disagree, and the service token
authenticates the same principal as one of them, so that only the configuration
check keeps it off the admin endpoints. The three admin tools in use stand for
the forms a request takes: with a target, without, and without required
arguments. A manifest of three entries can hold the required tools and one too
many, or the dry-run tool twice. Of three kill-switch calls one can raise and
arrive late, one contradict it and one repeat it (a scope that is neither
`ACCOUNT` nor `GLOBAL` is left to the theorems); likewise of three submissions
two can share a key and a third read. Two sign-only calls and one foreign record
are enough for one to make what the other cannot list, for two to race for one
key, and for somebody else to have used it before them. A history of four is
longer than two pages of either limit. Two arguments amiss reach every pair that
one handler looks at together, scope and account; the 60 environments are all
there are of the kinds told apart, up to the names of the tokens. Two edits can offset each
other or undo each other.
Counters are bounded by `MaxTime` (the clock), `MaxEntries` (a manifest's
length), `MaxLog` (a history), `Faults` (arguments amiss), `MaxEdits`, and one
foreign record (`Outside`); all else is finite by itself. The runs
whose system may stop, because every call has ended, turn the deadlock check
off, as do those of `EventPages` and `WireParity`, which stop at their bounds,
and of `ToolCatalog`, where a host may be done; the assistant run does not.

Fairness is only assumed of `HandlerStep(c)`, weakly. A handler is synchronous
Python with no loop of its own: it goes on whenever it is not inside httpx, and
there it stays at most for the time `timeout_seconds` allows, which
`config.py:19` makes positive. `GiveUp` is that timeout. httpx counts the time
of each phase and of each read, so a server sending a byte now and then could
hold a handler for longer; the model leaves that server out.

### Disagreements between code and documents

The third and the sixth are runs of the project; the others have the
configuration that is named. Where a document promises too much, the properties
of the passing runs say how much of it does hold: one entry is enough for the
fixed mode (3), an exception needs something other than a dict (4), a report
mixes two releases only for a stated reason (5), a tool whose check raises would
have sent nothing (7), a construction's receipt is refused only where the
caller gave no reference (8), and after a passed check the two sides disagree on
values only (8, 9), null among them.

1. `PlanApprovalOrder.cfg`: `src/docs/ARCHITECTURE.md:38-40` puts the approval
   after `evaluate_decision`; `handle_prepare_execution_plan` takes it before
   the chain begins, as `src/docs/ROADMAP.md:76-77` says.
2. `AssistantTools.cfg`: the loader never compares with `ADAPTER_REQUIRED_TOOLS`,
   so an accepted contract may name fewer or other safe tools than the three
   `src/docs/HERMES_PLUGIN.md:87-88` lists.
3. `assistant_dry_run`: of two dry-run entries only the first is checked, where
   `src/docs/HERMES_PLUGIN.md:91-92` says it *always* maps to `BLOCKED_DRY_RUN`.
4. `AssistantAnswers.cfg`: an instance of a request model validates, is replaced by
   `{}`, and the built-in handler raises `KeyError`; the document promises a
   structured response (`src/docs/HERMES_PLUGIN.md:101-103`).
5. `CanarySidecar.cfg`: the help text (`cli.py:26`) says the sidecar binds artifact
   and evidence hashes; the command neither compares the sidecar with the
   manifest nor refuses an artifact hash that contradicts it.
6. `catalog_setup`: the admin tools are offered only when `PM_EXEC_ADMIN_SUBJECT`
   is set (`hermes_handlers.py:28-33`); `src/README.md:54-56` and
   `src/docs/HERMES_PLUGIN.md:44-47` set up three variables and no document
   names the fourth.
7. `CatalogChecks.cfg`: `check_executor_available`, declared `-> bool`, raises for a
   malformed URL, where the tests expect `False` of a bad one
   (`src/tests/test_hermes_plugin.py:329-330`).
8. `SignOnlyReceipts.cfg`: the receipt of a recorded construction is refused for
   upper-case hex or a reference of other than four parts, which the contract
   (`src/contracts/executor.v1.yaml:642-647`) allows. Likewise a record with a
   reference beside a state other than `SIGNED_DRY_RUN` conforms to the contract
   (`:601-618`) and is refused by `models.py:483`. The parity check sees neither.
9. `WireParityNull.cfg`: a lifecycle record is sent with `event_id` and
   `created_at` null, which the contract (`:606-607`) does not allow and the
   parity check does not see.
10. `WireParityTable.cfg`: `AdminSession` and `LiveReadEventRecord` are validated
    against replies but are not in the check's table, so a field that one side
    adds, drops or requires goes unnoticed.

## What is proved

For any set of calls, approvals, tokens, principals, accounts, tools, files and
releases. Assumptions on constants are named in the modules: `None` is none of
the values it stands in for, what is used is among what exists
(`OfferedAssumption`, `TokensAssumption`, `FilesAssumption`), and the constants
of `AssistantV0` partition as the sets in `assistant_v0_contracts.py:11-58` do
(`ToolsAssumption`).

- **`PlanPreparationProofs`.** The properties about single calls are not
  inductive: that a call has answered `ok` says nothing of how many requests
  were carried out. `FlowInv` adds, for each call, how its position, client,
  connection and the work done for it agree: while a request is under way the
  work is one behind the position, once it is answered they are equal, after an
  error or a loss it is either. `TypeOK /\ FlowInv` is inductive
  (`TypeAndFlow`), and order, completeness, clean refusals, closed clients and
  finality follow. `ApprovalGate` rests on an invariant of its own, that a
  handed-over approval was acceptable at `checkedAt` and travels unchanged from
  argument to body to plan; `PreparedPlans` on one that says, position by
  position, which of a prepare call's objects are in its hands and in the store.
  That `PlanPreparation` implements `ToolCall` is shown under `phaseBar`,
  `goalBar`, `doneBar`, `owedBar`: initial states map to initial states, and each
  action to a step named in the proof or to a stutter.
- **`AdminOperationsProofs`.** `FlowInv` here also ties a session to the
  principal of the token that was sent, and position 2 to a session that passed
  `Verified`; `DeedInv` ties each deed to the call it was done for. From these,
  deeds are verified, answers match deeds, the service token stays off the
  admin path and verification binds the call. `ClearTargets` has an invariant on
  targets of its own. `AdminOperations` implements `ToolCall` in the same way as
  `PlanPreparation` does.
- **Ending.** `HandlersOnlyAdvance`, in both of these modules, counts down from
  a handler's start to its end (`StepsLeft`): a step of the handler lowers it, and
  nobody else's changes it. This is the half of `EveryCallEnds` that needs no
  fairness; a retry, or a second verification after a rotation, would break it.
- **`AssistantV0Proofs`.** What a contract exposes follows from `Accepts` for
  any pair of files. That a dry-run tool listed once is fixed is a fact about
  counting (`ListedOnceIsFixed`: a set of one element holds no second entry), and
  that is all the loader can promise, see disagreement 3. What reaches a handler,
  and that no dict makes one raise, follows from `Violates` and the partition of
  the names, for any supplied handlers.
- **`CanaryReportProofs`.** `StageInv` says what each stage of a report has
  established, so that the report's claims follow when it is made.
- **`KillSwitchProofs`.** `FlowInv` ties a call to its request and receipt
  (`CallFlow`), makes versions unique, and says of each switch, now and as
  saved, that some call asked for its setting at its version and that no
  persisted change gave way to an older one (`InOrder`). `Restart` preserves it
  because `saved` satisfies the same formula as `switches`. That answered calls
  are over has an invariant of its own on top.
- **`SubmissionProofs`.** `FlowInv` says that what a submission was told is what
  is on record for its key, and that each record's plan was named by one of the
  attempts. `MissingIsFinal` needs more: an attempt that had ended without being
  served has no request left to be served.
- **`SignOnlyProofs`.** That a rejected reply has a cause says nothing of how
  the records it holds came to be there. `LogFlow` does: what a caller gave is
  valid, a key has one entry, and an entry of a call is what that call asked for.
  `CallFlow` says that the reply a call waits for, or has had, is the one due to
  what it asked, and that whether it was accepted is what validation says of it.
  A recording is due its own record, or that which is under its key: if that is
  somebody else's and not valid the recording is turned away, and since a key has
  one entry there is then nothing of the call in the log.
  Neither is inductive without the other: a retry is answered with an entry that
  another call made, and that entry has to stay the only one of its key. For
  any calls, executions and plans, and whichever ids hold the separator.
- **`InterfaceProofs`**, about what the adapter shows to its two neighbours.
  `PageFlow` says how request and page continue what was read; with
  `PagesHaveNoGaps` and `FinishedIsComplete` it is inductive, for any history,
  limits and kind of events. `ParityFlow` says that a passed verdict is about the
  contract and models that are there now, and a body about the comparison it
  went through; `PassedFieldsMatch` is the argument itself, field by field: where
  names and required names are equal, a body that fits one side fits the other
  but for a value, or for the validator that ties the reference to the state.
  That is all that is claimed of the check: what it does not compare (values,
  types, patterns, validators) it does not settle. `CatalogFlow` says that what the host was told is about its
  environment as long as that is steady, and derives each answer from the
  arguments and the configuration that was read. The properties of the catalogue
  then rest on lemmas about its tables: what a schema requires its handler asks
  for (`RequiredIsDemanded`) and the other way round (`DemandedIsRequired`).
- **Types.** `TypesAreKept` in each of the first six modules, `SignOnlyTypes`, and
  `CatalogTypes` for `ToolCatalog`; `PageFlow` and `ParityFlow` hold the types
  of `EventPages` and `WireParity`.

Every invariant and action property of the passing runs is proved, and so are
both refinements. Only model-checked: `EveryCallEnds`, which is liveness under
fairness and out of the proof system's reach but for its half named above, and
the properties that are violated.

## Not modelled

- The executor, the network, the host, the operator and the clock are external.
  They are modelled by what the adapter's use of them relies on. Two assumptions
  deserve mention: an executor's reply is about what it was asked (the adapter
  checks the shape of a reply, not its ids), and a request whose handler saw a
  status of 400 or more is not carried out afterwards, which a proxy between
  the two could break.
- What the executor checks again for itself (the grant, a decision's status, the
  approval's hashes) is not relied on anywhere.
- Syntax of decimals and hashes, the patterns of the secret scan, path quoting,
  wording of errors, JSON layout: functions of single strings that no property
  here distinguishes.
- `reconcile_order_local`: one request, one reply whose only rule is that two
  flags are true, and no caller. `src/scripts/check_hermes_profile_plugin.py`
  hands over to a script of another repository.
- That an executor's reply is about the intent or snapshot it was asked about,
  that the ids given to `compile_plan` belong together, and that a grant is
  still there when an operation arrives: the adapter leaves all three to the
  executor and promises nothing about them.

## Plan

The order was that of what can go wrong: plan preparation, admin operations, the
assistant contract and the canary report; then what retries and late requests do
(`KillSwitch`, `Submission`, `SignOnly`), what is read back (`EventPages`), what
is offered (`ToolCatalog`) and what the two repositories agree on
(`WireParity`). All of these are written, and the theorems above are proved.
What could follow: one module of lemmas about `Transport` for the flow proofs of
the five modules that extend it, and the endings of whole sessions, where an
agent takes what one tool answered to the next.

## Running

In this directory: `tlc -config PlanAllTools.cfg MCPlanPreparation.tla` checks a
run (`PROJECT.json` names the module and configuration of each);
`tlapm PlanPreparationProofs.tla` checks a module's proofs.
