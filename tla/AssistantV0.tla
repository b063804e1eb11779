------------------------------ MODULE AssistantV0 ------------------------------
(***************************************************************************)
(* The assistant-v0 contract: what an agent session may ask of the adapter *)
(* when it is given the narrow toolset instead of the executor's API.      *)
(*                                                                         *)
(* The plugin registers the three tools it must serve after checking its   *)
(* own manifest with its own loader.  Independently, a manifest and a      *)
(* conformance file written by somebody else may be loaded, one after the  *)
(* other, and are accepted or refused.  The facade then answers what the   *)
(* session asks: it refuses what breaks the contract, leaves local tools   *)
(* to the assistant and hands the rest to a handler, a built-in stub or    *)
(* one the embedding program supplied.                                     *)
(***************************************************************************)
EXTENDS Naturals, Sequences, FiniteSets

CONSTANTS SafeTools,      \* SAFE_SESSION_TOOLS
          RequiredTools,  \* ADAPTER_REQUIRED_TOOLS
          LocalTools,     \* ASSISTANT_LOCAL_TOOLS_NOT_REQUIRED_FROM_ADAPTER
          ForbiddenTools, \* FORBIDDEN_TOOL_NAMES
          OtherNames,     \* names nobody knows
          Modelled,       \* the tools with a request model
          Supplied,       \* names the embedding program supplied handlers for
          DryRun,         \* dry_run_trade_plan
          MaxEntries,     \* bound on the length of a manifest
          ManifestFiles,  \* what may be in the files when they are read
          ConformanceFiles,
          None

Names == SafeTools \cup ForbiddenTools \cup OtherNames

ASSUME ToolsAssumption ==
  /\ SafeTools = RequiredTools \cup LocalTools
  /\ RequiredTools \cap LocalTools = {}
  /\ SafeTools \cap (ForbiddenTools \cup OtherNames) = {}
  /\ DryRun \in RequiredTools
  /\ RequiredTools \subseteq Modelled /\ Modelled \subseteq SafeTools
  /\ Supplied \subseteq Names
  /\ IsFiniteSet(RequiredTools)
ASSUME BoundAssumption == MaxEntries \in Nat /\ Cardinality(RequiredTools) <= MaxEntries

-------------------------------------------------------------------------------
(* Manifest and conformance files.                                          *)

\* One tool of a manifest: is its executor mode the fixed one, and is its
\* allow_mode_override exactly false?
Entries == [name: Names, fixed: BOOLEAN, noOverride: BOOLEAN]
Manifests == UNION {[1..n -> Entries] : n \in 0..MaxEntries}

\* A list of names up to order, as the sorted tuples compare: how often each
\* name is in it.
Lists == [Names -> 0..MaxEntries]
ListOf(S) == [n \in Names |-> IF n \in S THEN 1 ELSE 0]
NamesIn(l) == {n \in Names : l[n] > 0}

\* labels: contract_version and target_component are the expected ones;
\* fixed, noOverride: the mode contract, both false when there is none.
Conformances ==
  [safe: Lists, required: Lists, forbidden: SUBSET Names,
   labels: BOOLEAN, fixed: BOOLEAN, noOverride: BOOLEAN]

ASSUME FilesAssumption ==
  ManifestFiles \subseteq Manifests /\ ConformanceFiles \subseteq Conformances

ToolNames(m) == [n \in Names |-> Cardinality({i \in DOMAIN m : m[i].name = n})]

\* _tool_by_name: the first entry of that name.
FirstOf(m, n, i) ==
  /\ i \in DOMAIN m /\ m[i].name = n
  /\ \A j \in DOMAIN m : j < i => m[j].name # n

\* Mutant of Accepts: the required tools are not held against the safe ones.
AcceptsUnchecked(m, f) ==
  /\ NamesIn(ToolNames(m)) \cap f.forbidden = {}
  /\ f.safe = ListOf(SafeTools)
  /\ ToolNames(m) = f.required
  /\ f.labels
  /\ \E i \in DOMAIN m : FirstOf(m, DryRun, i) /\ m[i].fixed /\ m[i].noOverride
  /\ f.fixed /\ f.noOverride

\* load_assistant_v0_contracts_from_objects, in the order of its checks.
Accepts(m, f) ==
  /\ NamesIn(ToolNames(m)) \cap f.forbidden = {}
  /\ f.safe = ListOf(SafeTools)
  /\ ToolNames(m) = f.required
  /\ NamesIn(f.required) \subseteq NamesIn(f.safe)
  /\ f.labels
  /\ \E i \in DOMAIN m : FirstOf(m, DryRun, i) /\ m[i].fixed /\ m[i].noOverride
  /\ f.fixed /\ f.noOverride

\* What the facade would publish: one entry for each required tool, sorted.
OwnManifest ==
  CHOOSE m \in Manifests :
    /\ ToolNames(m) = ListOf(RequiredTools)
    /\ \A i \in DOMAIN m : m[i].fixed = (m[i].name = DryRun)
                            /\ m[i].noOverride = (m[i].name = DryRun)

OwnConformance ==
  [safe |-> ListOf(SafeTools), required |-> ListOf(RequiredTools),
   forbidden |-> ForbiddenTools, labels |-> TRUE, fixed |-> TRUE, noOverride |-> TRUE]

-------------------------------------------------------------------------------
(* Payloads.                                                                *)

\* A dict (plan: it has a plan_id; rest: its other required fields are good;
\* extra, mode: it has an unknown field, or mode), an instance of a request
\* model, or anything else.
Dicts == [form: {"dict"}, plan: BOOLEAN, rest: BOOLEAN, extra: BOOLEAN, mode: BOOLEAN]
Instances == [form: {"instance"}, of: Modelled]
Payloads == Dicts \cup Instances \cup {[form |-> "other"]}

EmptyDict == [form |-> "dict", plan |-> FALSE, rest |-> FALSE, extra |-> FALSE,
              mode |-> FALSE]

\* What the tool's model lets through: an instance of it as it is, a dict
\* with the right fields and no other (mode is another).
Conforms(t, p) ==
  \/ t \notin Modelled
  \/ p.form = "dict" /\ p.plan /\ p.rest /\ ~p.extra /\ ~p.mode
  \/ p.form = "instance" /\ p.of = t

ASSUME NoneAssumption ==
  /\ None \notin Manifests /\ None \notin Dicts
  /\ None \notin [tool: Names, payload: Payloads]

\* Mutant of Violates: a name with a handler is taken for a safe one.
ViolatesNamed(t, p) == t \in ForbiddenTools \/ ~Conforms(t, p)

Violates(t, p) == t \in ForbiddenTools \/ t \notin SafeTools \/ ~Conforms(t, p)

-------------------------------------------------------------------------------

VARIABLES registered,  \* the tools the plugin has registered
          manifest,    \* the manifest a load has read, None before
          contract,    \* the contract that was loaded, None before
          asked,       \* the latest request of the session
          answer,      \* and how the facade answered it
          saw          \* what the handler was called with, None if none was

vars == <<registered, manifest, contract, asked, answer, saw>>

Contracts == [tools: Lists, entries: Manifests]
Answers == {"CONTRACT_VIOLATION", "LOCAL_ASSISTANT_TOOL", "UNSUPPORTED_ADAPTER_TOOL",
            "stub", "supplied", "raised"}

TypeOK ==
  /\ registered \in {{}, RequiredTools}
  /\ manifest \in Manifests \cup {None}
  /\ contract \in Contracts \cup {None}
  /\ asked \in [tool: Names, payload: Payloads] \cup {None}
  /\ answer \in Answers \cup {None}
  /\ saw \in Dicts \cup {None}

Init ==
  /\ registered = {}
  /\ manifest = None /\ contract = None
  /\ asked = None /\ answer = None /\ saw = None

\* build_assistant_v0_tool_specs: its own manifest must pass its own loader.
Register ==
  /\ registered = {}
  /\ Accepts(OwnManifest, OwnConformance)
  /\ registered' = RequiredTools
  /\ UNCHANGED <<manifest, contract, asked, answer, saw>>

\* load_assistant_v0_contracts reads one file and then the other; whatever
\* is in them by then is what it checks.  A refused load leaves no contract.
ReadManifest ==
  /\ manifest = None
  /\ manifest' \in ManifestFiles
  /\ contract' = None
  /\ UNCHANGED <<registered, asked, answer, saw>>

\* Mutant of ReadConformance: manifest and requirements are taken for each other.
ReadConformanceSwapped ==
  /\ manifest # None
  /\ manifest' = None
  /\ \E f \in ConformanceFiles :
       /\ Accepts(manifest, f)
       /\ contract' = [tools |-> manifest, entries |-> f.required]
  /\ UNCHANGED <<registered, asked, answer, saw>>

\* The second file, the checks, and the contract if they all pass.
ReadConformance ==
  /\ manifest # None
  /\ manifest' = None
  /\ \/ \E f \in ConformanceFiles :
          /\ Accepts(manifest, f)
          /\ contract' = [tools |-> f.required, entries |-> manifest]
     \/ UNCHANGED contract
  /\ UNCHANGED <<registered, asked, answer, saw>>

\* What a handler is called with: a payload that is no dict becomes {}.
Coerced(p) == IF p.form = "dict" THEN p ELSE EmptyDict

\* Mutant of HasHandler: only supplied handlers are looked up.
HasSupplied(t) == t \in Supplied

\* Supplied handlers are added to the built-in ones, under any name.
HasHandler(t) == t \in Supplied \cup RequiredTools

\* The built-in stubs take plan_id from their payload; a supplied handler
\* answers as it likes.
HandlerAnswer(t, p) ==
  IF t \in Supplied THEN "supplied" ELSE IF p.plan THEN "stub" ELSE "raised"

Dispatch(t, p) ==
  /\ asked' = [tool |-> t, payload |-> p]
  /\ \/ /\ Violates(t, p)
        /\ answer' = "CONTRACT_VIOLATION"
        /\ saw' = None
     \/ /\ ~Violates(t, p) /\ t \in LocalTools
        /\ answer' = "LOCAL_ASSISTANT_TOOL"
        /\ saw' = None
     \/ /\ ~Violates(t, p) /\ t \notin LocalTools
        /\ IF HasHandler(t)
           THEN /\ answer' = HandlerAnswer(t, Coerced(p))
                /\ saw' = Coerced(p)
           ELSE answer' = "UNSUPPORTED_ADAPTER_TOOL" /\ saw' = None
  /\ UNCHANGED <<registered, manifest, contract>>

Next ==
  \/ Register \/ ReadManifest \/ ReadConformance
  \/ \E t \in Names, p \in Payloads : Dispatch(t, p)

Spec == Init /\ [][Next]_vars

-------------------------------------------------------------------------------
(* Properties.                                                              *)

\* Whatever is in the two files, and however they were mixed, a contract that
\* is accepted exposes safe tools only: a conformance file that forbids less
\* than FORBIDDEN_TOOL_NAMES changes nothing.  It has a dry-run tool, of the fixed
\* mode if it is listed once (AcceptedDryRunsAreFixed shows what twice leads to).
AcceptedContractsAreSafe ==
  contract # None =>
    /\ NamesIn(contract.tools) \subseteq SafeTools
    /\ NamesIn(contract.tools) \cap ForbiddenTools = {}
    /\ \E i \in DOMAIN contract.entries : contract.entries[i].name = DryRun
    /\ contract.tools[DryRun] = 1 =>
         \A i \in DOMAIN contract.entries : contract.entries[i].name = DryRun =>
           contract.entries[i].fixed /\ contract.entries[i].noOverride

\* A handler, supplied or built in, is called only for a tool the adapter must
\* serve, and for a request that names a plan and neither a mode nor anything
\* else of its own: supplying a handler under a forbidden, local or unknown
\* name gives that name no way in.
HandlersAreGuarded ==
  saw # None =>
    /\ asked.tool \in RequiredTools
    /\ asked.payload.form # "other"
    /\ asked.payload.form = "dict" => saw.plan /\ ~saw.extra /\ ~saw.mode

\* Loading and serving agree: a tool of an accepted contract is never answered
\* as unknown, forbidden or unsupported when the request itself is in order, and
\* no handler is handed a dict that makes it raise.
ContractToolsAreServed ==
  /\ contract # None /\ asked # None
  /\ asked.tool \in NamesIn(contract.tools) /\ Conforms(asked.tool, asked.payload)
  => /\ answer \notin {"CONTRACT_VIOLATION", "UNSUPPORTED_ADAPTER_TOOL"}
     /\ asked.payload.form = "dict" => answer # "raised"

\* docs/HERMES_PLUGIN.md: the adapter-backed required tools are these three.
AcceptedContractsNameTheAdaptersTools ==
  contract # None => NamesIn(contract.tools) = RequiredTools

\* docs/HERMES_PLUGIN.md: dry_run_trade_plan always maps to BLOCKED_DRY_RUN.
AcceptedDryRunsAreFixed ==
  contract # None =>
    \A i \in DOMAIN contract.entries : contract.entries[i].name = DryRun =>
      contract.entries[i].fixed /\ contract.entries[i].noOverride

\* docs/HERMES_PLUGIN.md: the facade returns structured non-live responses.
FacadeAlwaysAnswers == answer # "raised"
===============================================================================
