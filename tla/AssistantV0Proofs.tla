--------------------------- MODULE AssistantV0Proofs ---------------------------
(***************************************************************************)
(* What the assistant-v0 loader and facade guarantee for any tool names,   *)
(* any files and any handlers supplied.                                    *)
(***************************************************************************)
EXTENDS AssistantV0, FiniteSetTheorems, TLAPS

\* Whatever the files hold and whatever is asked, every reachable state is
\* well-typed: what is loaded has the form of a contract, and what is answered
\* is one of the answers the facade has.
THEOREM TypesAreKept == Spec => []TypeOK
<1>1. Init => TypeOK
  BY DEF Init, TypeOK
<1>2. TypeOK /\ [Next]_vars => TypeOK'
  <2>. SUFFICES ASSUME TypeOK, [Next]_vars PROVE TypeOK'
    OBVIOUS
  <2>1. CASE Register
    BY <2>1 DEF TypeOK, Register
  <2>2. CASE ReadManifest
    BY <2>2, FilesAssumption DEF TypeOK, ReadManifest
  <2>3. CASE ReadConformance
    <3>1. contract' \in Contracts \cup {None}
      <4>1. ASSUME NEW f \in ConformanceFiles
            PROVE  [tools |-> f.required, entries |-> manifest] \in Contracts
        <5>1. f.required \in Lists
          BY <4>1, FilesAssumption DEF Conformances
        <5>2. manifest \in Manifests
          BY <2>3 DEF TypeOK, ReadConformance
        <5>. QED
          BY <5>1, <5>2 DEF Contracts
      <4>. QED
        BY <2>3, <4>1 DEF TypeOK, ReadConformance
    <3>. QED
      BY <2>3, <3>1 DEF TypeOK, ReadConformance
  <2>4. ASSUME NEW t \in Names, NEW p \in Payloads, Dispatch(t, p)
        PROVE  TypeOK'
    <3>1. Coerced(p) \in Dicts
      BY DEF Coerced, EmptyDict, Payloads, Dicts, Instances
    <3>2. saw' \in Dicts \cup {None} /\ answer' \in Answers
      BY <2>4, <3>1 DEF Dispatch, HandlerAnswer, Answers
    <3>3. asked' \in [tool: Names, payload: Payloads]
      BY <2>4 DEF Dispatch
    <3>. QED
      BY <2>4, <3>2, <3>3 DEF TypeOK, Dispatch
  <2>5. CASE UNCHANGED vars
    BY <2>5 DEF TypeOK, vars
  <2>. QED
    BY <2>1, <2>2, <2>3, <2>4, <2>5 DEF Next
<1>. QED
  BY <1>1, <1>2, PTL DEF Spec

\* The names in the list of a set of names are those of the set.
LEMMA NamesInListOf ==
  ASSUME NEW S \in SUBSET Names
  PROVE  NamesIn(ListOf(S)) = S
BY DEF NamesIn, ListOf

\* The loader: what it accepts is safe whatever the conformance file forbids,
\* because the safe tools are compared with the adapter's own and the
\* manifest's with the safe ones.
LEMMA AcceptedIsSafe ==
  ASSUME NEW m, NEW f, Accepts(m, f)
  PROVE  /\ NamesIn(f.required) \subseteq SafeTools
         /\ NamesIn(f.required) \cap ForbiddenTools = {}
         /\ \E i \in DOMAIN m : m[i].name = DryRun
<1>1. NamesIn(f.required) \subseteq NamesIn(ListOf(SafeTools))
  BY DEF Accepts
<1>2. NamesIn(ListOf(SafeTools)) = SafeTools
  BY NamesInListOf DEF Names
<1>3. \E i \in DOMAIN m : m[i].name = DryRun
  BY DEF Accepts, FirstOf
<1>. QED
  BY <1>1, <1>2, <1>3, ToolsAssumption

\* Of the dry-run entries _tool_by_name looks at the first; where there is but
\* one, that is all of them.
LEMMA ListedOnceIsFixed ==
  ASSUME NEW m \in Manifests, NEW f, Accepts(m, f), f.required[DryRun] = 1,
         NEW i \in DOMAIN m, m[i].name = DryRun
  PROVE  m[i].fixed /\ m[i].noOverride
<1>. DEFINE Dry == {j \in DOMAIN m : m[j].name = DryRun}
<1>1. Cardinality(Dry) = 1
  BY ToolsAssumption DEF Accepts, ToolNames, Names
<1>2. IsFiniteSet(Dry)
  <2>1. PICK n \in 0..MaxEntries : DOMAIN m = 1..n
    BY DEF Manifests
  <2>2. IsFiniteSet(1..n)
    BY <2>1, BoundAssumption, FS_Interval
  <2>. QED
    BY <2>1, <2>2, FS_Subset
<1>3. PICK x : Dry = {x}
  BY <1>1, <1>2, FS_Singleton
<1>4. PICK j \in DOMAIN m : m[j].name = DryRun /\ m[j].fixed /\ m[j].noOverride
  BY DEF Accepts, FirstOf
<1>5. i \in Dry /\ j \in Dry
  BY <1>4
<1>6. i = j
  BY <1>3, <1>5
<1>. QED
  BY <1>4, <1>6

\* An accepted contract never exposes a forbidden or unknown tool, for any
\* pair of files and any interleaving of their writing and reading, and its
\* dry-run tool, if listed once, is of the fixed mode.
THEOREM LoaderIsSafe == Spec => []AcceptedContractsAreSafe
<1>1. Init => AcceptedContractsAreSafe
  BY DEF Init, AcceptedContractsAreSafe
<1>2. TypeOK /\ AcceptedContractsAreSafe /\ [Next]_vars => AcceptedContractsAreSafe'
  <2>. SUFFICES ASSUME TypeOK, AcceptedContractsAreSafe, [Next]_vars
                PROVE  AcceptedContractsAreSafe'
    OBVIOUS
  <2>1. CASE ReadConformance
    <3>1. CASE contract' = contract
      BY <3>1 DEF AcceptedContractsAreSafe
    <3>2. ASSUME NEW f \in ConformanceFiles, Accepts(manifest, f),
                 contract' = [tools |-> f.required, entries |-> manifest]
          PROVE  AcceptedContractsAreSafe'
      <4>1. manifest \in Manifests
        BY <2>1 DEF TypeOK, ReadConformance
      <4>. QED
        BY <3>2, <4>1, AcceptedIsSafe, ListedOnceIsFixed DEF AcceptedContractsAreSafe
    <3>. QED
      BY <2>1, <3>1, <3>2 DEF ReadConformance
  <2>2. CASE contract' \in {contract, None}
    BY <2>2 DEF AcceptedContractsAreSafe
  <2>. QED
    BY <2>1, <2>2 DEF Next, Register, ReadManifest, Dispatch, vars
<1>. QED
  BY <1>1, <1>2, TypesAreKept, PTL DEF Spec

\* What the facade knows of the request it answered last.
Answered ==
  asked # None =>
    /\ Violates(asked.tool, asked.payload) <=> answer = "CONTRACT_VIOLATION"
    /\ saw # None => /\ ~Violates(asked.tool, asked.payload)
                     /\ asked.tool \notin LocalTools
                     /\ saw = Coerced(asked.payload)
    /\ answer # "UNSUPPORTED_ADAPTER_TOOL"
    /\ asked.payload.form = "dict" => answer # "raised"

FacadeInv ==
  /\ asked = None => saw = None
  /\ Answered

\* The facade refuses exactly what violates the contract; every other tool is
\* local or has a handler.
LEMMA DispatchAnswers ==
  ASSUME NEW t \in Names, NEW p \in Payloads, Dispatch(t, p)
  PROVE  Answered'
<1>1. asked' = [tool |-> t, payload |-> p]
  BY DEF Dispatch
<1>2. CASE Violates(t, p)
  <2>1. answer' = "CONTRACT_VIOLATION" /\ saw' = None
    BY <1>2 DEF Dispatch
  <2>. QED
    BY <1>1, <1>2, <2>1 DEF Answered, Violates, Conforms
<1>3. CASE ~Violates(t, p) /\ t \in LocalTools
  <2>1. answer' = "LOCAL_ASSISTANT_TOOL" /\ saw' = None
    BY <1>3 DEF Dispatch
  <2>. QED
    BY <1>1, <1>3, <2>1 DEF Answered, Violates, Conforms
<1>4. CASE ~Violates(t, p) /\ t \notin LocalTools
  <2>1. HasHandler(t)
    BY <1>4, ToolsAssumption DEF HasHandler, Violates
  <2>2. answer' = HandlerAnswer(t, Coerced(p)) /\ saw' = Coerced(p)
    BY <1>4, <2>1 DEF Dispatch
  <2>3. p.form = "dict" => Coerced(p).plan
    BY <1>4, ToolsAssumption DEF Violates, Conforms, Coerced
  <2>4. /\ answer' \in {"supplied", "stub", "raised"}
        /\ p.form = "dict" => answer' # "raised"
    BY <2>2, <2>3 DEF HandlerAnswer
  <2>. QED
    BY <1>1, <1>4, <2>2, <2>4 DEF Answered, Violates, Conforms, Coerced
<1>. QED
  BY <1>2, <1>3, <1>4

LEMMA FacadeStep ==
  ASSUME FacadeInv, [Next]_vars
  PROVE  FacadeInv'
<1>1. CASE UNCHANGED <<asked, answer, saw>>
  BY <1>1 DEF FacadeInv, Answered, Violates, Conforms, Coerced
<1>2. ASSUME NEW t \in Names, NEW p \in Payloads, Dispatch(t, p)
      PROVE  FacadeInv'
  <2>1. asked' # None
    BY <1>2, NoneAssumption DEF Dispatch
  <2>. QED
    BY <1>2, <2>1, DispatchAnswers DEF FacadeInv
<1>. QED
  BY <1>1, <1>2 DEF Next, Register, ReadManifest, ReadConformance, vars

LEMMA FacadeIsInvariant == Spec => []FacadeInv
<1>1. Init => FacadeInv
  BY DEF Init, FacadeInv, Answered
<1>2. FacadeInv /\ [Next]_vars => FacadeInv'
  BY FacadeStep
<1>. QED
  BY <1>1, <1>2, PTL DEF Spec

\* Only the tools the adapter must serve reach a handler, with a request that
\* named a plan and no mode, whatever handlers the embedding program supplies.
THEOREM GuardedHandlers == Spec => []HandlersAreGuarded
<1>1. FacadeInv => HandlersAreGuarded
  <2>. SUFFICES ASSUME FacadeInv, saw # None
                PROVE  /\ asked.tool \in RequiredTools
                       /\ asked.payload.form # "other"
                       /\ asked.payload.form = "dict" =>
                            saw.plan /\ ~saw.extra /\ ~saw.mode
    BY DEF HandlersAreGuarded
  <2>1. /\ ~Violates(asked.tool, asked.payload) /\ asked.tool \notin LocalTools
        /\ saw = Coerced(asked.payload)
    BY DEF FacadeInv, Answered
  <2>2. asked.tool \in RequiredTools
    BY <2>1, ToolsAssumption DEF Violates
  <2>3. asked.tool \in Modelled /\ Conforms(asked.tool, asked.payload)
    BY <2>1, <2>2, ToolsAssumption DEF Violates
  <2>. QED
    BY <2>1, <2>2, <2>3 DEF Conforms, Coerced
<1>. QED
  BY FacadeIsInvariant, <1>1, PTL

\* A tool of any accepted contract is served: loader and facade agree on what
\* is safe, though they compare with different lists, and a handler gets what it
\* reads from every dict that validates.
THEOREM ContractsAreServed == Spec => []ContractToolsAreServed
<1>1. AcceptedContractsAreSafe /\ FacadeInv => ContractToolsAreServed
  <2>. SUFFICES ASSUME AcceptedContractsAreSafe, FacadeInv,
                       contract # None, asked # None,
                       asked.tool \in NamesIn(contract.tools),
                       Conforms(asked.tool, asked.payload)
                PROVE  /\ answer \notin {"CONTRACT_VIOLATION", "UNSUPPORTED_ADAPTER_TOOL"}
                       /\ asked.payload.form = "dict" => answer # "raised"
    BY DEF ContractToolsAreServed
  <2>1. asked.tool \in SafeTools /\ asked.tool \notin ForbiddenTools
    BY DEF AcceptedContractsAreSafe
  <2>2. ~Violates(asked.tool, asked.payload)
    BY <2>1 DEF Violates
  <2>. QED
    BY <2>2 DEF FacadeInv, Answered
<1>. QED
  BY LoaderIsSafe, FacadeIsInvariant, <1>1, PTL
===============================================================================
