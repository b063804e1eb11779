----------------------------- MODULE ToolCatalog -----------------------------
(***************************************************************************)
(* What the plugin offers the host, and whether what is offered works:     *)
(* registration, the published schemas, the availability checks, and how   *)
(* far each handler gets with the arguments and the environment it meets.  *)
(*                                                                         *)
(* The host asks check_fn when it lists tools; the handler reads the same  *)
(* variables again when it is called, under conditions of its own, and an  *)
(* admin handler reads one more after that.  Schemas and handlers are in   *)
(* two files and a host may or may not hold callers to a schema.           *)
(***************************************************************************)
EXTENDS Naturals, FiniteSets

CONSTANTS Tokens, None,
          Environments,   \* those met, of Variables
          Faults          \* how many arguments of a call may be amiss

\* A URL is unset, relative, malformed (urlparse raises), unroutable (urlparse
\* takes it, httpx does not: a port that is no number) or good.
Variables == [url: {"unset", "relative", "malformed", "unroutable", "good"},
              service: Tokens \cup {None}, admin: Tokens \cup {None}, subject: BOOLEAN]

ASSUME CatalogAssumption == Environments \subseteq Variables /\ None \notin Tokens

VARIABLES env,       \* the process's environment
          offer,     \* the host's last availability check: the tool, the result,
                     \* and whether the environment is still the same
          call       \* the call under way or just ended

vars == <<env, offer, call>>

-------------------------------------------------------------------------------
(* The catalog: register and the schemas.                                   *)

ServiceTools == {"executor_health", "normalize_intent", "capture_snapshot",
  "evaluate_decision", "compile_plan", "prepare_execution_plan",
  "get_submission", "list_execution_lifecycle_events", "canary_report"}
AdminTools == {"admin_kill_switch", "admin_cancel_order", "admin_reconcile",
  "admin_list_audit_events", "admin_list_live_read_events"}
AssistantTools == {"risk_review_trade_plan", "dry_run_trade_plan", "get_execution_status"}
Tools == ServiceTools \cup AdminTools \cup AssistantTools

PlanSchemas == [
  executor_health |-> <<>>,
  normalize_intent |-> [intent |-> "model"],
  capture_snapshot |-> [normalized |-> "model"],
  evaluate_decision |-> [normalized |-> "model", snapshot |-> "model"],
  compile_plan |-> [normalized |-> "model", snapshot |-> "model",
                    decision |-> "model", approval |-> "model"],
  prepare_execution_plan |-> [intent |-> "model", approval |-> "model"]]

ReadSchemas == [
  get_submission |-> [execution_id |-> "text"],
  list_execution_lifecycle_events |-> [execution_id |-> "text", limit |-> "count",
    before_event_id |-> "count", correlation_id |-> "trace"],
  canary_report |-> [evidence |-> "model", approval |-> "model", blocked_reasons |-> "words"]]

AdminSchemas == [
  admin_kill_switch |-> [account_id |-> "text", enabled |-> "flag", reason |-> "text",
    scope |-> "scope"],
  admin_cancel_order |-> [account_id |-> "text", order_id |-> "text", reason |-> "text",
    execution_id |-> "text", correlation_id |-> "trace"],
  admin_reconcile |-> [account_id |-> "text", reason |-> "text", execution_id |-> "text",
    correlation_id |-> "trace"],
  admin_list_audit_events |-> [limit |-> "count", before_audit_id |-> "count",
    operation |-> "text", principal_subject |-> "text", result |-> "text",
    audit_correlation_id |-> "text", correlation_id |-> "trace"],
  admin_list_live_read_events |-> [limit |-> "count", before_event_id |-> "count",
    account_id |-> "text", operation |-> "choice", outcome |-> "choice",
    remote_order_id |-> "text", correlation_id |-> "trace"]]

Published(t) ==
  CASE t \in DOMAIN PlanSchemas -> PlanSchemas[t]
    [] t \in DOMAIN ReadSchemas -> ReadSchemas[t]
    [] t \in DOMAIN AdminSchemas -> AdminSchemas[t]
    [] OTHER -> <<>>   \* AssistantV0 models the assistant tools' requests

\* Mutant of Optional: a schema asks for less than its handler.
OptionalMore(t) ==
  CASE t = "list_execution_lifecycle_events" -> {"limit", "before_event_id", "correlation_id"}
    [] t = "canary_report" -> {"approval", "blocked_reasons"}
    [] t = "admin_kill_switch" -> {"account_id", "scope", "reason"}
    [] t \in {"admin_cancel_order", "admin_reconcile"} -> {"execution_id", "correlation_id"}
    [] t \in {"admin_list_audit_events", "admin_list_live_read_events"} -> DOMAIN Published(t)
    [] OTHER -> {}

\* The arguments a schema does not require.
Optional(t) ==
  CASE t = "list_execution_lifecycle_events" -> {"limit", "before_event_id", "correlation_id"}
    [] t = "canary_report" -> {"approval", "blocked_reasons"}
    [] t = "admin_kill_switch" -> {"account_id", "scope"}
    [] t \in {"admin_cancel_order", "admin_reconcile"} -> {"execution_id", "correlation_id"}
    [] t \in {"admin_list_audit_events", "admin_list_live_read_events"} -> DOMAIN Published(t)
    [] OTHER -> {}

Required(t) == DOMAIN Published(t) \ Optional(t)

\* What a call may hold for an argument: nothing (or null, or an empty string),
\* a value of another JSON type, a void one (of spaces, below the minimum, of no
\* listed choice, against a model's rules, or no header's value), or a good one.
Amiss == {"absent", "alien", "void"}
Values(kind) ==
  CASE kind = "scope" -> {"absent", "alien", "void", "ACCOUNT", "GLOBAL"}
    [] kind \in {"flag", "words"} -> {"absent", "alien", "good"}
    [] OTHER -> {"absent", "alien", "void", "good"}

\* The kill-switch handler reads a correlation id that its schema lacks.
Kinds(t) ==
  IF t = "admin_kill_switch"
    THEN [a \in DOMAIN Published(t) \cup {"correlation_id"} |->
            IF a = "correlation_id" THEN "trace" ELSE Published(t)[a]]
    ELSE Published(t)

Arguments(t) ==
  LET D == DOMAIN Kinds(t)
      Faulty == UNION {[S -> Amiss] : S \in {S \in SUBSET D : Cardinality(S) <= Faults}}
      Good(a, s) == IF Kinds(t)[a] = "scope" THEN s ELSE "good" IN
  {args \in {[a \in D |-> IF a \in DOMAIN f THEN f[a] ELSE Good(a, s)] :
               f \in Faulty, s \in {"ACCOUNT", "GLOBAL"}} :
     \A a \in D : args[a] \in Values(Kinds(t)[a])}

\* A caller that keeps to the schema.
Follows(t, args) ==
  /\ \A a \in DOMAIN args \ DOMAIN Published(t) : args[a] = "absent"
  /\ \A a \in DOMAIN Published(t) :
       /\ args[a] # "alien"
       /\ args[a] = "absent" => a \in Optional(t)
       /\ args[a] = "void" => Published(t)[a] \in {"text", "model", "trace"}

-------------------------------------------------------------------------------
(* Availability and configuration.                                          *)

\* Mutant of ServiceCheck: no bool() around it, so that no token gives None.
ServiceCheckUncast(e) ==
  IF e.service = None THEN None
    ELSE CASE e.url = "malformed" -> "raises"
           [] e.url \in {"unset", "relative"} -> "no"
           [] OTHER -> "yes"

\* check_executor_available, then what check_admin_available adds.
ServiceCheck(e) ==
  IF e.service = None THEN "no"
    ELSE CASE e.url = "malformed" -> "raises"
           [] e.url \in {"unset", "relative"} -> "no"
           [] OTHER -> "yes"

\* Mutant of AdminCheck: the tokens are what the documentation asks for.
AdminCheckTokens(e) == IF ServiceCheck(e) = "yes" /\ e.admin = None THEN "no" ELSE ServiceCheck(e)

AdminCheck(e) ==
  IF ServiceCheck(e) = "yes" /\ (e.admin = None \/ ~e.subject) THEN "no" ELSE ServiceCheck(e)

Check(t, e) ==
  CASE t \in ServiceTools -> ServiceCheck(e)
    [] t \in AdminTools -> AdminCheck(e)
    [] t \in AssistantTools -> "yes"

\* from_env and __post_init__: the code a handler answers with, or "fine".
Config(e) ==
  CASE e.url = "unset" -> "CONFIG_MISSING_SERVICE_URL"
    [] e.url # "unset" /\ e.service = None -> "CONFIG_MISSING_SERVICE_TOKEN"
    [] e.url \in {"relative", "malformed"} /\ e.service # None -> "EXECUTOR_ADAPTER_ERROR"
    [] e.url \in {"unroutable", "good"} /\ e.service # None ->
         IF e.admin = e.service THEN "EXECUTOR_ADAPTER_ERROR" ELSE "fine"

-------------------------------------------------------------------------------
(* The handlers, up to the first request.                                   *)

\* What _required_text is asked about.
Demanded(t) ==
  CASE t \in {"get_submission", "list_execution_lifecycle_events"} -> {"execution_id"}
    [] t = "admin_kill_switch" -> {"reason"}
    [] t = "admin_cancel_order" -> {"account_id", "order_id", "reason"}
    [] t = "admin_reconcile" -> {"account_id", "reason"}
    [] OTHER -> {}

\* The scope is made a string; ACCOUNT, the default, needs some account.
LacksAccount(args) == args.scope \in {"absent", "ACCOUNT"} /\ args.account_id = "absent"

\* Mutant of Refuses: any truth value will do for the switch.
RefusesUntyped(t, args) ==
  \/ \E a \in DOMAIN args : Kinds(t)[a] \in {"model", "words"} /\
       (args[a] \in {"alien", "void"} \/ (args[a] = "absent" /\ a \notin Optional(t)))
  \/ \E a \in Demanded(t) : args[a] # "good"
  \/ t = "admin_kill_switch" /\ (args.enabled = "absent" \/ LacksAccount(args))

\* A handler's early returns.
Refuses(t, args) ==
  \/ \E a \in DOMAIN args : Kinds(t)[a] \in {"model", "words"} /\
       (args[a] \in {"alien", "void"} \/ (args[a] = "absent" /\ a \notin Optional(t)))
  \/ \E a \in Demanded(t) : args[a] # "good"
  \/ t = "admin_kill_switch" /\ (args.enabled # "good" \/ LacksAccount(args))

\* canary_report makes no request, and the assistant facade answers itself.
IsLocal(t) == t = "canary_report" \/ t \in AssistantTools

\* How the first request goes: a correlation id goes into a header, which takes
\* no other type and not every string; only ValueErrors are caught.
FirstRequest(t, args, e) ==
  LET trace == IF "correlation_id" \in DOMAIN args THEN args.correlation_id ELSE "absent" IN
  CASE trace = "alien" -> {"raised"}
    [] trace = "void" -> {"raised", "EXECUTOR_ADAPTER_ERROR"}
    [] trace \notin {"alien", "void"} -> {IF e.url = "unroutable" THEN "raised" ELSE "sent"}

NoCall == [at |-> "idle"]
NoOffer == [tool |-> None, result |-> "no", steady |-> FALSE]

Init == env \in Environments /\ offer = NoOffer /\ call = NoCall

\* The host lists its tools.
Ask(t) ==
  /\ call.at # "open"
  /\ offer' = [tool |-> t, result |-> Check(t, env), steady |-> TRUE]
  /\ call' = NoCall
  /\ UNCHANGED env

Ended(t, args, answer) ==
  [at |-> "ended", tool |-> t, args |-> args, answer |-> answer, url |-> env.url]

\* A call of the tool asked about, whatever the check said.
Call ==
  LET t == offer.tool IN
  /\ offer # NoOffer /\ call = NoCall
  /\ \E args \in Arguments(t) :
       call' = IF Refuses(t, args) THEN Ended(t, args, "refused")
               ELSE IF IsLocal(t) THEN Ended(t, args, "done")
               ELSE IF Config(env) # "fine" THEN Ended(t, args, Config(env))
               ELSE [at |-> "open", tool |-> t, args |-> args, env |-> env]
  /\ UNCHANGED <<env, offer>>

\* The first request, with the configuration of the client; an admin handler
\* reads the subject from the environment only now.
Proceed ==
  /\ call.at = "open"
  /\ IF call.tool \in AdminTools /\ ~env.subject
       THEN call' = Ended(call.tool, call.args, "CONFIG_MISSING_ADMIN_SUBJECT")
     ELSE IF call.tool \in AdminTools /\ call.env.admin = None
       THEN call' = Ended(call.tool, call.args, "PERMISSION_DENIED")
     ELSE \E x \in FirstRequest(call.tool, call.args, call.env) :
            call' = [Ended(call.tool, call.args, x) EXCEPT !.url = call.env.url]
  /\ UNCHANGED <<env, offer>>

\* Someone changes the environment.
Reconfigure ==
  /\ \E e \in Environments \ {env} : env' = e
  /\ offer' = [offer EXCEPT !.steady = FALSE]
  /\ call.at # "ended"
  /\ UNCHANGED call

Next == Call \/ Proceed \/ Reconfigure \/ \E t \in Tools : Ask(t)

Spec == Init /\ [][Next]_vars

-------------------------------------------------------------------------------
(* Properties.                                                              *)

Answers == {"refused", "done", "sent", "raised", "PERMISSION_DENIED",
  "EXECUTOR_ADAPTER_ERROR", "CONFIG_MISSING_SERVICE_URL", "CONFIG_MISSING_SERVICE_TOKEN",
  "CONFIG_MISSING_ADMIN_SUBJECT"}

TypeOK ==
  /\ env \in Environments
  /\ offer = NoOffer \/ (offer.tool \in Tools /\ offer.result \in {"yes", "no", "raises"})
  /\ call.at # "idle" =>
       call.tool \in Tools /\ \A a \in DOMAIN call.args : call.args[a] \in Values(Kinds(call.tool)[a])
  /\ call.at = "ended" => call.answer \in Answers

\* The answer of a call that read the environment e.
Answered(t, args, e) ==
  /\ ~Refuses(t, args) /\ ~IsLocal(t)
  /\ \/ Config(e) # "fine" /\ call.answer = Config(e)
     \/ /\ Config(e) = "fine" /\ t \in AdminTools
        /\ \/ call.answer = "CONFIG_MISSING_ADMIN_SUBJECT" /\ (offer.steady => ~env.subject)
           \/ call.answer = "PERMISSION_DENIED" /\ e.admin = None
     \/ /\ Config(e) = "fine" /\ call.answer \in FirstRequest(t, args, e) /\ call.url = e.url
        /\ t \in AdminTools => e.admin # None /\ (offer.steady => env.subject)

\* What leads to the properties below: the host's answer is about its environment
\* while that is steady, and how far a call got follows from its arguments and
\* from the configuration that it read.
CatalogFlow ==
  LET t == call.tool  args == call.args IN
  /\ offer.steady => offer.tool \in Tools /\ offer.result = Check(offer.tool, env)
  /\ \/ call = NoCall
     \/ call.at \in {"open", "ended"} /\ t \in Tools /\ t = offer.tool
                                    /\ DOMAIN args = DOMAIN Kinds(t)
  /\ call.at = "open" =>
       /\ ~Refuses(t, args) /\ ~IsLocal(t) /\ Config(call.env) = "fine"
       /\ call.env \in Environments /\ (offer.steady => call.env = env)
  /\ call.at = "ended" =>
       \/ call.answer = "refused" /\ Refuses(t, args)
       \/ call.answer = "done" /\ IsLocal(t) /\ ~Refuses(t, args)
       \/ \E e \in Environments : (offer.steady => e = env) /\ Answered(t, args, e)

\* The host's check is right about the environment it was made in: a tool that
\* is offered does not fail for its configuration when it is called there, unless
\* both tokens are the same, its correlation id fits no header or httpx does not
\* take the URL; and one that is not offered, or whose check raised, would not
\* have sent anything (canary_report alone needs no environment).
OfferedToolsRun ==
  offer.steady /\ call.at = "ended" =>
    /\ offer.result = "yes" /\ call.answer \notin {"refused", "done", "sent", "raised"}
       => \/ env.admin = env.service
          \/ call.answer = "EXECUTOR_ADAPTER_ERROR" /\ "correlation_id" \in DOMAIN call.args
                                                    /\ call.args.correlation_id = "void"
    /\ offer.result # "yes" =>
         /\ call.answer \notin {"sent", "raised"}
         /\ call.answer = "done" => call.tool = "canary_report"

\* A caller that keeps to the published schema is refused only for a value the
\* schema cannot tell from a good one or for an account it does not require,
\* and sees an exception only for a correlation id no header holds or a URL
\* that httpx does not take.
SchemaFollowersAreServed ==
  call.at = "ended" /\ Follows(call.tool, call.args) =>
    LET args == call.args IN
    /\ call.answer = "refused" =>
         \/ \E a \in DOMAIN args : args[a] = "void"
         \/ call.tool = "admin_kill_switch" /\ args.account_id = "absent"
    /\ call.answer = "raised" =>
         \/ \E a \in DOMAIN args : a = "correlation_id" /\ args[a] = "void"
         \/ call.url = "unroutable"

\* Whatever the host lets through, what is sent has every argument that the
\* schema requires, of its type and in order.
WhatIsSentIsComplete ==
  call.at = "ended" /\ call.answer \in {"sent", "done"} => \A a \in Required(call.tool) : call.args[a] \notin Amiss

\* A setup as README.md:54-56 shows it has all tools offered.
DocumentedSetup(e) ==
  e.url = "good" /\ e.service # None /\ e.admin # None /\ e.admin # e.service
DocumentedSetupOffersTools ==
  offer.steady /\ DocumentedSetup(env) => offer.result = "yes"

\* An availability check answers (hermes_handlers.py:24, `-> bool`).
ChecksAnswer == offer.result # "raises"
===============================================================================
