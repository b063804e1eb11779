---------------------------- MODULE AdminOperations ----------------------------
(***************************************************************************)
(* The admin tools of the Hermes plugin: kill switch, cancel, reconcile    *)
(* and the two read-only lists.                                            *)
(*                                                                         *)
(* Each makes two requests on one client: it asks the executor who its     *)
(* admin token authenticates and what that principal may do, compares the  *)
(* answer with PM_EXEC_ADMIN_SUBJECT and the capability the tool needs,    *)
(* and only then asks for the operation.  The token is read when the       *)
(* client is made, the subject just before verification: the operator may  *)
(* rotate either in between, and the executor may change its grants at any *)
(* time.                                                                   *)
(***************************************************************************)
EXTENDS Naturals, Sequences, Transport

CONSTANTS Tokens,        \* bearer tokens, the service token among them
          ServiceToken,
          Subjects,      \* principals
          OwnerOf,       \* the principal a token authenticates
          Offered,       \* the tools in use, a subset of Tools
          Accounts,
          None

Tools == {"kill_switch", "cancel_order", "reconcile", "list_audit", "list_live_read"}

Capabilities == {"KILL_SWITCH", "CANCEL_ORDER", "RECONCILE", "READ_AUDIT"}

Needs(t) == CASE t = "kill_switch"  -> "KILL_SWITCH"
              [] t = "cancel_order" -> "CANCEL_ORDER"
              [] t = "reconcile"    -> "RECONCILE"
              [] OTHER              -> "READ_AUDIT"

ASSUME TokensAssumption ==
  /\ ServiceToken \in Tokens
  /\ OwnerOf \in [Tokens -> Subjects]
  /\ Offered \subseteq Tools

\* What a kill-switch caller may pass, and what the handler makes of it.
Scopes == {"ACCOUNT", "GLOBAL", "OTHER"}
Targets == [scope: Scopes, account: Accounts \cup {None}]

Requests == [step: {"verify", "operate"}, token: Tokens, target: Targets \cup {None}]
Sessions == [subject: Subjects, caps: SUBSET Capabilities]

ASSUME NoneAssumption ==
  /\ None \notin Tokens /\ None \notin Subjects /\ None \notin Accounts
  /\ None \notin Tools /\ None \notin Targets
  /\ None \notin Requests /\ None \notin Sessions

VARIABLES envToken,    \* PM_EXEC_ADMIN_TOKEN, None when unset or empty
          envSubject,  \* PM_EXEC_ADMIN_SUBJECT, None when unset or empty
          granted,     \* the executor's grants: (principal, capability) pairs
          tool,        \* the tool each call invokes
          target,      \* the arguments of a kill-switch call
          token,       \* the admin token of the call's ExecutorConfig
          expected,    \* the subject the call expects
          at,          \* 1 while it verifies, 2 while it operates
          body,        \* its latest request: step, token, target
          session,     \* the AdminSession the executor answered with
          work,        \* the steps the executor carried out for the call
          deeds        \* the operations the executor carried out

envVars == <<envToken, envSubject>>
handlerVars == <<tool, pc, client, target, token, expected, at, body>>
vars == <<envVars, granted, handlerVars, link, session, work, deeds>>

Ended == {"ok", "refused", "failed", "denied", "raised"}
Script == <<"verify", "operate">>

Init ==
  /\ envToken \in Tokens \cup {None}
  /\ envSubject \in Subjects \cup {None}
  /\ granted \in SUBSET (Subjects \X {Needs(t) : t \in Offered})
  /\ tool = [c \in Calls |-> None]
  /\ target = [c \in Calls |-> None]
  /\ token = [c \in Calls |-> None]
  /\ expected = [c \in Calls |-> None]
  /\ at = [c \in Calls |-> 1]
  /\ pc = [c \in Calls |-> "idle"]
  /\ client = [c \in Calls |-> "none"]
  /\ body = [c \in Calls |-> None]
  /\ link = [c \in Calls |-> "quiet"]
  /\ session = [c \in Calls |-> None]
  /\ work = [c \in Calls |-> << >>]
  /\ deeds = {}

-------------------------------------------------------------------------------
(* Arguments.                                                               *)

\* handle_admin_kill_switch: GLOBAL drops the account; a scope that is
\* neither ACCOUNT nor GLOBAL is passed on.
Normalized(s, a) == [scope |-> s, account |-> IF s = "GLOBAL" THEN None ELSE a]

\* An absent scope has become ACCOUNT already; ACCOUNT needs an account.
Invoke(c, t) ==
  /\ pc[c] = "idle"
  /\ t \in Offered
  /\ tool' = [tool EXCEPT ![c] = t]
  /\ IF t = "kill_switch"
     THEN \E s \in Scopes, a \in Accounts \cup {None} :
            /\ s = "ACCOUNT" => a # None
            /\ target' = [target EXCEPT ![c] = Normalized(s, a)]
     ELSE UNCHANGED target
  /\ pc' = [pc EXCEPT ![c] = "accepted"]
  /\ UNCHANGED <<envVars, granted, client, token, expected, at, body, link,
                 session, work, deeds>>

\* A reason, account, order or flag is missing or of the wrong type.  The two
\* list tools take no required argument.
RefuseArguments(c, t) ==
  /\ pc[c] = "idle"
  /\ t \in Offered \ {"list_audit", "list_live_read"}
  /\ tool' = [tool EXCEPT ![c] = t]
  /\ pc' = [pc EXCEPT ![c] = "refused"]
  /\ UNCHANGED <<envVars, granted, client, target, token, expected, at, body,
                 link, session, work, deeds>>

-------------------------------------------------------------------------------
(* The client, its configuration, and the verified call.                    *)

\* Mutant of ConfigIsGood: the two tokens may be the same.
ConfigIsPresent == TRUE

\* ExecutorConfig: an admin token must differ from the service token.
ConfigIsGood == envToken # ServiceToken

OpenClient(c) ==
  /\ pc[c] = "accepted"
  /\ ConfigIsGood
  /\ token' = [token EXCEPT ![c] = envToken]
  /\ client' = [client EXCEPT ![c] = "open"]
  /\ pc' = [pc EXCEPT ![c] = "opened"]
  /\ UNCHANGED <<envVars, granted, tool, target, expected, at, body, link,
                 session, work, deeds>>

\* The tokens are equal, or the service URL or token is unset by now.
ConfigMissing(c) ==
  /\ pc[c] = "accepted"
  /\ pc' = [pc EXCEPT ![c] = "refused"]
  /\ UNCHANGED <<envVars, granted, tool, client, target, token, expected, at,
                 body, link, session, work, deeds>>

\* _verified_admin_call reads PM_EXEC_ADMIN_SUBJECT, after the token was read.
ReadSubject(c) ==
  /\ pc[c] = "opened"
  /\ IF envSubject = None
     THEN EndCall(c, "failed") /\ UNCHANGED expected
     ELSE /\ expected' = [expected EXCEPT ![c] = envSubject]
          /\ pc' = [pc EXCEPT ![c] = "ready"]
          /\ UNCHANGED client
  /\ UNCHANGED <<envVars, granted, tool, target, token, at, body, link, session,
                 work, deeds>>

\* Mutant of HeaderToken: the token is read from the environment each time.
HeaderTokenFresh(c) == IF envToken = ServiceToken THEN None ELSE envToken

\* _headers(admin=True): the configured admin token, never the service token.
HeaderToken(c) == token[c]

\* Mutant of Send: a missing token is formatted into the header.
SendUnchecked(c) ==
  /\ pc[c] = "ready"
  /\ body' = [body EXCEPT ![c] =
                 [step |-> Script[at[c]], token |-> HeaderToken(c),
                  target |-> IF at[c] = 2 THEN target[c] ELSE None]]
  /\ Transmit(c)
  /\ pc' = [pc EXCEPT ![c] = "waiting"]
  /\ UNCHANGED <<envVars, granted, tool, client, target, token, expected, at,
                 session, work, deeds>>

\* Without an admin token _headers raises PermissionError: nothing is sent.
Send(c) ==
  /\ pc[c] = "ready"
  /\ IF HeaderToken(c) = None
     THEN EndCall(c, "denied") /\ UNCHANGED <<body, link>>
     ELSE /\ body' = [body EXCEPT ![c] =
                        [step |-> Script[at[c]], token |-> HeaderToken(c),
                         target |-> IF at[c] = 2 THEN target[c] ELSE None]]
          /\ Transmit(c)
          /\ pc' = [pc EXCEPT ![c] = "waiting"]
          /\ UNCHANGED client
  /\ UNCHANGED <<envVars, granted, tool, target, token, expected, at, session,
                 work, deeds>>

\* Mutant of Verified: only the capabilities are looked at.
VerifiedAnyone(c) == Needs(tool[c]) \in session[c].caps

\* verify_admin_session: the expected subject, with the capability needed.
Verified(c) ==
  /\ session[c].subject = expected[c]
  /\ Needs(tool[c]) \in session[c].caps

\* A good reply: to the verification, or to the operation.
Receive(c) ==
  /\ pc[c] = "waiting"
  /\ ReplyIsGood(c)
  /\ Consume(c)
  /\ \/ /\ at[c] = 1 /\ Verified(c)
        /\ at' = [at EXCEPT ![c] = 2]
        /\ pc' = [pc EXCEPT ![c] = "ready"]
        /\ UNCHANGED client
     \/ /\ at[c] = 1 /\ ~Verified(c)
        /\ EndCall(c, "denied")
        /\ UNCHANGED at
     \/ /\ at[c] = 2
        /\ EndCall(c, "ok")
        /\ UNCHANGED at
  /\ UNCHANGED <<envVars, granted, tool, target, token, expected, body, session,
                 work, deeds>>

ReceiveFailure(c) ==
  /\ pc[c] = "waiting"
  /\ ReplyIsBad(c)
  /\ Consume(c)
  /\ EndCall(c, "failed")
  /\ UNCHANGED <<envVars, granted, tool, target, token, expected, at, body,
                 session, work, deeds>>

\* Mutant of GiveUp: an operation is asked for again after a transport error.
GiveUpRetries(c) ==
  /\ pc[c] = "waiting"
  /\ Consume(c)
  /\ pc' = [pc EXCEPT ![c] = "ready"]
  /\ UNCHANGED <<envVars, granted, tool, client, target, token, expected, at,
                 body, session, work, deeds>>

\* Mutant of GiveUp: httpx errors are caught and answered like the others.
GiveUpAnswers(c) ==
  /\ pc[c] = "waiting"
  /\ EndCall(c, "failed")
  /\ Abandon(c)
  /\ UNCHANGED <<envVars, granted, tool, target, token, expected, at, body,
                 session, work, deeds>>

\* Mutant of GiveUp: no timeout, a lost message is waited for.
GiveUpUnlessLost(c) ==
  /\ pc[c] = "waiting" /\ link[c] # "lost"
  /\ EndCall(c, "raised")
  /\ Abandon(c)
  /\ UNCHANGED <<envVars, granted, tool, target, token, expected, at, body,
                 session, work, deeds>>

\* httpx's own exceptions pass through _with_client, which closes the client.
GiveUp(c) ==
  /\ pc[c] = "waiting"
  /\ EndCall(c, "raised")
  /\ Abandon(c)
  /\ UNCHANGED <<envVars, granted, tool, target, token, expected, at, body,
                 session, work, deeds>>

-------------------------------------------------------------------------------
(* The executor, the network and the operator, external to this repository. *)

\* Who the token authenticates, and what that principal is granted just now.
ServeSession(c) ==
  /\ body[c].step = "verify"
  /\ LET s == OwnerOf[body[c].token] IN
     session' = [session EXCEPT ![c] =
       [subject |-> s, caps |-> {p[2] : p \in {g \in granted : g[1] = s}}]]
  /\ UNCHANGED deeds

\* The contract's request schemas: GLOBAL without an account, ACCOUNT with
\* one, no other scope.  Whether the executor checks the grant again is its
\* own affair: nothing here relies on it.
ServeOperation(c) ==
  /\ body[c].step = "operate"
  /\ body[c].target # None =>
       /\ body[c].target.scope \in {"ACCOUNT", "GLOBAL"}
       /\ body[c].target.scope = "GLOBAL" <=> body[c].target.account = None
  /\ deeds' = deeds \cup {[call |-> c, tool |-> tool[c], token |-> body[c].token,
                           target |-> body[c].target]}
  /\ UNCHANGED session

Serve(c) ==
  /\ link[c] = "request"
  /\ ServeSession(c) \/ ServeOperation(c)
  /\ work' = [work EXCEPT ![c] = Append(@, body[c].step)]
  /\ Respond(c)
  /\ UNCHANGED <<envVars, granted, handlerVars>>

Disturb(c) ==
  /\ Trouble(c)
  /\ UNCHANGED <<envVars, granted, handlerVars, session, work, deeds>>

RotateToken ==
  /\ envToken' \in (Tokens \cup {None}) \ {envToken}
  /\ UNCHANGED <<envSubject, granted, handlerVars, link, session, work, deeds>>

RotateSubject ==
  /\ envSubject' \in (Subjects \cup {None}) \ {envSubject}
  /\ UNCHANGED <<envToken, granted, handlerVars, link, session, work, deeds>>

\* A principal loses a capability.
Revoke ==
  /\ \E g \in granted : granted' = granted \ {g}
  /\ UNCHANGED <<envVars, handlerVars, link, session, work, deeds>>

HandlerStep(c) ==
  \/ OpenClient(c) \/ ConfigMissing(c) \/ ReadSubject(c) \/ Send(c)
  \/ Receive(c) \/ ReceiveFailure(c) \/ GiveUp(c)

Next ==
  \/ RotateToken \/ RotateSubject \/ Revoke
  \/ \E c \in Calls :
       \/ \E t \in Tools : Invoke(c, t) \/ RefuseArguments(c, t)
       \/ HandlerStep(c)
       \/ Serve(c) \/ Disturb(c)

Spec == Init /\ [][Next]_vars

\* A handler that can go on does, and every wait is bounded.
FairSpec == Spec /\ \A c \in Calls : WF_vars(HandlerStep(c))

-------------------------------------------------------------------------------
(* Properties.                                                              *)

TypeOK ==
  /\ envToken \in Tokens \cup {None}
  /\ envSubject \in Subjects \cup {None}
  /\ granted \subseteq Subjects \X Capabilities
  /\ tool \in [Calls -> Tools \cup {None}]
  /\ target \in [Calls -> Targets \cup {None}]
  /\ token \in [Calls -> Tokens \cup {None}]
  /\ expected \in [Calls -> Subjects \cup {None}]
  /\ at \in [Calls -> {1, 2}]
  /\ pc \in [Calls -> {"idle", "accepted", "opened", "ready", "waiting"} \cup Ended]
  /\ client \in [Calls -> {"none", "open", "closed"}]
  /\ body \in [Calls -> Requests \cup {None}]
  /\ link \in [Calls -> Links]
  /\ session \in [Calls -> Sessions \cup {None}]
  /\ work \in [Calls -> Seq({"verify", "operate"})]
  /\ deeds \subseteq [call: Calls, tool: Tools, token: Tokens,
                      target: Targets \cup {None}]

\* Whatever is rotated or revoked meanwhile, an admin operation is carried out
\* only under a token whose principal is the subject the call expected, after
\* the executor told that same call that this principal has the capability.
DeedsAreVerified ==
  \A d \in deeds :
    /\ session[d.call] # None
    /\ OwnerOf[d.token] = expected[d.call]
    /\ session[d.call].subject = expected[d.call]
    /\ Needs(d.tool) \in session[d.call].caps

\* A call answered PERMISSION_DENIED has had no operation carried out, and a
\* failed or raised one at most one; an ok one exactly its own.
AnswersMatchDeeds ==
  \A c \in Calls :
    LET mine == {d \in deeds : d.call = c} IN
    /\ pc[c] \in {"denied", "refused"} => mine = {}
    /\ pc[c] = "ok" => mine # {}
    /\ \A d \in mine : d.tool = tool[c] /\ d.target = target[c]
    /\ Len(work[c]) <= 2 /\ (mine # {} <=> work[c] = Script)

\* The service token never reaches an admin endpoint, even when the operator
\* sets both variables to the same token.
NoServiceTokenOnAdminPath ==
  \A c \in Calls : body[c] # None => body[c].token # ServiceToken

\* A kill-switch request on its way to the executor names an account exactly
\* when it is for one account: a global switch is never mistaken for it.
KillSwitchTargetsAreClear ==
  \A c \in Calls : link[c] = "request" /\ body[c].target # None =>
    /\ body[c].target.scope = "GLOBAL" => body[c].target.account = None
    /\ body[c].target.scope = "ACCOUNT" => body[c].target.account # None

\* Verification is never reused: between the moment a call is told what its
\* principal may do and its operation, neither token nor subject of that call
\* changes, though the environment may.
VerificationBindsTheCall ==
  [][\A c \in Calls : session[c] # None =>
       /\ token'[c] = token[c] /\ expected'[c] = expected[c]
       /\ session'[c] = session[c]
       /\ body'[c].token = body[c].token]_vars

\* Every admin handler that starts ends, whatever network, executor and
\* operator do.
EveryCallEnds ==
  \A c \in Calls : pc[c] = "accepted" ~> pc[c] \in Ended

\* An admin handler never goes back, whatever is rotated meanwhile: the client,
\* the subject, then twice a request and a reply, each step one fewer to its end.
\* Without this fairness would not be enough for EveryCallEnds.
StepsLeft(c) ==
  LET later == 2 * (2 - at[c]) IN
  CASE pc[c] = "accepted" -> later + 4
    [] pc[c] = "opened" -> later + 3
    [] pc[c] = "ready" -> later + 2
    [] pc[c] = "waiting" -> later + 1
    [] OTHER -> 0
HandlersOnlyAdvance ==
  [][\A c \in Calls : pc[c] # "idle" =>
       IF pc'[c] = pc[c] THEN StepsLeft(c)' = StepsLeft(c)
                         ELSE StepsLeft(c)' < StepsLeft(c)]_vars

\* How far each call is, tied to its client, its connection, the work done for
\* it and what it has been told: the inductive strengthening of the above.
Progress(c) ==
  LET n == Len(work[c]) IN
  /\ pc[c] = "idle" <=> tool[c] = None
  /\ pc[c] \in {"idle", "accepted", "refused"} =>
       client[c] = "none" /\ body[c] = None /\ token[c] = None /\ expected[c] = None
  /\ pc[c] = "opened" => client[c] = "open" /\ body[c] = None /\ expected[c] = None
  /\ pc[c] \in {"ready", "waiting"} => client[c] = "open" /\ expected[c] # None
  /\ pc[c] \in Ended \ {"refused"} => client[c] = "closed"
  /\ pc[c] # "waiting" /\ link[c] # "quiet" => pc[c] = "raised" /\ link[c] = "request"
  /\ pc[c] = "waiting" => link[c] # "quiet"
  /\ pc[c] = "ready" \/ link[c] = "request" => n = at[c] - 1
  /\ link[c] \in {"done", "garbled"} => n = at[c]
  /\ link[c] # "quiet" => body[c] # None /\ body[c].step = Script[at[c]]
  /\ body[c] = None => n = 0 /\ at[c] = 1 /\ link[c] = "quiet"
  /\ body[c] # None => body[c].token = token[c] /\ token[c] # None
  /\ token[c] # ServiceToken
  /\ at[c] - 1 <= n /\ n <= at[c]
  /\ \A i \in 1..n : work[c][i] = Script[i]
  /\ session[c] = None <=> n = 0
  /\ session[c] # None => session[c].subject = OwnerOf[token[c]]
  /\ at[c] = 2 => Verified(c)
  /\ pc[c] = "denied" => n < 2
  /\ pc[c] = "ok" => n = 2
  /\ body[c] # None /\ body[c].step = "operate" => body[c].target = target[c]

DeedInv ==
  /\ \A d \in deeds : /\ work[d.call] = Script /\ d.token = token[d.call]
                      /\ d.tool = tool[d.call] /\ d.target = target[d.call]
  /\ \A c \in Calls : work[c] = Script => \E d \in deeds : d.call = c

FlowInv == (\A c \in Calls : Progress(c)) /\ DeedInv

-------------------------------------------------------------------------------
(* What is promised of every tool.                                          *)

phaseBar ==
  [c \in Calls |-> CASE pc[c] \in {"accepted", "opened", "ready", "waiting"} -> "running"
                     [] pc[c] = "denied" -> "failed"
                     [] OTHER -> pc[c]]
goalBar == [c \in Calls |-> IF client[c] = "none" THEN 0 ELSE 2]
doneBar == [c \in Calls |-> Len(work[c])]
owedBar == [c \in Calls |-> pc[c] = "raised" /\ link[c] = "request"]

Promise == INSTANCE ToolCall WITH
  MaxGoal <- 2, phase <- phaseBar, goal <- goalBar, done <- doneBar, owed <- owedBar

\* An admin call, too, is a call as ToolCall describes it.
ImplementsToolCall == Promise!Spec
===============================================================================
