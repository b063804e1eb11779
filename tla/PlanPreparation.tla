---------------------------- MODULE PlanPreparation ----------------------------
(***************************************************************************)
(* The plan-preparation tools of the Hermes plugin.                        *)
(*                                                                         *)
(* Four tools each make one request of the executor (normalize an intent,  *)
(* capture a snapshot, evaluate a decision, compile a plan); a fifth,      *)
(* polymarket_prepare_execution_plan, makes all four on one client, feeding*)
(* each request with the replies to the earlier ones.  Calls interleave at *)
(* the executor; the network may lose a request or a reply, or deliver a   *)
(* request after the caller has timed out.                                 *)
(*                                                                         *)
(* An object the executor makes for call c is named c: a call makes at     *)
(* most one object of a kind (see CarriedOutInOrder).                      *)
(***************************************************************************)
EXTENDS Naturals, Sequences, Transport

CONSTANTS Offered,     \* the tools the agent uses, a subset of Tools
          Approvals,   \* the approval receipts the agent may hand over
          MaxTime,     \* bound on the clock
          None         \* a field that is absent

Steps == {"normalize", "snapshot", "decision", "compile"}
Tools == Steps \cup {"prepare"}
Scopes == {"SHADOW", "CONTROLLED_CANARY", "LIVE_SUBMIT"}

ASSUME OfferedAssumption == Offered \subseteq Tools
ASSUME ApprovalsAssumption ==
  Approvals \subseteq [scope: Scopes, from: Nat, until: Nat]
ASSUME MaxTimeAssumption == MaxTime \in Nat
ASSUME NoneAssumption ==
  None \notin Calls /\ None \notin Approvals /\ None \notin Tools

VARIABLES now,         \* the clock
          tool,        \* the tool each call invokes
          at,          \* the position of its current request in the script
          local,       \* the objects it holds: arguments, then replies
          appr,        \* the approval it was handed
          checkedAt,   \* when it validated that approval
          body,        \* the body of its latest request
          norms, snaps, decs, plans,  \* the executor's store
          work         \* the steps the executor carried out for each call

handlerVars == <<tool, pc, client, at, local, appr, checkedAt, body>>
storeVars == <<norms, snaps, decs, plans, work>>
vars == <<now, handlerVars, link, storeVars>>

Ended == {"ok", "refused", "failed", "raised"}

\* The requests a tool makes, in order.
Script(t) ==
  IF t = "prepare" THEN <<"normalize", "snapshot", "decision", "compile">>
                   ELSE <<t>>

Held == [norm: Calls \cup {None}, snap: Calls \cup {None}, dec: Calls \cup {None}]
Nothing == [norm |-> None, snap |-> None, dec |-> None]

Bodies ==
  [step: Steps, norm: Calls \cup {None}, snap: Calls \cup {None},
   dec: Calls \cup {None}, appr: Approvals \cup {None}]

TypeOK ==
  /\ now \in 0..MaxTime
  /\ tool \in [Calls -> Tools \cup {None}]
  /\ pc \in [Calls -> {"idle", "accepted", "ready", "waiting"} \cup Ended]
  /\ client \in [Calls -> {"none", "open", "closed"}]
  /\ at \in [Calls -> 1..4]
  /\ local \in [Calls -> Held]
  /\ appr \in [Calls -> Approvals \cup {None}]
  /\ checkedAt \in [Calls -> 0..MaxTime]
  /\ body \in [Calls -> Bodies \cup {None}]
  /\ link \in [Calls -> Links]
  /\ norms \subseteq Calls
  /\ snaps \subseteq [id: Calls, norm: Calls]
  /\ decs \subseteq [id: Calls, norm: Calls, snap: Calls, madeAt: 0..MaxTime]
  /\ plans \subseteq [id: Calls, norm: Calls, snap: Calls, dec: Calls,
                      appr: Approvals]
  /\ work \in [Calls -> Seq(Steps)]

Init ==
  /\ now = 0
  /\ tool = [c \in Calls |-> None]
  /\ pc = [c \in Calls |-> "idle"]
  /\ client = [c \in Calls |-> "none"]
  /\ at = [c \in Calls |-> 1]
  /\ local = [c \in Calls |-> Nothing]
  /\ appr = [c \in Calls |-> None]
  /\ checkedAt = [c \in Calls |-> 0]
  /\ body = [c \in Calls |-> None]
  /\ link = [c \in Calls |-> "quiet"]
  /\ norms = {} /\ snaps = {} /\ decs = {} /\ plans = {}
  /\ work = [c \in Calls |-> << >>]

-------------------------------------------------------------------------------
(* Invocation: the handler validates its arguments before it has a client.  *)

TakesApproval(t) == t \in {"compile", "prepare"}

\* The objects an agent hands to a tool.  It may mix objects of several
\* calls, and name objects that do not exist.
Arguments(t) ==
  {h \in Held : /\ (h.norm # None) <=> (t \in {"snapshot", "decision", "compile"})
                /\ (h.snap # None) <=> (t \in {"decision", "compile"})
                /\ (h.dec # None) <=> (t = "compile")}

\* Mutant of ValidNow: expiry is compared with approved_at only.
ValidOnce(a) == a.from <= now /\ a.from < a.until

\* ApprovalReceipt's validator: the window contains the present moment.
ValidNow(a) == a.from <= now /\ now < a.until /\ a.from < a.until

\* What a handler accepts: a receipt that validates and is not LIVE_SUBMIT.
Acceptable(a) == ValidNow(a) /\ a.scope # "LIVE_SUBMIT"

Invoke(c, t) ==
  /\ pc[c] = "idle"
  /\ t \in Offered
  /\ tool' = [tool EXCEPT ![c] = t]
  /\ \E h \in Arguments(t), a \in IF TakesApproval(t) THEN Approvals ELSE {None} :
       /\ TakesApproval(t) => Acceptable(a)
       /\ local' = [local EXCEPT ![c] = h]
       /\ appr' = [appr EXCEPT ![c] = a]
  /\ checkedAt' = [checkedAt EXCEPT ![c] = now]
  /\ pc' = [pc EXCEPT ![c] = "accepted"]
  /\ UNCHANGED <<now, client, at, body, link, storeVars>>

\* A missing or malformed argument, or an approval that is not acceptable.
\* The malformed argument is always possible, so the approval adds nothing.
RefuseArguments(c, t) ==
  /\ pc[c] = "idle"
  /\ t \in Offered
  /\ tool' = [tool EXCEPT ![c] = t]
  /\ pc' = [pc EXCEPT ![c] = "refused"]
  /\ UNCHANGED <<now, client, at, local, appr, checkedAt, body, link, storeVars>>

-------------------------------------------------------------------------------
(* _with_client: one client per call, closed however the call ends.         *)

\* from_env reads the environment, which is whatever the operator has put
\* there by then: a client is opened or the call ends with a CONFIG_ error.
OpenClient(c) ==
  /\ pc[c] = "accepted"
  /\ client' = [client EXCEPT ![c] = "open"]
  /\ pc' = [pc EXCEPT ![c] = "ready"]
  /\ UNCHANGED <<now, tool, at, local, appr, checkedAt, body, link, storeVars>>

ConfigMissing(c) ==
  /\ pc[c] = "accepted"
  /\ pc' = [pc EXCEPT ![c] = "refused"]
  /\ UNCHANGED <<now, tool, client, at, local, appr, checkedAt, body, link, storeVars>>

\* Mutant of Request: compile_plan forgets the approval.
RequestUnapproved(c) ==
  LET s == Script(tool[c])[at[c]] IN
  [step |-> s, norm |-> IF s = "normalize" THEN None ELSE local[c].norm,
   snap |-> IF s \in {"decision", "compile"} THEN local[c].snap ELSE None,
   dec |-> IF s = "compile" THEN local[c].dec ELSE None, appr |-> None]

\* The body each client method posts.
Request(c) ==
  LET s == Script(tool[c])[at[c]] IN
  [step |-> s,
   norm |-> IF s = "normalize" THEN None ELSE local[c].norm,
   snap |-> IF s \in {"decision", "compile"} THEN local[c].snap ELSE None,
   dec  |-> IF s = "compile" THEN local[c].dec ELSE None,
   appr |-> IF s = "compile" THEN appr[c] ELSE None]

Send(c) ==
  /\ pc[c] = "ready"
  /\ body' = [body EXCEPT ![c] = Request(c)]
  /\ Transmit(c)
  /\ pc' = [pc EXCEPT ![c] = "waiting"]
  /\ UNCHANGED <<now, tool, client, at, local, appr, checkedAt, storeVars>>

\* Mutant of Learn: the snapshot is looked up instead of taken from the reply.
LearnAny(h, s, c) ==
  [norm |-> IF s = "normalize" THEN c ELSE h.norm,
   snap |-> IF s = "snapshot" THEN (CHOOSE x \in snaps : TRUE).id ELSE h.snap,
   dec  |-> IF s = "decision" THEN c ELSE h.dec]

\* The object a 2xx reply names becomes one of the handler's own.
Learn(h, s, c) ==
  [norm |-> IF s = "normalize" THEN c ELSE h.norm,
   snap |-> IF s = "snapshot" THEN c ELSE h.snap,
   dec  |-> IF s = "decision" THEN c ELSE h.dec]

\* A 2xx reply that validates: the next request, or the answer.
Receive(c) ==
  /\ pc[c] = "waiting"
  /\ ReplyIsGood(c)
  /\ Consume(c)
  /\ local' = [local EXCEPT ![c] = Learn(@, body[c].step, c)]
  /\ \/ /\ at[c] < Len(Script(tool[c]))
        /\ at' = [at EXCEPT ![c] = @ + 1]
        /\ pc' = [pc EXCEPT ![c] = "ready"]
        /\ UNCHANGED client
     \/ /\ at[c] = Len(Script(tool[c]))
        /\ EndCall(c, "ok")
        /\ UNCHANGED at
  /\ UNCHANGED <<now, tool, appr, checkedAt, body, storeVars>>

\* A status of 400 or more, a body that is not JSON or does not validate:
\* the call ends with an error answer and no further request.
ReceiveFailure(c) ==
  /\ pc[c] = "waiting"
  /\ ReplyIsBad(c)
  /\ Consume(c)
  /\ EndCall(c, "failed")
  /\ UNCHANGED <<now, tool, at, local, appr, checkedAt, body, storeVars>>

\* Mutant of GiveUp: the request is sent again after a transport error.
GiveUpRetries(c) ==
  /\ pc[c] = "waiting"
  /\ pc' = [pc EXCEPT ![c] = "ready"]
  /\ Consume(c)
  /\ UNCHANGED <<now, tool, client, at, local, appr, checkedAt, body, storeVars>>

\* Mutant of GiveUp: httpx errors are caught and answered like the others.
GiveUpAnswers(c) ==
  /\ pc[c] = "waiting"
  /\ EndCall(c, "failed")
  /\ Abandon(c)
  /\ UNCHANGED <<now, tool, at, local, appr, checkedAt, body, storeVars>>

\* Mutant of GiveUp: no timeout, a lost message is waited for.
GiveUpUnlessLost(c) ==
  /\ pc[c] = "waiting" /\ link[c] # "lost"
  /\ EndCall(c, "raised")
  /\ Abandon(c)
  /\ UNCHANGED <<now, tool, at, local, appr, checkedAt, body, storeVars>>

\* The connection breaks or timeout_seconds pass.  httpx's exception is none
\* of those _with_client catches: the client is closed and the call raises.
\* A request already under way may still reach the executor.
GiveUp(c) ==
  /\ pc[c] = "waiting"
  /\ EndCall(c, "raised")
  /\ Abandon(c)
  /\ UNCHANGED <<now, tool, at, local, appr, checkedAt, body, storeVars>>

-------------------------------------------------------------------------------
(* The executor and the network, external to this repository.               *)

\* The executor loads what a request names from its own store, verifies that
\* a decision's snapshot belongs to its intent, and stores what it makes.
StoreNormalized(c) ==
  /\ body[c].step = "normalize"
  /\ norms' = norms \cup {c}
  /\ UNCHANGED <<snaps, decs, plans>>

StoreSnapshot(c) ==
  /\ body[c].step = "snapshot"
  /\ body[c].norm \in norms
  /\ snaps' = snaps \cup {[id |-> c, norm |-> body[c].norm]}
  /\ UNCHANGED <<norms, decs, plans>>

StoreDecision(c) ==
  /\ body[c].step = "decision"
  /\ body[c].norm \in norms
  /\ [id |-> body[c].snap, norm |-> body[c].norm] \in snaps
  /\ decs' = decs \cup {[id |-> c, norm |-> body[c].norm, snap |-> body[c].snap,
                         madeAt |-> now]}
  /\ UNCHANGED <<norms, snaps, plans>>

StorePlan(c) ==
  /\ body[c].step = "compile"
  /\ body[c].norm \in norms
  /\ \E s \in snaps : s.id = body[c].snap
  /\ \E d \in decs : d.id = body[c].dec
  /\ plans' = plans \cup {[id |-> c, norm |-> body[c].norm, snap |-> body[c].snap,
                           dec |-> body[c].dec, appr |-> body[c].appr]}
  /\ UNCHANGED <<norms, snaps, decs>>

Serve(c) ==
  /\ link[c] = "request"
  /\ StoreNormalized(c) \/ StoreSnapshot(c) \/ StoreDecision(c) \/ StorePlan(c)
  /\ work' = [work EXCEPT ![c] = Append(@, body[c].step)]
  /\ Respond(c)
  /\ UNCHANGED <<now, handlerVars>>

Disturb(c) ==
  /\ Trouble(c)
  /\ UNCHANGED <<now, handlerVars, storeVars>>

Tick ==
  /\ now < MaxTime
  /\ now' = now + 1
  /\ UNCHANGED <<handlerVars, link, storeVars>>

\* What the adapter itself does once a handler has started.
HandlerStep(c) ==
  \/ OpenClient(c) \/ ConfigMissing(c) \/ Send(c)
  \/ Receive(c) \/ ReceiveFailure(c) \/ GiveUp(c)

Next ==
  \/ Tick
  \/ \E c \in Calls :
       \/ \E t \in Tools : Invoke(c, t) \/ RefuseArguments(c, t)
       \/ HandlerStep(c)
       \/ Serve(c) \/ Disturb(c)

Spec == Init /\ [][Next]_vars

\* A handler that can go on does: it is synchronous Python, and every wait is
\* bounded by timeout_seconds > 0.  Nothing is asked of network or executor.
FairSpec == Spec /\ \A c \in Calls : WF_vars(HandlerStep(c))

-------------------------------------------------------------------------------
(* Properties.                                                              *)

\* The executor carries out, for each call, a prefix of the tool's script and
\* each step at most once: no step is skipped, repeated or taken out of order,
\* even when replies are lost or a request arrives after the caller gave up.
CarriedOutInOrder ==
  \A c \in Calls : tool[c] # None =>
    /\ Len(work[c]) <= Len(Script(tool[c]))
    /\ \A i \in 1..Len(work[c]) : work[c][i] = Script(tool[c])[i]

\* A tool answers ok only when the executor carried out its whole script.
OkMeansDone ==
  \A c \in Calls : pc[c] = "ok" => work[c] = Script(tool[c])

\* A refused call has left nothing behind: no client, no request, no work.
RefusedLeavesNoTrace ==
  \A c \in Calls : pc[c] = "refused" =>
    client[c] = "none" /\ link[c] = "quiet" /\ work[c] = << >>

\* Whoever compiled it, a stored plan rests on an approval that is not for
\* live submission and whose window contained the moment the handler
\* checked it, before any request of that call was sent.
PlansRestOnCheckedApprovals ==
  \A p \in plans :
    /\ p.appr.scope # "LIVE_SUBMIT"
    /\ p.appr.from <= checkedAt[p.id]
    /\ checkedAt[p.id] < p.appr.until

\* The plan of a prepare call is made from that call's own intent, snapshot
\* and decision, bound to each other in the executor's store, however many
\* calls are under way.
PreparedPlansAreCoherent ==
  \A p \in plans : tool[p.id] = "prepare" =>
    /\ p.norm = p.id /\ p.norm \in norms
    /\ p.snap = p.id /\ [id |-> p.snap, norm |-> p.norm] \in snaps
    /\ \E d \in decs : /\ d.id = p.dec /\ p.dec = p.id
                       /\ d.norm = p.norm /\ d.snap = p.snap
    /\ p.appr = appr[p.id]

\* A client is open exactly while its handler runs; only through an open
\* client does a request get under way.
ClientsAreNotLeaked ==
  \A c \in Calls :
    /\ client[c] = "open" <=> pc[c] \in {"ready", "waiting"}
    /\ link[c] \in {"done", "error", "garbled", "lost"} => client[c] = "open"

\* A call that has answered is settled: from then on the executor does no
\* more work for it.  Only a call that raised may be worked for later, and
\* then for at most the one request it had under way.
AnsweredMeansSettled ==
  [][\A c \in Calls :
       /\ pc[c] \in {"ok", "refused", "failed"} =>
            work'[c] = work[c] /\ pc'[c] = pc[c]
       /\ pc[c] = "raised" /\ work'[c] # work[c] =>
            /\ link[c] = "request" /\ link'[c] = "quiet"
            /\ Len(work'[c]) = Len(work[c]) + 1]_vars

\* Every handler that starts ends, whatever network and executor do.
EveryCallEnds ==
  \A c \in Calls : pc[c] = "accepted" ~> pc[c] \in Ended

\* A handler never goes back: the client, then one request and one reply for
\* each entry of its script, and each step is one fewer to its end.  Nothing that
\* anyone else does, and no loss, adds to them.  Without this fairness would not
\* be enough for EveryCallEnds.
StepsLeft(c) ==
  LET later == 2 * (Len(Script(tool[c])) - at[c]) IN
  CASE pc[c] = "accepted" -> later + 3
    [] pc[c] = "ready" -> later + 2
    [] pc[c] = "waiting" -> later + 1
    [] OTHER -> 0
HandlersOnlyAdvance ==
  [][\A c \in Calls : pc[c] # "idle" =>
       IF pc'[c] = pc[c] THEN StepsLeft(c)' = StepsLeft(c)
                         ELSE StepsLeft(c)' < StepsLeft(c)]_vars

\* How far each call is, tied to its client, its connection and the work the
\* executor has done for it: the inductive strengthening of the four
\* properties about single calls above.
Progress(c) ==
  LET n == Len(work[c]) IN
  /\ pc[c] = "idle" <=> tool[c] = None
  /\ pc[c] \in {"idle", "accepted", "refused"} =>
       client[c] = "none" /\ link[c] = "quiet" /\ n = 0 /\ at[c] = 1
  /\ pc[c] = "ready" => client[c] = "open" /\ link[c] = "quiet" /\ n = at[c] - 1
  /\ pc[c] = "waiting" =>
       /\ client[c] = "open" /\ link[c] # "quiet"
       /\ link[c] = "request" => n = at[c] - 1
       /\ link[c] \in {"done", "garbled"} => n = at[c]
       /\ link[c] \in {"error", "lost"} => n = at[c] - 1 \/ n = at[c]
  /\ pc[c] \in {"ok", "failed"} => client[c] = "closed" /\ link[c] = "quiet"
  /\ pc[c] = "raised" =>
       /\ client[c] = "closed" /\ link[c] \in {"quiet", "request"}
       /\ link[c] = "request" => n = at[c] - 1
  /\ pc[c] # "idle" =>
       /\ at[c] <= Len(Script(tool[c])) /\ n <= Len(Script(tool[c]))
       /\ \A i \in 1..n : work[c][i] = Script(tool[c])[i]
       /\ pc[c] = "ok" => n = Len(Script(tool[c]))
  /\ pc[c] \notin {"idle", "refused"} /\ TakesApproval(tool[c]) => appr[c] # None
  /\ link[c] # "quiet" => body[c] = Request(c)

FlowInv == \A c \in Calls : Progress(c)

\* The order docs/ARCHITECTURE.md gives for the flow: the approval comes after
\* the decision it is for, so it is not older than that decision.
ApprovalFollowsDecision ==
  \A p \in plans : \A d \in decs : d.id = p.dec => d.madeAt <= p.appr.from

-------------------------------------------------------------------------------
(* What is promised of every tool: each call as ToolCall describes it.      *)

phaseBar ==
  [c \in Calls |-> IF pc[c] \in {"accepted", "ready", "waiting"}
                   THEN "running" ELSE pc[c]]
goalBar ==
  [c \in Calls |-> IF client[c] = "none" THEN 0 ELSE Len(Script(tool[c]))]
doneBar == [c \in Calls |-> Len(work[c])]
owedBar == [c \in Calls |-> pc[c] = "raised" /\ link[c] = "request"]

Promise == INSTANCE ToolCall WITH
  MaxGoal <- 4, phase <- phaseBar, goal <- goalBar, done <- doneBar, owed <- owedBar

\* Each call is a call as ToolCall describes it.
ImplementsToolCall == Promise!Spec
===============================================================================
