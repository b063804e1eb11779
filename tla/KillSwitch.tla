------------------------------- MODULE KillSwitch -------------------------------
(***************************************************************************)
(* What setting a kill switch through the adapter lets an operator rely    *)
(* on.  AdminOperations says who may; here a call starts once it has been  *)
(* verified, and the executor's switches are followed through late and     *)
(* lost requests, contradictory calls and a restart.                       *)
(*                                                                         *)
(* set_kill_switch carries neither an idempotency key nor a sequence       *)
(* number, and the handler hands the executor's receipt on as it is,       *)
(* provided it validates: it is not compared with what was asked.          *)
(***************************************************************************)
EXTENDS Naturals, Transport

CONSTANTS Accounts,
          Blank,     \* an account name of spaces, which the handler lets pass
          Scopes,    \* the scopes callers use, of ACCOUNT, GLOBAL and OTHER
          None

ASSUME SwitchAssumption ==
  /\ Scopes \subseteq {"ACCOUNT", "GLOBAL", "OTHER"}
  /\ Blank \notin Accounts /\ None \notin Accounts /\ Blank # None

Named == Accounts \cup {Blank}
Targets == [scope: Scopes \cup {"GLOBAL"}, account: Named \cup {None}]
Settings == [on: BOOLEAN, version: Nat]
Receipts == [target: Targets, on: BOOLEAN, version: Nat, persisted: BOOLEAN]

ASSUME NoneAssumption == None \notin Targets /\ None \notin Receipts

VARIABLES target,    \* what each call is about
          setting,   \* what it wants: on or off
          answered,  \* the calls that had answered when it was made
          applied,   \* the state_version at which it took effect, 0 if never
          receipt,   \* the receipt it was answered with
          switches,  \* the executor's switches: target to setting and version
          saved,     \* those that would survive a restart
          version    \* the last state_version given out

callVars == <<pc, client, target, setting, answered>>
vars == <<callVars, link, applied, receipt, switches, saved, version>>

Answered == {"ok", "failed"}
Off == [on |-> FALSE, version |-> 0]

Init ==
  /\ pc = [c \in Calls |-> "idle"]
  /\ client = [c \in Calls |-> "open"]
  /\ link = [c \in Calls |-> "quiet"]
  /\ target = [c \in Calls |-> None]
  /\ setting = [c \in Calls |-> FALSE]
  /\ answered = [c \in Calls |-> {}]
  /\ applied = [c \in Calls |-> 0]
  /\ receipt = [c \in Calls |-> None]
  /\ switches = [t \in Targets |-> Off]
  /\ saved = [t \in Targets |-> Off]
  /\ version = 0

-------------------------------------------------------------------------------
(* The handler and the client.                                              *)

\* Mutant of Normalized: a global switch is for an account named GLOBAL.
NormalizedSentinel(s, a) ==
  [scope |-> s, account |-> IF s = "GLOBAL" THEN "GLOBAL" ELSE a]

\* handle_admin_kill_switch: ACCOUNT needs an account, of which only that it
\* is not empty is checked; GLOBAL drops the account.
Normalized(s, a) == [scope |-> s, account |-> IF s = "GLOBAL" THEN None ELSE a]

\* Mutant of Body: the flag is left to the executor's default.
BodyDefault(c) == [target |-> target[c], on |-> TRUE]

\* set_kill_switch's request.
Body(c) == [target |-> target[c], on |-> setting[c]]

Ask(c) ==
  /\ pc[c] = "idle"
  /\ \E s \in Scopes, a \in Named \cup {None}, on \in BOOLEAN :
       /\ s = "ACCOUNT" => a # None
       /\ target' = [target EXCEPT ![c] = Normalized(s, a)]
       /\ setting' = [setting EXCEPT ![c] = on]
  /\ answered' = [answered EXCEPT ![c] = {d \in Calls : pc[d] \in Answered}]
  /\ Transmit(c)
  /\ pc' = [pc EXCEPT ![c] = "waiting"]
  /\ UNCHANGED <<client, applied, receipt, switches, saved, version>>

\* Mutant of Validates: the receipt is taken as it comes.
ValidatesAny(r) == r = r

\* KillSwitchReceipt: a scope of the two, an account that is not blank for
\* ACCOUNT and no account for GLOBAL.
Validates(r) ==
  /\ r.target.scope \in {"ACCOUNT", "GLOBAL"}
  /\ r.target.scope = "ACCOUNT" => r.target.account \in Accounts
  /\ r.target.scope = "GLOBAL" => r.target.account = None

Receive(c) ==
  /\ pc[c] = "waiting"
  /\ ReplyIsGood(c) /\ Validates(receipt[c])
  /\ Consume(c)
  /\ EndCall(c, "ok")
  /\ UNCHANGED <<target, setting, answered, applied, receipt, switches, saved,
                 version>>

\* An error status, or a reply that is no valid receipt.
ReceiveFailure(c) ==
  /\ pc[c] = "waiting"
  /\ ReplyIsBad(c) \/ (ReplyIsGood(c) /\ ~Validates(receipt[c]))
  /\ Consume(c)
  /\ EndCall(c, "failed")
  /\ UNCHANGED <<target, setting, answered, applied, receipt, switches, saved,
                 version>>

\* Mutant of GiveUp: httpx errors are answered like the others.
GiveUpAnswers(c) ==
  /\ pc[c] = "waiting"
  /\ EndCall(c, "failed")
  /\ Abandon(c)
  /\ UNCHANGED <<target, setting, answered, applied, receipt, switches, saved,
                 version>>

GiveUp(c) ==
  /\ pc[c] = "waiting"
  /\ EndCall(c, "raised")
  /\ Abandon(c)
  /\ UNCHANGED <<target, setting, answered, applied, receipt, switches, saved,
                 version>>

-------------------------------------------------------------------------------
(* The executor, external to this repository, as its contract describes it. *)

\* It may refuse a scope or an account, or take it as it is: nothing here relies
\* on its being strict.  Whether a change survives a restart is in the receipt.
Serve(c) ==
  LET t == Body(c).target
      now == [on |-> Body(c).on, version |-> version + 1] IN
  /\ link[c] = "request"
  /\ version' = version + 1
  /\ applied' = [applied EXCEPT ![c] = version + 1]
  /\ switches' = [switches EXCEPT ![t] = now]
  /\ \E p \in BOOLEAN :
       /\ saved' = IF p THEN [saved EXCEPT ![t] = now] ELSE saved
       /\ receipt' = [receipt EXCEPT ![c] =
            [target |-> t, on |-> now.on, version |-> now.version, persisted |-> p]]
  /\ Respond(c)
  /\ UNCHANGED callVars

Disturb(c) ==
  /\ Trouble(c)
  /\ UNCHANGED <<callVars, applied, receipt, switches, saved, version>>

\* The executor restarts with what it had persisted.
Restart ==
  /\ switches # saved
  /\ switches' = saved
  /\ UNCHANGED <<callVars, link, applied, receipt, saved, version>>

HandlerStep(c) == Receive(c) \/ ReceiveFailure(c) \/ GiveUp(c)

Next ==
  \/ Restart
  \/ \E c \in Calls : Ask(c) \/ HandlerStep(c) \/ Serve(c) \/ Disturb(c)

Spec == Init /\ [][Next]_vars

-------------------------------------------------------------------------------
(* Properties.                                                              *)

TypeOK ==
  /\ pc \in [Calls -> {"idle", "waiting", "ok", "failed", "raised"}]
  /\ client \in [Calls -> {"open", "closed"}]
  /\ link \in [Calls -> Links]
  /\ target \in [Calls -> Targets \cup {None}]
  /\ setting \in [Calls -> BOOLEAN]
  /\ answered \in [Calls -> SUBSET Calls]
  /\ applied \in [Calls -> Nat]
  /\ receipt \in [Calls -> Receipts \cup {None}]
  /\ switches \in [Targets -> Settings]
  /\ saved \in [Targets -> Settings]
  /\ version \in Nat

\* An answered call is over: whatever is made after its answer takes effect
\* after it, so only a concurrent call or one that raised can overturn a later
\* one.  A failed call that was not applied by then never is.
AnsweredCallsAreOver ==
  \A c \in Calls : \A d \in answered[c] :
    applied[c] # 0 => applied[d] < applied[c]

\* An answer of ok is about a real account or everything, and for as long as
\* no other request changes the target it is in force, across restarts if the
\* receipt says persisted.
OkIsInForce ==
  \A c \in Calls : pc[c] = "ok" =>
    LET t == target[c]  r == receipt[c] IN
    /\ t \in [scope: {"GLOBAL"}, account: {None}] \cup [scope: {"ACCOUNT"}, account: Accounts]
    /\ r.target = t /\ r.version = applied[c]
    /\ r.persisted => switches[t].version >= applied[c]
    /\ switches[t].version = applied[c] => switches[t].on = setting[c]

\* An operator who asks again for the same until it is answered ok, while
\* nobody asks for the opposite, has it, though earlier attempts may arrive
\* late: later arrivals and restarts leave a persisted answer in force.
AskingAgainIsSafe ==
  \A c \in Calls :
    /\ pc[c] = "ok" /\ receipt[c].persisted
    /\ \A d \in Calls : target[d] = target[c] => setting[d] = setting[c]
    => switches[target[c]].on = setting[c]

\* The strengthening: how a call, its request and the switches agree.
CallFlow(c) ==
  /\ target[c] = None <=> pc[c] = "idle"
  /\ pc[c] = "waiting" => link[c] # "quiet"
  /\ pc[c] # "waiting" /\ link[c] # "quiet" => pc[c] = "raised" /\ link[c] = "request"
  /\ link[c] = "request" \/ pc[c] = "idle" => applied[c] = 0
  /\ link[c] \in {"done", "garbled"} \/ pc[c] = "ok" => applied[c] # 0
  /\ applied[c] <= version
  /\ applied[c] = 0 <=> receipt[c] = None
  /\ applied[c] # 0 =>
       receipt[c] = [target |-> target[c], on |-> setting[c], version |-> applied[c],
                     persisted |-> receipt[c].persisted]
  /\ pc[c] = "ok" => Validates(receipt[c])
  /\ \A d \in answered[c] : pc[d] \in Answered
  /\ c \notin answered[c]

\* What a switch is set to, now or after a restart, some call asked for, and a
\* persisted change is never lost to an older one.
InOrder(store, t) ==
  /\ store[t].version <= version
  /\ \/ store[t] = Off
     \/ \E c \in Calls : /\ target[c] = t /\ applied[c] = store[t].version
                         /\ store[t].version # 0 /\ setting[c] = store[t].on
  /\ \A c \in Calls :
       target[c] = t /\ applied[c] # 0 /\ receipt[c].persisted =>
         store[t].version >= applied[c]

FlowInv ==
  /\ \A c \in Calls : CallFlow(c)
  /\ \A c, d \in Calls : applied[c] # 0 /\ applied[c] = applied[d] => c = d
  /\ \A t \in Targets : InOrder(switches, t) /\ InOrder(saved, t)
===============================================================================
