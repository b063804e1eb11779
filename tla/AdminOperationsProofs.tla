------------------------- MODULE AdminOperationsProofs -------------------------
(***************************************************************************)
(* What AdminOperations guarantees for any number of calls, any tokens,    *)
(* principals, grants and tools, and whatever the operator rotates.        *)
(***************************************************************************)
EXTENDS AdminOperations, TLAPS

-------------------------------------------------------------------------------
(* The two steps of every admin call.                                       *)

Kinds == {"verify", "operate"}

LEMMA ScriptShape ==
  /\ Script \in Seq(Kinds) /\ Len(Script) = 2
  /\ Script[1] = "verify" /\ Script[2] = "operate"
BY DEF Script, Kinds

LEMMA NeedsShape ==
  ASSUME NEW t \in Tools
  PROVE  Needs(t) \in Capabilities
BY DEF Tools, Needs, Capabilities

\* A sequence of two kinds with the script's elements is the script.
LEMMA WholeScript ==
  ASSUME NEW w \in Seq(Kinds)
  PROVE  w = Script <=> Len(w) = 2 /\ \A i \in 1..2 : w[i] = Script[i]
<1>. DEFINE S == Script
<1>1. S \in Seq(Kinds) /\ Len(S) = 2
  BY ScriptShape
<1>. HIDE DEF S
<1>2. w = S <=> Len(w) = 2 /\ \A i \in 1..2 : w[i] = S[i]
  BY <1>1
<1>. QED
  BY <1>2 DEF S

-------------------------------------------------------------------------------
(* Types.                                                                   *)

\* A request in transit belongs to a call that is under way or has raised.
LEMMA InTransit ==
  ASSUME TypeOK, FlowInv, NEW c \in Calls, link[c] = "request"
  PROVE  /\ pc[c] \in {"waiting", "raised"}
         /\ tool[c] \in Tools
         /\ body[c] \in Requests
         /\ body[c].step = Script[at[c]]
         /\ at[c] \in {1, 2} /\ Len(work[c]) = at[c] - 1
         /\ work[c] \in Seq(Kinds)
<1>1. Progress(c)
  BY DEF FlowInv
<1>2. pc[c] \in {"waiting", "raised"} /\ body[c] # None /\ body[c].step = Script[at[c]]
  BY <1>1 DEF Progress
<1>3. tool[c] \in Tools
  BY <1>1, <1>2 DEF Progress, TypeOK
<1>4. Len(work[c]) = at[c] - 1
  BY <1>1 DEF Progress
<1>. QED
  BY <1>2, <1>3, <1>4 DEF TypeOK, Kinds

LEMMA TypeStep ==
  ASSUME TypeOK, FlowInv, [Next]_vars
  PROVE  TypeOK'
<1>1. CASE RotateToken \/ RotateSubject \/ Revoke \/ UNCHANGED vars
  BY <1>1
     DEF TypeOK, RotateToken, RotateSubject, Revoke, vars, envVars, handlerVars
<1>2. ASSUME NEW c \in Calls, NEW t \in Tools, Invoke(c, t)
      PROVE  TypeOK'
  <2>1. ASSUME NEW s \in Scopes, NEW a \in Accounts \cup {None}
        PROVE  Normalized(s, a) \in Targets
    BY DEF Normalized, Targets
  <2>2. target' \in [Calls -> Targets \cup {None}]
    <3>1. target \in [Calls -> Targets \cup {None}]
      BY DEF TypeOK
    <3>2. target' = target
            \/ \E s \in Scopes, a \in Accounts \cup {None} :
                 target' = [target EXCEPT ![c] = Normalized(s, a)]
      BY <1>2 DEF Invoke
    <3>. QED
      BY <2>1, <3>1, <3>2
  <2>. QED
    BY <1>2, <2>2 DEF TypeOK, Invoke, envVars
<1>3. ASSUME NEW c \in Calls, NEW t \in Tools, RefuseArguments(c, t)
      PROVE  TypeOK'
  BY <1>3 DEF TypeOK, RefuseArguments, envVars, Ended
<1>4. ASSUME NEW c \in Calls, OpenClient(c) \/ ConfigMissing(c)
      PROVE  TypeOK'
  <2>1. token' \in [Calls -> Tokens \cup {None}]
    BY <1>4 DEF TypeOK, OpenClient, ConfigMissing
  <2>2. client' \in [Calls -> {"none", "open", "closed"}]
    BY <1>4 DEF TypeOK, OpenClient, ConfigMissing
  <2>3. pc' \in [Calls -> {"idle", "accepted", "opened", "ready", "waiting"} \cup Ended]
    <3>1. pc' = [pc EXCEPT ![c] = "opened"] \/ pc' = [pc EXCEPT ![c] = "refused"]
      BY <1>4 DEF OpenClient, ConfigMissing
    <3>. QED
      BY <3>1 DEF TypeOK, Ended
  <2>. QED
    BY <1>4, <2>1, <2>2, <2>3 DEF TypeOK, OpenClient, ConfigMissing, envVars
<1>5. ASSUME NEW c \in Calls, ReadSubject(c)
      PROVE  TypeOK'
  BY <1>5 DEF TypeOK, ReadSubject, EndCall, envVars, Ended
<1>6. ASSUME NEW c \in Calls, Send(c)
      PROVE  TypeOK'
  <2>1. CASE HeaderToken(c) = None
    BY <1>6, <2>1 DEF TypeOK, Send, EndCall, envVars, Ended
  <2>2. CASE HeaderToken(c) # None
    <3>1. HeaderToken(c) \in Tokens /\ Script[at[c]] \in {"verify", "operate"}
      BY <2>2, ScriptShape DEF HeaderToken, TypeOK
    <3>2. (IF at[c] = 2 THEN target[c] ELSE None) \in Targets \cup {None}
      BY DEF TypeOK
    <3>3. [step |-> Script[at[c]], token |-> HeaderToken(c),
           target |-> IF at[c] = 2 THEN target[c] ELSE None]
             \in Requests
      BY <3>1, <3>2 DEF Requests
    <3>4. /\ body' \in [Calls -> Requests \cup {None}]
          /\ UNCHANGED client /\ pc' = [pc EXCEPT ![c] = "waiting"]
          /\ link' = [link EXCEPT ![c] = "request"]
      <4>1. body' = [body EXCEPT ![c] =
                       [step |-> Script[at[c]], token |-> HeaderToken(c),
                        target |-> IF at[c] = 2 THEN target[c] ELSE None]]
            /\ UNCHANGED client /\ pc' = [pc EXCEPT ![c] = "waiting"]
            /\ link' = [link EXCEPT ![c] = "request"]
        BY <1>6, <2>2 DEF Send, Transmit
      <4>2. body \in [Calls -> Requests \cup {None}]
        BY DEF TypeOK
      <4>. QED
        BY <3>3, <4>1, <4>2
    <3>. QED
      BY <1>6, <3>4 DEF TypeOK, Send, envVars, Links
  <2>. QED
    BY <2>1, <2>2
<1>7. ASSUME NEW c \in Calls, Receive(c)
      PROVE  TypeOK'
  BY <1>7 DEF TypeOK, Receive, EndCall, Consume, envVars, Ended, Links
<1>8. ASSUME NEW c \in Calls, ReceiveFailure(c) \/ GiveUp(c)
      PROVE  TypeOK'
  BY <1>8
     DEF TypeOK, ReceiveFailure, GiveUp, EndCall, Consume, Abandon, envVars,
         Ended, Links
<1>9. ASSUME NEW c \in Calls, Serve(c)
      PROVE  TypeOK'
  <2>1. /\ tool[c] \in Tools /\ body[c].step \in Kinds /\ body[c].token \in Tokens
        /\ body[c].target \in Targets \cup {None}
    BY <1>9, InTransit DEF Serve, Requests, Kinds
  <2>2. work' \in [Calls -> Seq({"verify", "operate"})]
    BY <1>9, <2>1 DEF TypeOK, Serve, Kinds
  <2>3. session' \in [Calls -> Sessions \cup {None}]
    <3>1. OwnerOf[body[c].token] \in Subjects
      BY <2>1, TokensAssumption
    <3>2. \A s : {p[2] : p \in {g \in granted : g[1] = s}} \in SUBSET Capabilities
      BY DEF TypeOK
    <3>. DEFINE s == OwnerOf[body[c].token]
                told == [subject |-> s,
                         caps |-> {p[2] : p \in {g \in granted : g[1] = s}}]
    <3>3. told \in Sessions
      BY <3>1, <3>2 DEF Sessions
    <3>4. session' = session \/ session' = [session EXCEPT ![c] = told]
      BY <1>9 DEF Serve, ServeSession, ServeOperation
    <3>5. session \in [Calls -> Sessions \cup {None}]
      BY DEF TypeOK
    <3>. HIDE DEF told
    <3>. QED
      BY <3>3, <3>4, <3>5
  <2>4. deeds' \subseteq [call: Calls, tool: Tools, token: Tokens,
                          target: Targets \cup {None}]
    BY <1>9, <2>1 DEF TypeOK, Serve, ServeSession, ServeOperation
  <2>. QED
    BY <1>9, <2>2, <2>3, <2>4 DEF TypeOK, Serve, Respond, envVars, handlerVars, Links
<1>10. ASSUME NEW c \in Calls, Disturb(c)
       PROVE  TypeOK'
  <2>1. link' \in [Calls -> Links]
    <3>1. \E x \in Links : link' = [link EXCEPT ![c] = x]
      BY <1>10 DEF Disturb, Trouble, Links
    <3>2. link \in [Calls -> Links]
      BY DEF TypeOK
    <3>. QED
      BY <3>1, <3>2
  <2>. QED
    BY <1>10, <2>1 DEF TypeOK, Disturb, envVars, handlerVars
<1>. QED
  BY <1>1, <1>2, <1>3, <1>4, <1>5, <1>6, <1>7, <1>8, <1>9, <1>10
     DEF Next, HandlerStep

-------------------------------------------------------------------------------
(* The progress of calls.                                                   *)

\* Nothing about call d changes in a step.
SameCall(d) ==
  /\ tool'[d] = tool[d] /\ pc'[d] = pc[d] /\ client'[d] = client[d]
  /\ target'[d] = target[d] /\ token'[d] = token[d]
  /\ expected'[d] = expected[d] /\ at'[d] = at[d] /\ body'[d] = body[d]
  /\ link'[d] = link[d] /\ session'[d] = session[d] /\ work'[d] = work[d]

LEMMA Frame ==
  ASSUME NEW d \in Calls, Progress(d), SameCall(d)
  PROVE  Progress(d)'
BY DEF Progress, SameCall, Verified

\* The rotations and revocations touch no call.
LEMMA EnvironmentFrame ==
  ASSUME NEW d \in Calls, RotateToken \/ RotateSubject \/ Revoke \/ UNCHANGED vars
  PROVE  SameCall(d) /\ deeds' = deeds
BY DEF RotateToken, RotateSubject, Revoke, vars, handlerVars, SameCall

\* A step of one call leaves every other call alone.
LEMMA OneCallAtATime ==
  ASSUME TypeOK, NEW c \in Calls, NEW d \in Calls, d # c,
         \/ \E t \in Tools : Invoke(c, t) \/ RefuseArguments(c, t)
         \/ HandlerStep(c)
         \/ Serve(c) \/ Disturb(c)
  PROVE  SameCall(d)
<1>. USE DEF TypeOK, SameCall, handlerVars
<1>1. CASE \E t \in Tools : Invoke(c, t) \/ RefuseArguments(c, t)
  BY <1>1 DEF Invoke, RefuseArguments
<1>2. CASE OpenClient(c) \/ ConfigMissing(c) \/ ReadSubject(c)
  BY <1>2 DEF OpenClient, ConfigMissing, ReadSubject, EndCall
<1>3. CASE Send(c)
  BY <1>3 DEF Send, Transmit, EndCall
<1>4. CASE Receive(c)
  BY <1>4 DEF Receive, EndCall, Consume
<1>5. CASE ReceiveFailure(c) \/ GiveUp(c)
  BY <1>5 DEF ReceiveFailure, Consume, EndCall, GiveUp, Abandon
<1>6. CASE Serve(c)
  BY <1>6 DEF Serve, ServeSession, ServeOperation, Respond
<1>7. CASE Disturb(c)
  BY <1>7 DEF Disturb, Trouble
<1>. QED
  BY <1>1, <1>2, <1>3, <1>4, <1>5, <1>6, <1>7 DEF HandlerStep

\* Only the executor changes what it has done.
LEMMA OnlyTheExecutorActs ==
  ASSUME NEW c \in Calls,
         \/ \E t \in Tools : Invoke(c, t) \/ RefuseArguments(c, t)
         \/ HandlerStep(c)
         \/ Disturb(c)
  PROVE  UNCHANGED <<session, work, deeds>>
BY DEF Invoke, RefuseArguments, HandlerStep, OpenClient, ConfigMissing,
       ReadSubject, Send, Receive, ReceiveFailure, GiveUp, Disturb

\* What the executor's carrying out of a request does to its call.
LEMMA ServeEffect ==
  ASSUME TypeOK, FlowInv, NEW c \in Calls, Serve(c)
  PROVE  /\ UNCHANGED <<tool, pc, client, target, token, expected, at, body>>
         /\ work'[c] = Append(work[c], Script[at[c]])
         /\ Len(work'[c]) = at[c]
         /\ \A i \in 1..at[c] : work'[c][i] = Script[i]
         /\ link'[c] = IF pc[c] = "waiting" THEN "done" ELSE "quiet"
         /\ at[c] = 1 => /\ deeds' = deeds
                         /\ session'[c] # None
                         /\ session'[c].subject = OwnerOf[body[c].token]
         /\ at[c] = 2 => /\ session' = session
                         /\ deeds' = deeds \cup {[call |-> c, tool |-> tool[c],
                                                  token |-> body[c].token,
                                                  target |-> body[c].target]}
<1>1. /\ link[c] = "request" /\ body[c].step = Script[at[c]] /\ at[c] \in {1, 2}
      /\ Len(work[c]) = at[c] - 1 /\ work[c] \in Seq(Kinds)
      /\ body[c].step \in Kinds /\ body[c].token \in Tokens
  BY InTransit DEF Serve, Requests, Kinds
<1>2. /\ UNCHANGED <<tool, pc, client, target, token, expected, at, body>>
      /\ work'[c] = Append(work[c], Script[at[c]])
      /\ link'[c] = IF pc[c] = "waiting" THEN "done" ELSE "quiet"
  BY <1>1 DEF Serve, Respond, handlerVars, TypeOK
<1>3. /\ Len(work'[c]) = at[c]
      /\ \A i \in 1..at[c] : work'[c][i] = IF i = at[c] THEN Script[i] ELSE work[c][i]
  BY <1>1, <1>2
<1>4. \A i \in 1..at[c] : i # at[c] => i \in 1..Len(work[c]) /\ work[c][i] = Script[i]
  BY <1>1 DEF FlowInv, Progress
<1>5. CASE at[c] = 1
  <2>1. ServeSession(c)
    BY <1>1, <1>5, ScriptShape DEF Serve, ServeOperation
  <2>2. session'[c].subject = OwnerOf[body[c].token] /\ deeds' = deeds
    BY <2>1 DEF ServeSession, TypeOK
  <2>3. session'[c] # None
    <3>1. session'[c] = [subject |-> OwnerOf[body[c].token],
             caps |-> {p[2] : p \in {g \in granted : g[1] = OwnerOf[body[c].token]}}]
      BY <2>1 DEF ServeSession, TypeOK
    <3>2. session'[c] \in Sessions
      BY <1>1, <3>1, TokensAssumption DEF Sessions, TypeOK
    <3>. QED
      BY <3>2, NoneAssumption
  <2>. QED
    BY <1>2, <1>3, <1>4, <1>5, <2>2, <2>3
<1>6. CASE at[c] = 2
  <2>1. ServeOperation(c)
    BY <1>1, <1>6, ScriptShape DEF Serve, ServeSession
  <2>. QED
    BY <1>2, <1>3, <1>4, <1>6, <2>1 DEF ServeOperation
<1>. QED
  BY <1>1, <1>5, <1>6

LEMMA ServeProgress ==
  ASSUME TypeOK, FlowInv, NEW c \in Calls, Serve(c)
  PROVE  Progress(c)'
<1>1. Progress(c) /\ link[c] = "request"
  BY DEF FlowInv, Serve
<1>2. /\ pc[c] \in {"waiting", "raised"} /\ at[c] \in {1, 2}
      /\ Len(work[c]) = at[c] - 1
  BY <1>1, InTransit
<1>3. pc[c] # "denied" /\ pc[c] # "ok" /\ body[c] # None
  BY <1>1, <1>2 DEF Progress
<1>4. CASE at[c] = 1
  BY <1>1, <1>2, <1>3, <1>4, ServeEffect DEF Progress
<1>5. CASE at[c] = 2
  <2>1. session[c] # None
    BY <1>1, <1>2, <1>5 DEF Progress
  <2>. QED
    BY <1>1, <1>2, <1>3, <1>5, <2>1, ServeEffect DEF Progress, Verified
<1>. QED
  BY <1>2, <1>4, <1>5

\* A reply is counted by a handler that is where the script says.
LEMMA ReceiveProgress ==
  ASSUME TypeOK, FlowInv, NEW c \in Calls, Receive(c)
  PROVE  Progress(c)'
<1>1. /\ Progress(c) /\ link[c] = "done" /\ link'[c] = "quiet" /\ pc[c] = "waiting"
      /\ UNCHANGED <<tool, target, token, expected, body, session, work>>
  BY DEF FlowInv, Receive, ReplyIsGood, Consume, TypeOK
<1>2. /\ Len(work[c]) = at[c] /\ at[c] \in {1, 2} /\ Len(work[c]) \in Nat
      /\ client[c] = "open" /\ expected[c] # None /\ body[c] # None
      /\ tool[c] # None
  BY <1>1 DEF Progress, TypeOK
<1>3. CASE at[c] = 1 /\ Verified(c)
  <2>1. /\ at'[c] = 2 /\ pc'[c] = "ready" /\ client'[c] = client[c]
    BY <1>3 DEF Receive, TypeOK
  <2>. QED
    BY <1>1, <1>2, <1>3, <2>1 DEF Progress, Verified, Ended
<1>4. CASE at[c] = 1 /\ ~Verified(c)
  <2>1. /\ at'[c] = 1 /\ pc'[c] = "denied" /\ client'[c] = "closed"
    BY <1>4 DEF Receive, EndCall, TypeOK
  <2>. QED
    BY <1>1, <1>2, <1>4, <2>1 DEF Progress, Verified, Ended
<1>5. CASE at[c] = 2
  <2>1. /\ at'[c] = 2 /\ pc'[c] = "ok" /\ client'[c] = "closed"
    BY <1>5 DEF Receive, EndCall, TypeOK
  <2>. QED
    BY <1>1, <1>2, <1>5, <2>1 DEF Progress, Verified, Ended
<1>. QED
  BY <1>2, <1>3, <1>4, <1>5

\* Sending is where the configured token enters the request.
LEMMA SendProgress ==
  ASSUME TypeOK, FlowInv, NEW c \in Calls, Send(c)
  PROVE  Progress(c)'
<1>1. /\ Progress(c) /\ pc[c] = "ready" /\ link[c] = "quiet"
      /\ UNCHANGED <<tool, target, token, expected, at, session, work>>
  BY DEF FlowInv, Send, Progress
<1>2. /\ Len(work[c]) = at[c] - 1 /\ at[c] \in {1, 2} /\ Len(work[c]) \in Nat
      /\ client[c] = "open" /\ expected[c] # None
      /\ tool[c] # None
  BY <1>1 DEF Progress, TypeOK
<1>3. CASE token[c] = None
  <2>1. /\ pc'[c] = "denied" /\ client'[c] = "closed"
        /\ body' = body /\ link' = link
    BY <1>3 DEF Send, HeaderToken, EndCall, TypeOK
  <2>. QED
    BY <1>1, <1>2, <1>3, <2>1 DEF Progress, Verified, Ended
<1>4. CASE token[c] # None
  <2>. DEFINE b == [step |-> Script[at[c]], token |-> token[c],
                    target |-> IF at[c] = 2 THEN target[c] ELSE None]
  <2>1. /\ pc'[c] = "waiting" /\ client'[c] = "open" /\ link'[c] = "request"
        /\ body'[c] = b
    BY <1>2, <1>4 DEF Send, HeaderToken, Transmit, TypeOK
  <2>2. b \in Requests
    BY <1>2, <1>4, ScriptShape DEF Requests, TypeOK, Kinds
  <2>3. b # None
    BY <2>2, NoneAssumption
  <2>4. b.step = "operate" => b.target = target[c]
    BY <1>2, ScriptShape
  <2>5. b.step = Script[at[c]] /\ b.token = token[c]
    OBVIOUS
  <2>. HIDE DEF b
  <2>. QED
    BY <1>1, <1>2, <1>4, <2>1, <2>3, <2>4, <2>5 DEF Progress, Verified, Ended
<1>. QED
  BY <1>3, <1>4

\* The other steps of one call.
LEMMA SmallProgress ==
  ASSUME TypeOK, FlowInv, NEW c \in Calls,
         \/ \E t \in Tools : Invoke(c, t) \/ RefuseArguments(c, t)
         \/ OpenClient(c) \/ ConfigMissing(c) \/ ReadSubject(c)
         \/ ReceiveFailure(c) \/ GiveUp(c) \/ Disturb(c)
  PROVE  Progress(c)'
<1>. Progress(c)
  BY DEF FlowInv
<1>. ServiceToken # None
  BY TokensAssumption, NoneAssumption
<1>1. ASSUME NEW t \in Tools, Invoke(c, t) \/ RefuseArguments(c, t)
      PROVE  Progress(c)'
  <2>1. t # None
    BY NoneAssumption
  <2>2. /\ pc[c] = "idle" /\ pc'[c] \in {"accepted", "refused"} /\ tool'[c] = t
        /\ UNCHANGED <<client, token, expected, at, body, link, session, work>>
    BY <1>1 DEF Invoke, RefuseArguments, TypeOK
  <2>3. body[c] = None /\ Len(work[c]) = 0 /\ at[c] = 1
    BY <2>2 DEF Progress
  <2>. QED
    BY <2>1, <2>2, <2>3 DEF Progress, Verified, Ended
<1>2. CASE OpenClient(c)
  <2>1. /\ pc[c] = "accepted" /\ pc'[c] = "opened" /\ client'[c] = "open"
        /\ token'[c] # ServiceToken
        /\ UNCHANGED <<tool, target, expected, at, body, link, session, work>>
    BY <1>2 DEF OpenClient, ConfigIsGood, TypeOK
  <2>2. body[c] = None /\ Len(work[c]) = 0 /\ at[c] = 1 /\ session[c] = None
    BY <2>1 DEF Progress
  <2>. QED
    BY <2>1, <2>2 DEF Progress, Verified, Ended
<1>3. CASE ConfigMissing(c)
  BY <1>3 DEF ConfigMissing, TypeOK, Progress, Verified, Ended
<1>4. CASE ReadSubject(c)
  <2>1. /\ pc[c] = "opened"
        /\ \/ pc'[c] = "failed" /\ client'[c] = "closed" /\ UNCHANGED expected
           \/ pc'[c] = "ready" /\ UNCHANGED client /\ expected'[c] # None
        /\ UNCHANGED <<tool, target, token, at, body, link, session, work>>
    BY <1>4 DEF ReadSubject, EndCall, TypeOK
  <2>2. body[c] = None /\ Len(work[c]) = 0 /\ at[c] = 1 /\ session[c] = None
    BY <2>1 DEF Progress
  <2>. QED
    BY <2>1, <2>2 DEF Progress, Verified, Ended
<1>5. CASE ReceiveFailure(c)
  <2>1. /\ pc[c] = "waiting" /\ pc'[c] = "failed" /\ client'[c] = "closed"
        /\ link'[c] = "quiet"
        /\ UNCHANGED <<tool, target, token, expected, at, body, session, work>>
    BY <1>5 DEF ReceiveFailure, EndCall, Consume, TypeOK
  <2>2. link[c] # "quiet" /\ body[c] # None /\ tool[c] # None
    BY <2>1 DEF Progress
  <2>. QED
    BY <2>1, <2>2 DEF Progress, Verified, Ended
<1>6. CASE GiveUp(c)
  <2>1. /\ pc[c] = "waiting" /\ pc'[c] = "raised" /\ client'[c] = "closed"
        /\ link'[c] = IF link[c] = "request" THEN "request" ELSE "quiet"
        /\ UNCHANGED <<tool, target, token, expected, at, body, session, work>>
    BY <1>6 DEF GiveUp, EndCall, Abandon, TypeOK
  <2>2. link[c] # "quiet" /\ body[c] # None /\ tool[c] # None
    BY <2>1 DEF Progress
  <2>. QED
    BY <2>1, <2>2 DEF Progress, Verified, Ended
<1>7. CASE Disturb(c)
  <2>1. /\ \/ /\ link[c] \in {"request", "done"} /\ pc[c] = "waiting"
              /\ link'[c] \in {"error", "lost"}
           \/ /\ link[c] = "done" /\ link'[c] = "garbled"
           \/ /\ link[c] = "request" /\ pc[c] = "raised" /\ link'[c] = "quiet"
        /\ UNCHANGED <<tool, pc, client, target, token, expected, at, body,
                       session, work>>
    BY <1>7 DEF Disturb, Trouble, handlerVars, TypeOK, Progress
  <2>2. body[c] # None /\ tool[c] # None
    BY <2>1 DEF Progress
  <2>. QED
    BY <2>1, <2>2 DEF Progress, Verified, Ended
<1>. QED
  BY <1>1, <1>2, <1>3, <1>4, <1>5, <1>6, <1>7

\* The deeds of a call change only when its operation is carried out.
LEMMA DeedStep ==
  ASSUME TypeOK, FlowInv, [Next]_vars
  PROVE  DeedInv'
<1>. DEFINE Sound(d) == /\ work[d.call] = Script /\ d.token = token[d.call]
                        /\ d.tool = tool[d.call] /\ d.target = target[d.call]
<1>1. /\ \A d \in deeds : d.call \in Calls /\ Sound(d)
      /\ \A c \in Calls : work[c] = Script => \E d \in deeds : d.call = c
  BY DEF FlowInv, DeedInv, TypeOK
<1>2. \A c \in Calls : work[c] = Script =>
        pc[c] \notin {"idle", "accepted", "opened"}
  <2>. SUFFICES ASSUME NEW c \in Calls, work[c] = Script,
                       pc[c] \in {"idle", "accepted", "opened"}
                PROVE  FALSE
    OBVIOUS
  <2>1. Len(work[c]) = 0
    BY DEF FlowInv, Progress
  <2>. QED
    BY <2>1, ScriptShape
<1>3. ASSUME UNCHANGED <<deeds, work>>,
             \A c \in Calls : pc[c] \notin {"idle", "accepted", "opened"} =>
               tool'[c] = tool[c] /\ target'[c] = target[c] /\ token'[c] = token[c]
      PROVE  DeedInv'
  BY <1>1, <1>2, <1>3 DEF DeedInv
<1>4. CASE RotateToken \/ RotateSubject \/ Revoke \/ UNCHANGED vars
  BY <1>3, <1>4
     DEF RotateToken, RotateSubject, Revoke, vars, handlerVars
<1>5. ASSUME NEW c \in Calls,
             \/ \E t \in Tools : Invoke(c, t) \/ RefuseArguments(c, t)
             \/ HandlerStep(c)
             \/ Disturb(c)
      PROVE  DeedInv'
  <2>1. UNCHANGED <<deeds, work>>
    BY <1>5, OnlyTheExecutorActs
  <2>2. ASSUME NEW d \in Calls, pc[d] \notin {"idle", "accepted", "opened"}
        PROVE  tool'[d] = tool[d] /\ target'[d] = target[d] /\ token'[d] = token[d]
    <3>1. CASE d = c
      BY <1>5, <2>2, <3>1
         DEF Invoke, RefuseArguments, HandlerStep, OpenClient, ConfigMissing,
             ReadSubject, Send, Receive, ReceiveFailure, GiveUp, Disturb,
             handlerVars
    <3>2. CASE d # c
      BY <1>5, <3>2, OneCallAtATime DEF SameCall
    <3>. QED
      BY <3>1, <3>2
  <2>. QED
    BY <1>3, <2>1, <2>2
<1>6. ASSUME NEW c \in Calls, Serve(c)
      PROVE  DeedInv'
  <2>1. UNCHANGED <<tool, target, token>>
    BY <1>6, ServeEffect
  <2>2. \A d \in Calls : d # c => work'[d] = work[d]
    BY <1>6 DEF Serve, TypeOK
  <2>3. work[c] # Script /\ at[c] \in {1, 2}
    BY <1>6, InTransit, ScriptShape DEF Serve
  <2>4. work'[c] \in Seq(Kinds)
    BY TypeStep DEF TypeOK, Kinds
  <2>5. \A d \in deeds : d.call # c
    BY <1>1, <2>3
  <2>6. CASE at[c] = 1
    <3>1. deeds' = deeds /\ Len(work'[c]) = 1
      BY <1>6, <2>6, ServeEffect
    <3>2. work'[c] # Script
      BY <3>1, ScriptShape
    <3>. QED
      BY <1>1, <2>1, <2>2, <2>5, <3>1, <3>2 DEF DeedInv
  <2>7. CASE at[c] = 2
    <3>. DEFINE new == [call |-> c, tool |-> tool[c], token |-> body[c].token,
                        target |-> body[c].target]
    <3>1. deeds' = deeds \cup {new}
      BY <1>6, <2>7, ServeEffect
    <3>2. work'[c] = Script
      BY <1>6, <2>4, <2>7, ServeEffect, WholeScript
    <3>3. body[c].token = token[c] /\ body[c].target = target[c]
      <4>1. link[c] = "request" /\ body[c].step = "operate" /\ body[c] # None
        BY <1>6, <2>7, InTransit, ScriptShape DEF Serve, FlowInv, Progress
      <4>. QED
        BY <4>1 DEF FlowInv, Progress
    <3>4. \A d \in deeds' : work'[d.call] = Script /\ d.token = token'[d.call]
                            /\ d.tool = tool'[d.call] /\ d.target = target'[d.call]
      BY <1>1, <2>1, <2>2, <2>5, <3>1, <3>2, <3>3
    <3>5. \A e \in Calls : work'[e] = Script => \E d \in deeds' : d.call = e
      <4>1. new \in deeds' /\ new.call = c
        BY <3>1
      <4>2. \A d \in deeds : d \in deeds'
        BY <3>1
      <4>. HIDE DEF new
      <4>. QED
        BY <1>1, <2>2, <4>1, <4>2
    <3>. QED
      BY <3>4, <3>5 DEF DeedInv
  <2>. QED
    BY <2>3, <2>6, <2>7
<1>. QED
  BY <1>4, <1>5, <1>6 DEF Next

LEMMA FlowStep ==
  ASSUME TypeOK, FlowInv, [Next]_vars
  PROVE  FlowInv'
<1>1. CASE RotateToken \/ RotateSubject \/ Revoke \/ UNCHANGED vars
  <2>1. \A d \in Calls : Progress(d)'
    BY <1>1, EnvironmentFrame, Frame DEF FlowInv
  <2>. QED
    BY <2>1, DeedStep DEF FlowInv
<1>2. ASSUME NEW c \in Calls,
             \/ \E t \in Tools : Invoke(c, t) \/ RefuseArguments(c, t)
             \/ HandlerStep(c)
             \/ Serve(c) \/ Disturb(c)
      PROVE  FlowInv'
  <2>1. Progress(c)'
    BY <1>2, SmallProgress, SendProgress, ReceiveProgress, ServeProgress
       DEF HandlerStep
  <2>2. ASSUME NEW d \in Calls, d # c
        PROVE  Progress(d)'
    BY <1>2, <2>2, OneCallAtATime, Frame DEF FlowInv
  <2>. QED
    BY <2>1, <2>2, DeedStep DEF FlowInv
<1>. QED
  BY <1>1, <1>2 DEF Next

LEMMA InitFlow ==
  Init => TypeOK /\ FlowInv
<1>. SUFFICES ASSUME Init PROVE TypeOK /\ FlowInv
  OBVIOUS
<1>1. TypeOK
  <2>1. granted \subseteq Subjects \X Capabilities
    BY NeedsShape, TokensAssumption DEF Init
  <2>. QED
    BY <2>1 DEF Init, TypeOK, Links
<1>2. ASSUME NEW c \in Calls PROVE Progress(c)
  <2>1. None # ServiceToken
    BY TokensAssumption, NoneAssumption
  <2>. QED
    BY <2>1 DEF Init, Progress, Ended
<1>3. DeedInv
  <2>1. << >> # Script
    BY ScriptShape
  <2>. QED
    BY <2>1 DEF Init, DeedInv
<1>. QED
  BY <1>2, <1>1, <1>3 DEF FlowInv

\* Every reachable state is well-typed, and the position, client, connection,
\* work, session and deeds of every call agree.
THEOREM TypeAndFlow == Spec => [](TypeOK /\ FlowInv)
<1>1. TypeOK /\ FlowInv /\ [Next]_vars => (TypeOK /\ FlowInv)'
  BY TypeStep, FlowStep
<1>. QED
  BY InitFlow, <1>1, PTL DEF Spec

-------------------------------------------------------------------------------
(* What follows from the invariant.                                         *)

\* A call with a deed has been verified, in both its steps.
LEMMA DeedIsVerified ==
  ASSUME TypeOK, FlowInv, NEW d \in deeds
  PROVE  /\ d.call \in Calls /\ session[d.call] # None /\ Verified(d.call)
         /\ session[d.call].subject = OwnerOf[token[d.call]]
         /\ d.token = token[d.call] /\ d.tool = tool[d.call]
         /\ d.target = target[d.call] /\ work[d.call] = Script
         /\ pc[d.call] \notin {"denied", "refused"}
<1>1. /\ d.call \in Calls /\ work[d.call] = Script /\ d.token = token[d.call]
      /\ d.tool = tool[d.call] /\ d.target = target[d.call]
  BY DEF TypeOK, FlowInv, DeedInv
<1>2. Progress(d.call) /\ Len(work[d.call]) = 2
  BY <1>1, ScriptShape DEF FlowInv
<1>3. at[d.call] \in {1, 2}
  BY <1>1 DEF TypeOK
<1>4. session[d.call] # None /\ at[d.call] = 2 /\ pc[d.call] \notin {"denied", "refused"}
  BY <1>2, <1>3 DEF Progress
<1>. QED
  BY <1>1, <1>2, <1>4 DEF Progress

\* No operation is ever carried out for a principal other than the one the
\* operator named, or without the capability having been confirmed to the
\* same call (verify_admin_session, then one method of the same client).
THEOREM VerifiedDeeds == Spec => []DeedsAreVerified
<1>1. TypeOK /\ FlowInv => DeedsAreVerified
  BY DeedIsVerified DEF DeedsAreVerified, Verified
<1>. QED
  BY TypeAndFlow, <1>1, PTL

\* What an admin tool answers agrees with what the executor did for it.
THEOREM HonestAnswers == Spec => []AnswersMatchDeeds
<1>1. TypeOK /\ FlowInv => AnswersMatchDeeds
  <2>. SUFFICES ASSUME TypeOK, FlowInv, NEW c \in Calls
                PROVE  LET mine == {d \in deeds : d.call = c} IN
                       /\ pc[c] \in {"denied", "refused"} => mine = {}
                       /\ pc[c] = "ok" => mine # {}
                       /\ \A d \in mine : d.tool = tool[c] /\ d.target = target[c]
                       /\ Len(work[c]) <= 2 /\ (mine # {} <=> work[c] = Script)
    BY DEF AnswersMatchDeeds
  <2>. DEFINE mine == {d \in deeds : d.call = c}
  <2>1. \A d \in mine : /\ d.tool = tool[c] /\ d.target = target[c]
                        /\ work[c] = Script /\ pc[c] \notin {"denied", "refused"}
    BY DeedIsVerified
  <2>2. work[c] = Script => mine # {}
    BY DEF FlowInv, DeedInv
  <2>3. Progress(c) /\ at[c] \in {1, 2} /\ work[c] \in Seq(Kinds)
    BY DEF FlowInv, TypeOK, Kinds
  <2>4. Len(work[c]) <= 2
    BY <2>3 DEF Progress
  <2>5. pc[c] = "ok" => work[c] = Script
    BY <2>3, WholeScript DEF Progress
  <2>. QED
    BY <2>1, <2>2, <2>4, <2>5
<1>. QED
  BY TypeAndFlow, <1>1, PTL

\* config.py:21 at work: whichever token a call is opened with, it is not the
\* service token, so no admin request carries that one.
THEOREM ServiceTokenStaysOff == Spec => []NoServiceTokenOnAdminPath
<1>1. TypeOK /\ FlowInv => NoServiceTokenOnAdminPath
  BY DEF FlowInv, Progress, NoServiceTokenOnAdminPath
<1>. QED
  BY TypeAndFlow, <1>1, PTL

\* Token, subject, session and request token stay what they were from the
\* moment a call has been told what its principal may do.
THEOREM BoundVerification == Spec => VerificationBindsTheCall
<1>. DEFINE Bound(c) ==
       session[c] # None =>
         /\ token'[c] = token[c] /\ expected'[c] = expected[c]
         /\ session'[c] = session[c]
         /\ body'[c].token = body[c].token
<1>1. ASSUME TypeOK, FlowInv, [Next]_vars, NEW c \in Calls
      PROVE  Bound(c)
  <2>1. CASE SameCall(c)
    BY <2>1 DEF SameCall
  <2>2. CASE RotateToken \/ RotateSubject \/ Revoke \/ UNCHANGED vars
    BY <2>1, <2>2, EnvironmentFrame
  <2>3. session[c] # None => /\ Len(work[c]) # 0 /\ body[c] # None
                             /\ body[c].token = token[c]
                             /\ pc[c] \notin {"idle", "accepted", "opened"}
    BY <1>1 DEF FlowInv, Progress
  <2>4. CASE \E t \in Tools : Invoke(c, t) \/ RefuseArguments(c, t)
    BY <2>3, <2>4 DEF Invoke, RefuseArguments
  <2>5. CASE HandlerStep(c) /\ ~Send(c)
    BY <2>3, <2>5
       DEF HandlerStep, OpenClient, ConfigMissing, ReadSubject, Receive,
           ReceiveFailure, GiveUp
  <2>6. CASE Send(c)
    <3>1. UNCHANGED <<token, expected, session>>
      BY <2>6 DEF Send
    <3>2. body'[c] = body[c] \/ body'[c].token = token[c]
      BY <1>1, <2>6 DEF Send, HeaderToken, TypeOK
    <3>. QED
      BY <2>3, <3>1, <3>2
  <2>7. CASE Serve(c)
    <3>1. session[c] # None => at[c] = 2
      BY <1>1, <2>3, <2>7, InTransit DEF Serve
    <3>. QED
      BY <1>1, <2>7, <3>1, ServeEffect
  <2>8. CASE Disturb(c)
    BY <2>8 DEF Disturb, handlerVars
  <2>9. ASSUME NEW d \in Calls, d # c,
               \/ \E t \in Tools : Invoke(d, t) \/ RefuseArguments(d, t)
               \/ HandlerStep(d)
               \/ Serve(d) \/ Disturb(d)
        PROVE  SameCall(c)
    BY <1>1, <2>9, OneCallAtATime
  <2>. QED
    BY <1>1, <2>1, <2>2, <2>4, <2>5, <2>6, <2>7, <2>8, <2>9 DEF Next
<1>2. TypeOK /\ FlowInv /\ [Next]_vars => [\A c \in Calls : Bound(c)]_vars
  BY <1>1
<1>. QED
  BY TypeAndFlow, <1>2, PTL DEF Spec, VerificationBindsTheCall

\* Each admin handler ends after at most six steps: verification and operation
\* are asked for once each, and no rotation, revocation or other call's step puts
\* one back.  This is the half of EveryCallEnds that does not need fairness.
THEOREM AdvancingHandlers == Spec => HandlersOnlyAdvance
<1>. DEFINE Advances(c) ==
       pc[c] # "idle" =>
         IF pc'[c] = pc[c] THEN StepsLeft(c)' = StepsLeft(c)
                           ELSE StepsLeft(c)' < StepsLeft(c)
<1>1. ASSUME TypeOK, [Next]_vars, NEW c \in Calls
      PROVE  Advances(c)
  <2>. SUFFICES ASSUME pc[c] # "idle"
                PROVE  IF pc'[c] = pc[c] THEN StepsLeft(c)' = StepsLeft(c)
                                         ELSE StepsLeft(c)' < StepsLeft(c)
    OBVIOUS
  <2>1. at[c] \in {1, 2}
    BY <1>1 DEF TypeOK
  <2>2. CASE SameCall(c)
    BY <2>2 DEF SameCall, StepsLeft
  <2>3. CASE RotateToken \/ RotateSubject \/ Revoke \/ UNCHANGED vars
    BY <2>2, <2>3, EnvironmentFrame
  <2>4. CASE Serve(c) \/ Disturb(c)
    BY <2>4 DEF Serve, Disturb, handlerVars, StepsLeft
  <2>5. CASE HandlerStep(c)
    <3>1. \/ /\ pc[c] \in {"accepted", "opened", "ready", "waiting"} /\ pc'[c] \in Ended
          \/ pc[c] = "accepted" /\ pc'[c] = "opened" /\ at'[c] = at[c]
          \/ pc[c] = "opened" /\ pc'[c] = "ready" /\ at'[c] = at[c]
          \/ pc[c] = "ready" /\ pc'[c] = "waiting" /\ at'[c] = at[c]
          \/ pc[c] = "waiting" /\ pc'[c] = "ready" /\ at[c] = 1 /\ at'[c] = 2
      BY <1>1, <2>5 DEF HandlerStep, OpenClient, ConfigMissing, ReadSubject, Send,
         Receive, ReceiveFailure, GiveUp, EndCall, TypeOK, Ended
    <3>2. CASE pc[c] \in {"accepted", "opened", "ready", "waiting"} /\ pc'[c] \in Ended
      <4>1. StepsLeft(c)' = 0 /\ pc'[c] # pc[c]
        BY <3>2 DEF StepsLeft, Ended
      <4>. QED
        BY <2>1, <3>2, <4>1 DEF StepsLeft
    <3>. QED
      BY <2>1, <3>1, <3>2 DEF StepsLeft
  <2>6. ASSUME NEW d \in Calls, d # c,
               \/ \E t \in Tools : Invoke(d, t) \/ RefuseArguments(d, t)
               \/ HandlerStep(d)
               \/ Serve(d) \/ Disturb(d)
        PROVE  SameCall(c)
    BY <1>1, <2>6, OneCallAtATime
  <2>7. ~\E t \in Tools : Invoke(c, t) \/ RefuseArguments(c, t)
    BY DEF Invoke, RefuseArguments
  <2>. QED
    BY <1>1, <2>2, <2>3, <2>4, <2>5, <2>6, <2>7 DEF Next
<1>2. TypeOK /\ [Next]_vars => [\A c \in Calls : Advances(c)]_vars
  BY <1>1
<1>. QED
  BY TypeAndFlow, <1>2, PTL DEF Spec, HandlersOnlyAdvance

-------------------------------------------------------------------------------
(* Kill-switch targets.                                                     *)

\* A target names an account exactly when its scope asks for one, as soon as
\* it has been normalized; a request carries that target or none.
Clear(x) == x # None => /\ x.scope = "GLOBAL" => x.account = None
                        /\ x.scope = "ACCOUNT" => x.account # None

TargetInv == \A c \in Calls : /\ Clear(target[c])
                              /\ body[c] # None => Clear(body[c].target)

\* handle_admin_kill_switch: no request confuses a global switch with one for
\* an account, for any arguments.
THEOREM ClearTargets == Spec => []KillSwitchTargetsAreClear
<1>1. Init => TargetInv
  BY DEF Init, TargetInv, Clear
<1>2. ASSUME TypeOK, TargetInv, [Next]_vars
      PROVE  TargetInv'
  <2>1. ASSUME UNCHANGED <<target, body>>
        PROVE  TargetInv'
    BY <1>2, <2>1 DEF TargetInv, Clear
  <2>2. CASE RotateToken \/ RotateSubject \/ Revoke \/ UNCHANGED vars
    BY <2>1, <2>2 DEF RotateToken, RotateSubject, Revoke, vars, handlerVars
  <2>3. ASSUME NEW c \in Calls, NEW t \in Tools, Invoke(c, t)
        PROVE  TargetInv'
    <3>1. CASE UNCHANGED target
      BY <2>1, <2>3, <3>1 DEF Invoke
    <3>2. ASSUME NEW s \in Scopes, NEW a \in Accounts \cup {None},
                 s = "ACCOUNT" => a # None,
                 target' = [target EXCEPT ![c] = Normalized(s, a)]
          PROVE  TargetInv'
      <4>1. Clear(Normalized(s, a))
        BY <3>2 DEF Clear, Normalized
      <4>2. body' = body
        BY <2>3 DEF Invoke
      <4>. QED
        BY <1>2, <3>2, <4>1, <4>2 DEF TargetInv, TypeOK, Clear
    <3>. QED
      BY <2>3, <3>1, <3>2 DEF Invoke
  <2>4. ASSUME NEW c \in Calls, Send(c)
        PROVE  TargetInv'
    <3>1. CASE UNCHANGED body
      BY <2>1, <2>4, <3>1 DEF Send
    <3>2. CASE ~UNCHANGED body
      <4>1. /\ target' = target
            /\ body' = [body EXCEPT ![c] =
                 [step |-> Script[at[c]], token |-> HeaderToken(c),
                  target |-> IF at[c] = 2 THEN target[c] ELSE None]]
        BY <2>4, <3>2 DEF Send
      <4>2. body'[c].target = None \/ body'[c].target = target[c]
        BY <1>2, <4>1 DEF TypeOK
      <4>. QED
        BY <1>2, <4>1, <4>2 DEF TargetInv, TypeOK, Clear
    <3>. QED
      BY <3>1, <3>2
  <2>5. ASSUME NEW c \in Calls,
               \/ \E t \in Tools : RefuseArguments(c, t)
               \/ HandlerStep(c) /\ ~Send(c)
               \/ Serve(c) \/ Disturb(c)
        PROVE  TargetInv'
    BY <2>1, <2>5
       DEF RefuseArguments, HandlerStep, OpenClient, ConfigMissing, ReadSubject,
           Receive, ReceiveFailure, GiveUp, Serve, Disturb, handlerVars
  <2>. QED
    BY <1>2, <2>2, <2>3, <2>4, <2>5 DEF Next
<1>3. TypeOK /\ FlowInv /\ TargetInv => KillSwitchTargetsAreClear
  BY DEF TargetInv, Clear, KillSwitchTargetsAreClear, FlowInv, Progress
<1>. QED
  BY TypeAndFlow, <1>1, <1>2, <1>3, PTL DEF Spec

\* Every reachable state is well-typed, for any number of calls.
THEOREM TypesAreKept == Spec => []TypeOK
BY TypeAndFlow, PTL

-------------------------------------------------------------------------------
(* Admin calls implement ToolCall.                                          *)

\* The abstract state of call d is the same before and after a step.
SameBar(d) ==
  /\ phaseBar'[d] = phaseBar[d] /\ client'[d] = client[d]
  /\ goalBar'[d] = goalBar[d] /\ doneBar'[d] = doneBar[d]
  /\ owedBar'[d] = owedBar[d]

\* A call with no part in a step is still in the abstract too.
LEMMA SameCallSameBar ==
  ASSUME NEW d \in Calls, SameCall(d)
  PROVE  SameBar(d)
BY DEF SameCall, SameBar, phaseBar, goalBar, doneBar, owedBar

\* When no call changes in the abstract, the abstract takes no step.
LEMMA Stutter ==
  ASSUME TypeOK, TypeOK', \A d \in Calls : SameBar(d)
  PROVE  UNCHANGED Promise!vars
<1>1. client' = client
  BY DEF TypeOK, SameBar
<1>2. phaseBar' = phaseBar
  BY DEF SameBar, phaseBar
<1>3. goalBar' = goalBar
  BY DEF SameBar, goalBar
<1>4. doneBar' = doneBar
  BY DEF SameBar, doneBar
<1>5. owedBar' = owedBar
  BY DEF SameBar, owedBar
<1>. QED
  BY <1>1, <1>2, <1>3, <1>4, <1>5 DEF Promise!vars

\* What a step of call c means in the abstract, the other calls being still.
LEMMA OneCallMoves ==
  ASSUME TypeOK, TypeOK', NEW c \in Calls,
         \A d \in Calls : d # c => SameBar(d)
  PROVE  /\ phaseBar' = [phaseBar EXCEPT ![c] = phaseBar'[c]]
         /\ client' = [client EXCEPT ![c] = client'[c]]
         /\ goalBar' = [goalBar EXCEPT ![c] = goalBar'[c]]
         /\ doneBar' = [doneBar EXCEPT ![c] = doneBar'[c]]
         /\ owedBar' = [owedBar EXCEPT ![c] = owedBar'[c]]
         /\ phaseBar'[c] = phaseBar[c] => phaseBar' = phaseBar
         /\ client'[c] = client[c] => client' = client
         /\ goalBar'[c] = goalBar[c] => goalBar' = goalBar
         /\ doneBar'[c] = doneBar[c] => doneBar' = doneBar
         /\ owedBar'[c] = owedBar[c] => owedBar' = owedBar
<1>1. /\ client' = [client EXCEPT ![c] = client'[c]]
      /\ client'[c] = client[c] => client' = client
  BY DEF TypeOK, SameBar
<1>2. /\ phaseBar' = [phaseBar EXCEPT ![c] = phaseBar'[c]]
      /\ phaseBar'[c] = phaseBar[c] => phaseBar' = phaseBar
  <2>. DEFINE X == phaseBar
  <2>1. X = [d \in Calls |-> X[d]] /\ X' = [d \in Calls |-> X'[d]]
    BY DEF phaseBar
  <2>2. \A d \in Calls : d # c => X'[d] = X[d]
    BY DEF SameBar
  <2>. HIDE DEF X
  <2>3. X' = [X EXCEPT ![c] = X'[c]] /\ (X'[c] = X[c] => X' = X)
    BY <2>1, <2>2
  <2>. QED
    BY <2>3 DEF X
<1>3. /\ goalBar' = [goalBar EXCEPT ![c] = goalBar'[c]]
      /\ goalBar'[c] = goalBar[c] => goalBar' = goalBar
  <2>. DEFINE X == goalBar
  <2>1. X = [d \in Calls |-> X[d]] /\ X' = [d \in Calls |-> X'[d]]
    BY DEF goalBar
  <2>2. \A d \in Calls : d # c => X'[d] = X[d]
    BY DEF SameBar
  <2>. HIDE DEF X
  <2>3. X' = [X EXCEPT ![c] = X'[c]] /\ (X'[c] = X[c] => X' = X)
    BY <2>1, <2>2
  <2>. QED
    BY <2>3 DEF X
<1>4. /\ doneBar' = [doneBar EXCEPT ![c] = doneBar'[c]]
      /\ doneBar'[c] = doneBar[c] => doneBar' = doneBar
  <2>. DEFINE X == doneBar
  <2>1. X = [d \in Calls |-> X[d]] /\ X' = [d \in Calls |-> X'[d]]
    BY DEF doneBar
  <2>2. \A d \in Calls : d # c => X'[d] = X[d]
    BY DEF SameBar
  <2>. HIDE DEF X
  <2>3. X' = [X EXCEPT ![c] = X'[c]] /\ (X'[c] = X[c] => X' = X)
    BY <2>1, <2>2
  <2>. QED
    BY <2>3 DEF X
<1>5. /\ owedBar' = [owedBar EXCEPT ![c] = owedBar'[c]]
      /\ owedBar'[c] = owedBar[c] => owedBar' = owedBar
  <2>. DEFINE X == owedBar
  <2>1. X = [d \in Calls |-> X[d]] /\ X' = [d \in Calls |-> X'[d]]
    BY DEF owedBar
  <2>2. \A d \in Calls : d # c => X'[d] = X[d]
    BY DEF SameBar
  <2>. HIDE DEF X
  <2>3. X' = [X EXCEPT ![c] = X'[c]] /\ (X'[c] = X[c] => X' = X)
    BY <2>1, <2>2
  <2>. QED
    BY <2>3 DEF X
<1>. QED
  BY <1>1, <1>2, <1>3, <1>4, <1>5

\* The abstract state of one call, read off the concrete one.
LEMMA Bars ==
  ASSUME NEW c \in Calls, pc[c] # "denied"
  PROVE  /\ phaseBar[c] = IF pc[c] \in {"accepted", "opened", "ready", "waiting"}
                          THEN "running" ELSE pc[c]
         /\ goalBar[c] = IF client[c] = "none" THEN 0 ELSE 2
         /\ doneBar[c] = Len(work[c])
         /\ owedBar[c] = (pc[c] = "raised" /\ link[c] = "request")
BY DEF phaseBar, goalBar, doneBar, owedBar

LEMMA BarsNext ==
  ASSUME NEW c \in Calls
  PROVE  /\ pc'[c] \in {"accepted", "opened", "ready", "waiting"} => phaseBar'[c] = "running"
         /\ pc'[c] = "denied" => phaseBar'[c] = "failed"
         /\ pc'[c] \notin {"accepted", "opened", "ready", "waiting", "denied"} =>
              phaseBar'[c] = pc'[c]
         /\ goalBar'[c] = IF client'[c] = "none" THEN 0 ELSE 2
         /\ doneBar'[c] = Len(work'[c])
         /\ owedBar'[c] = (pc'[c] = "raised" /\ link'[c] = "request")
BY DEF phaseBar, goalBar, doneBar, owedBar

\* Each action of a call is an abstract action of that call, or leaves it be.
LEMMA CallStep ==
  ASSUME TypeOK, FlowInv, TypeOK', NEW c \in Calls,
         \/ \E t \in Tools : Invoke(c, t) \/ RefuseArguments(c, t)
         \/ HandlerStep(c)
         \/ Serve(c) \/ Disturb(c),
         \A d \in Calls : d # c => SameBar(d)
  PROVE  \/ SameBar(c)
         \/ Promise!Begin(c) \/ Promise!Refuse(c) \/ Promise!Open(c)
         \/ Promise!CarryOut(c) \/ Promise!Settle(c)
         \/ \E e \in {"ok", "failed", "raised"} : Promise!End(c, e)
<1>. DEFINE Moves ==
       /\ phaseBar' = [phaseBar EXCEPT ![c] = phaseBar'[c]]
       /\ client' = [client EXCEPT ![c] = client'[c]]
       /\ goalBar' = [goalBar EXCEPT ![c] = goalBar'[c]]
       /\ doneBar' = [doneBar EXCEPT ![c] = doneBar'[c]]
       /\ owedBar' = [owedBar EXCEPT ![c] = owedBar'[c]]
       /\ phaseBar'[c] = phaseBar[c] => phaseBar' = phaseBar
       /\ client'[c] = client[c] => client' = client
       /\ goalBar'[c] = goalBar[c] => goalBar' = goalBar
       /\ doneBar'[c] = doneBar[c] => doneBar' = doneBar
       /\ owedBar'[c] = owedBar[c] => owedBar' = owedBar
<1>0. Moves
  BY OneCallMoves
<1>. Progress(c)
  BY DEF FlowInv
<1>1. ASSUME NEW t \in Tools, Invoke(c, t)
      PROVE  Promise!Begin(c)
  <2>1. /\ pc[c] = "idle" /\ pc'[c] = "accepted"
        /\ client'[c] = client[c] /\ work'[c] = work[c]
    BY <1>1 DEF Invoke, TypeOK
  <2>2. /\ phaseBar[c] = "idle" /\ phaseBar'[c] = "running"
        /\ goalBar'[c] = goalBar[c] /\ doneBar'[c] = doneBar[c]
        /\ owedBar'[c] = owedBar[c]
    BY <2>1, Bars, BarsNext
  <2>. QED
    BY <1>0, <2>1, <2>2 DEF Promise!Begin
\* Before a client is open, whatever turns a call away leaves no trace.
<1>2. ASSUME pc[c] \in {"idle", "accepted"}, pc'[c] = "refused",
             client'[c] = client[c], work'[c] = work[c]
      PROVE  Promise!Refuse(c)
  <2>1. client[c] = "none"
    BY <1>2 DEF Progress
  <2>2. /\ phaseBar[c] \in {"idle", "running"} /\ phaseBar'[c] = "refused"
        /\ goalBar'[c] = goalBar[c] /\ doneBar'[c] = doneBar[c]
        /\ owedBar'[c] = owedBar[c]
    BY <1>2, Bars, BarsNext
  <2>. QED
    BY <1>0, <1>2, <2>1, <2>2 DEF Promise!Refuse
<1>3. ASSUME NEW t \in Tools, RefuseArguments(c, t)
      PROVE  Promise!Refuse(c)
  <2>1. /\ pc[c] = "idle" /\ pc'[c] = "refused"
        /\ client'[c] = client[c] /\ work'[c] = work[c]
    BY <1>3 DEF RefuseArguments, TypeOK
  <2>. QED
    BY <1>2, <2>1
<1>4. CASE OpenClient(c)
  <2>1. /\ pc[c] = "accepted" /\ pc'[c] = "opened" /\ client[c] = "none"
        /\ client'[c] = "open" /\ work'[c] = work[c]
    BY <1>4 DEF OpenClient, TypeOK, Progress
  <2>2. /\ phaseBar[c] = "running" /\ phaseBar'[c] = "running"
        /\ goalBar'[c] = 2 /\ doneBar'[c] = doneBar[c]
        /\ owedBar'[c] = owedBar[c]
    BY <2>1, Bars, BarsNext
  <2>3. goalBar'[c] \in 0..2
    BY <2>2
  <2>. QED
    BY <1>0, <2>1, <2>2, <2>3 DEF Promise!Open
<1>5. CASE ConfigMissing(c)
  <2>1. /\ pc[c] = "accepted" /\ pc'[c] = "refused"
        /\ client'[c] = client[c] /\ work'[c] = work[c]
    BY <1>5 DEF ConfigMissing, TypeOK
  <2>. QED
    BY <1>2, <2>1
\* A handler that ends, however it does, closes its client; PERMISSION_DENIED
\* is one more way of failing.
<1>6. ASSUME pc[c] \in {"opened", "ready", "waiting"},
             pc'[c] \in {"ok", "failed", "denied", "raised"}, client'[c] = "closed",
             work'[c] = work[c],
             pc'[c] = "ok" => Len(work[c]) = 2
      PROVE  \E e \in {"ok", "failed", "raised"} : Promise!End(c, e)
  <2>1. client[c] = "open"
    BY <1>6 DEF Progress
  <2>2. PICK e \in {"ok", "failed", "raised"} :
          e = IF pc'[c] = "denied" THEN "failed" ELSE pc'[c]
    BY <1>6
  <2>3. phaseBar'[c] = e
    BY <1>6, <2>2, BarsNext
  <2>4. /\ phaseBar[c] = "running"
        /\ goalBar'[c] = goalBar[c] /\ doneBar'[c] = doneBar[c]
        /\ goalBar[c] = 2 /\ doneBar[c] = Len(work[c])
    BY <1>6, <2>1, Bars, BarsNext
  <2>5. owedBar'[c] \in BOOLEAN /\ (owedBar'[c] => e = "raised")
    BY <2>2, BarsNext
  <2>6. e = "ok" => doneBar[c] = goalBar[c]
    BY <1>6, <2>2, <2>4
  <2>. QED
    BY <1>0, <1>6, <2>1, <2>3, <2>4, <2>5, <2>6 DEF Promise!End
<1>7. ASSUME pc[c] \in {"opened", "ready", "waiting"},
             pc'[c] \in {"opened", "ready", "waiting"},
             client'[c] = client[c], work'[c] = work[c]
      PROVE  SameBar(c)
  BY <1>7, Bars, BarsNext DEF SameBar
<1>8. CASE ReadSubject(c)
  <2>1. pc[c] = "opened" /\ work'[c] = work[c]
    BY <1>8 DEF ReadSubject
  <2>2. \/ pc'[c] = "failed" /\ client'[c] = "closed"
        \/ pc'[c] = "ready" /\ client'[c] = client[c]
    BY <1>8 DEF ReadSubject, EndCall, TypeOK
  <2>. QED
    BY <1>6, <1>7, <2>1, <2>2
<1>9. CASE Send(c)
  <2>1. pc[c] = "ready" /\ work'[c] = work[c]
    BY <1>9 DEF Send
  <2>2. \/ pc'[c] = "denied" /\ client'[c] = "closed"
        \/ pc'[c] = "waiting" /\ client'[c] = client[c]
    BY <1>9 DEF Send, EndCall, TypeOK
  <2>. QED
    BY <1>6, <1>7, <2>1, <2>2
<1>10. CASE Receive(c)
  <2>1. pc[c] = "waiting" /\ link[c] = "done" /\ work'[c] = work[c]
    BY <1>10 DEF Receive, ReplyIsGood
  <2>2. \/ pc'[c] = "ready" /\ client'[c] = client[c]
        \/ pc'[c] = "denied" /\ client'[c] = "closed"
        \/ at[c] = 2 /\ pc'[c] = "ok" /\ client'[c] = "closed"
    BY <1>10 DEF Receive, EndCall, TypeOK
  <2>3. Len(work[c]) = at[c]
    BY <2>1 DEF Progress
  <2>. QED
    BY <1>6, <1>7, <2>1, <2>2, <2>3
<1>11. CASE ReceiveFailure(c) \/ GiveUp(c)
  <2>1. /\ pc[c] = "waiting" /\ pc'[c] \in {"failed", "raised"}
        /\ client'[c] = "closed" /\ work'[c] = work[c]
    BY <1>11 DEF ReceiveFailure, GiveUp, EndCall, TypeOK
  <2>. QED
    BY <1>6, <2>1
<1>12. CASE Serve(c)
  <2>1. /\ link[c] = "request" /\ pc[c] \in {"waiting", "raised"}
        /\ at[c] \in {1, 2} /\ Len(work[c]) = at[c] - 1
    BY <1>12, InTransit DEF Serve
  <2>2. /\ pc' = pc /\ client' = client /\ Len(work'[c]) = at[c]
        /\ link'[c] = IF pc[c] = "waiting" THEN "done" ELSE "quiet"
    BY <1>12, ServeEffect
  <2>3. client[c] # "none"
    BY <2>1 DEF Progress, Ended
  <2>4. Len(work'[c]) = Len(work[c]) + 1 /\ Len(work[c]) < 2
    BY <2>1, <2>2
  <2>5. /\ phaseBar'[c] = phaseBar[c] /\ goalBar'[c] = goalBar[c]
        /\ doneBar'[c] = doneBar[c] + 1 /\ doneBar[c] < goalBar[c]
    BY <2>1, <2>2, <2>3, <2>4, Bars, BarsNext
  <2>6. CASE pc[c] = "waiting"
    <3>1. client[c] = "open"
      BY <2>6 DEF Progress
    <3>2. owedBar'[c] = owedBar[c]
      BY <2>2, <2>6, Bars, BarsNext
    <3>. QED
      BY <1>0, <2>2, <2>5, <3>1, <3>2 DEF Promise!CarryOut
  <2>7. CASE pc[c] = "raised"
    <3>1. owedBar[c] = TRUE /\ owedBar'[c] = FALSE
      BY <2>1, <2>2, <2>7, Bars, BarsNext
    <3>. QED
      BY <1>0, <2>2, <2>5, <3>1 DEF Promise!Settle
  <2>. QED
    BY <2>1, <2>6, <2>7
<1>13. CASE Disturb(c)
  <2>1. /\ pc'[c] = pc[c] /\ client'[c] = client[c] /\ work'[c] = work[c]
        /\ pc[c] \in {"waiting", "raised"}
    <3>1. UNCHANGED <<pc, client, work>> /\ link[c] # "quiet"
      BY <1>13 DEF Disturb, Trouble, handlerVars
    <3>. QED
      BY <3>1 DEF Progress
  <2>2. /\ phaseBar'[c] = phaseBar[c] /\ goalBar'[c] = goalBar[c]
        /\ doneBar'[c] = doneBar[c]
    BY <2>1, Bars, BarsNext
  <2>3. CASE pc[c] # "raised"
    BY <2>1, <2>2, <2>3, Bars, BarsNext DEF SameBar
  <2>4. CASE pc[c] = "raised"
    <3>1. link[c] = "request" /\ link'[c] = "quiet"
      BY <1>13, <2>4 DEF Disturb, Trouble, TypeOK, Progress
    <3>2. owedBar[c] = TRUE /\ owedBar'[c] = FALSE
      BY <2>4, <3>1, <2>1, Bars, BarsNext
    <3>. QED
      BY <1>0, <2>1, <2>2, <3>2 DEF Promise!Settle
  <2>. QED
    BY <2>3, <2>4
<1>. QED
  BY <1>1, <1>3, <1>4, <1>5, <1>8, <1>9, <1>10, <1>11, <1>12, <1>13
     DEF HandlerStep

LEMMA StepImplements ==
  ASSUME TypeOK, FlowInv, TypeOK', [Next]_vars
  PROVE  [Promise!Next]_(Promise!vars)
<1>1. CASE RotateToken \/ RotateSubject \/ Revoke \/ UNCHANGED vars
  <2>1. \A d \in Calls : SameCall(d)
    BY <1>1, EnvironmentFrame
  <2>. QED
    BY <2>1, SameCallSameBar, Stutter
<1>2. ASSUME NEW c \in Calls,
             \/ \E t \in Tools : Invoke(c, t) \/ RefuseArguments(c, t)
             \/ HandlerStep(c)
             \/ Serve(c) \/ Disturb(c)
      PROVE  [Promise!Next]_(Promise!vars)
  <2>1. \A d \in Calls : d # c => SameBar(d)
    BY <1>2, OneCallAtATime, SameCallSameBar
  <2>2. CASE SameBar(c)
    BY <2>1, <2>2, Stutter
  <2>3. CASE ~SameBar(c)
    BY <1>2, <2>1, <2>3, CallStep DEF Promise!Next
  <2>. QED
    BY <2>2, <2>3
<1>. QED
  BY <1>1, <1>2 DEF Next

\* Every admin call, whatever is rotated or revoked while it runs, is a call as
\* ToolCall describes it: the same promise that the plan-preparation tools keep.
THEOREM AdminOperationsKeepThePromise == Spec => ImplementsToolCall
<1>1. Init => Promise!Init
  <2>. SUFFICES ASSUME Init PROVE Promise!Init
    OBVIOUS
  <2>1. phaseBar = [c \in Calls |-> "idle"] /\ goalBar = [c \in Calls |-> 0]
    BY DEF Init, phaseBar, goalBar
  <2>2. doneBar = [c \in Calls |-> 0]
    BY DEF Init, doneBar
  <2>3. owedBar = [c \in Calls |-> FALSE]
    <3>1. \A c \in Calls : (pc[c] = "raised" /\ link[c] = "request") = FALSE
      BY DEF Init
    <3>. QED
      BY <3>1 DEF owedBar
  <2>. QED
    BY <2>1, <2>2, <2>3 DEF Init, Promise!Init
<1>2. TypeOK /\ FlowInv /\ TypeOK' /\ [Next]_vars => [Promise!Next]_(Promise!vars)
  BY StepImplements
<1>. QED
  BY TypeAndFlow, <1>1, <1>2, PTL DEF Spec, ImplementsToolCall, Promise!Spec
===============================================================================
