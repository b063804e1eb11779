------------------------- MODULE PlanPreparationProofs -------------------------
(***************************************************************************)
(* What PlanPreparation guarantees for any number of calls, any tools on   *)
(* offer, any approvals and any clock.                                     *)
(***************************************************************************)
EXTENDS PlanPreparation, TLAPS

-------------------------------------------------------------------------------
\* A script is a non-empty sequence of at most four steps.
LEMMA ScriptShape ==
  ASSUME NEW t \in Tools
  PROVE  /\ Script(t) \in Seq(Steps)
         /\ Len(Script(t)) \in 1..4
         /\ \A i \in 1..Len(Script(t)) : Script(t)[i] \in Steps
<1>1. CASE t = "prepare"
  <2>. DEFINE full == <<"normalize", "snapshot", "decision", "compile">>
  <2>1. Script(t) = full
    BY <1>1 DEF Script
  <2>2. full \in Seq(Steps) /\ Len(full) = 4
    BY DEF Steps
  <2>. QED
    BY <2>1, <2>2
<1>2. CASE t \in Steps
  <2>1. Script(t) = <<t>>
    BY <1>2 DEF Script, Steps
  <2>. QED
    BY <1>2, <2>1
<1>. QED
  BY <1>1, <1>2 DEF Tools

\* Only the tools that take an approval have a compile step.
LEMMA OnlyTwoToolsCompile ==
  ASSUME NEW t \in Tools, NEW i \in 1..Len(Script(t)), Script(t)[i] = "compile"
  PROVE  TakesApproval(t)
<1>1. CASE t = "prepare"
  BY <1>1 DEF TakesApproval
<1>2. CASE t \in Steps
  <2>1. Script(t) = <<t>>
    BY <1>2 DEF Script, Steps
  <2>2. i = 1
    BY <2>1
  <2>. QED
    BY <2>1, <2>2 DEF TakesApproval
<1>. QED
  BY <1>1, <1>2 DEF Tools

\* Handlers build bodies of the declared shape (the client methods of client.py).
LEMMA RequestShape ==
  ASSUME TypeOK, NEW c \in Calls, tool[c] \in Tools,
         at[c] <= Len(Script(tool[c]))
  PROVE  Request(c) \in Bodies /\ Request(c).step = Script(tool[c])[at[c]]
<1>1. at[c] \in 1..Len(Script(tool[c]))
  <2>1. at[c] \in 1..4
    BY DEF TypeOK
  <2>2. Len(Script(tool[c])) \in 1..4
    BY ScriptShape
  <2>. QED
    BY <2>1, <2>2
<1>2. Script(tool[c])[at[c]] \in Steps
  BY <1>1, ScriptShape
<1>3. local[c] \in Held /\ appr[c] \in Approvals \cup {None}
  BY DEF TypeOK
<1>. QED
  BY <1>2, <1>3 DEF Request, Bodies, Held

-------------------------------------------------------------------------------
(* Types and the progress of calls.                                         *)

\* A call that has been invoked has a tool, and its position is in the script.
LEMMA InvokedHasTool ==
  ASSUME TypeOK, FlowInv, NEW c \in Calls, pc[c] # "idle"
  PROVE  /\ tool[c] \in Tools
         /\ at[c] \in 1..Len(Script(tool[c]))
         /\ Len(Script(tool[c])) \in 1..4
<1>1. Progress(c) /\ tool[c] \in Tools \cup {None} /\ at[c] \in 1..4
  BY DEF FlowInv, TypeOK
<1>2. tool[c] # None /\ at[c] <= Len(Script(tool[c]))
  BY <1>1 DEF Progress
<1>3. Len(Script(tool[c])) \in 1..4
  BY <1>1, <1>2, ScriptShape
<1>. QED
  BY <1>1, <1>2, <1>3

\* A request in transit is the one the call's position calls for, and a
\* compile request always carries an approval.
LEMMA RequestInTransit ==
  ASSUME TypeOK, FlowInv, NEW c \in Calls, link[c] # "quiet"
  PROVE  /\ body[c] \in Bodies
         /\ body[c].step = Script(tool[c])[at[c]]
         /\ body[c].step = "compile" => /\ TakesApproval(tool[c])
                                        /\ body[c].appr = appr[c]
                                        /\ body[c].appr \in Approvals
<1>1. Progress(c)
  BY DEF FlowInv
<1>2. pc[c] \notin {"idle", "refused"} /\ body[c] = Request(c)
  BY <1>1 DEF Progress
<1>3. tool[c] \in Tools /\ at[c] \in 1..Len(Script(tool[c]))
  BY <1>2, InvokedHasTool
<1>4. body[c] \in Bodies /\ body[c].step = Script(tool[c])[at[c]]
  BY <1>2, <1>3, RequestShape, ScriptShape
<1>5. ASSUME body[c].step = "compile"
      PROVE  /\ TakesApproval(tool[c])
             /\ body[c].appr = appr[c]
             /\ body[c].appr \in Approvals
  <2>1. TakesApproval(tool[c])
    BY <1>3, <1>4, <1>5, OnlyTwoToolsCompile
  <2>2. body[c].appr = appr[c]
    BY <1>2, <1>4, <1>5 DEF Request
  <2>3. appr[c] \in Approvals
    BY <1>1, <1>2, <2>1 DEF Progress, TypeOK
  <2>. QED
    BY <2>1, <2>2, <2>3
<1>. QED
  BY <1>4, <1>5

\* A position before the last of at most four has a successor among them.
LEMMA NextPosition ==
  \A i, n \in 1..4 : i < n => i + 1 \in 1..4
OBVIOUS

LEMMA TypeStep ==
  ASSUME TypeOK, FlowInv, [Next]_vars
  PROVE  TypeOK'
<1>1. CASE Tick
  <2>1. now' \in 0..MaxTime
    BY <1>1, MaxTimeAssumption DEF TypeOK, Links, Tick
  <2>. QED
    BY <1>1, <2>1 DEF TypeOK, Links, Tick, handlerVars, storeVars
<1>2. ASSUME NEW c \in Calls, NEW t \in Tools, Invoke(c, t)
      PROVE  TypeOK'
  <2>1. PICK h \in Arguments(t), a \in Approvals \cup {None} :
          /\ local' = [local EXCEPT ![c] = h]
          /\ appr' = [appr EXCEPT ![c] = a]
    BY <1>2 DEF Invoke
  <2>2. h \in Held
    BY DEF Arguments
  <2>. QED
    BY <1>2, <2>1, <2>2 DEF TypeOK, Links, Invoke, storeVars
<1>3. ASSUME NEW c \in Calls, NEW t \in Tools, RefuseArguments(c, t)
      PROVE  TypeOK'
  BY <1>3 DEF TypeOK, Links, RefuseArguments, storeVars, Ended
<1>4. ASSUME NEW c \in Calls, OpenClient(c)
      PROVE  TypeOK'
  BY <1>4 DEF TypeOK, Links, OpenClient, storeVars
<1>5. ASSUME NEW c \in Calls, ConfigMissing(c)
      PROVE  TypeOK'
  BY <1>5 DEF TypeOK, Links, ConfigMissing, storeVars, Ended
<1>6. ASSUME NEW c \in Calls, Send(c)
      PROVE  TypeOK'
  <2>1. Request(c) \in Bodies
    <3>1. pc[c] # "idle"
      BY <1>6 DEF Send, Transmit
    <3>2. tool[c] \in Tools /\ at[c] \in 1..Len(Script(tool[c]))
      BY <3>1, InvokedHasTool
    <3>. QED
      BY <3>2, RequestShape, ScriptShape
  <2>. QED
    BY <1>6, <2>1 DEF TypeOK, Links, Send, Transmit, storeVars
<1>7. ASSUME NEW c \in Calls, Receive(c)
      PROVE  TypeOK'
  <2>1. Learn(local[c], body[c].step, c) \in Held
    BY DEF TypeOK, Links, Learn, Held
  <2>2. at[c] < Len(Script(tool[c])) => at[c] + 1 \in 1..4
    <3>1. pc[c] # "idle"
      BY <1>7 DEF Receive, EndCall, ReplyIsGood, Consume
    <3>2. Len(Script(tool[c])) \in 1..4
      BY <3>1, InvokedHasTool
    <3>3. at[c] \in 1..4
      BY DEF TypeOK
    <3>. QED
      BY <3>2, <3>3, NextPosition
  <2>3. local' \in [Calls -> Held]
    BY <1>7, <2>1 DEF TypeOK, Receive
  <2>4. at' \in [Calls -> 1..4]
    BY <1>7, <2>2 DEF TypeOK, Receive
  <2>5. client' \in [Calls -> {"none", "open", "closed"}]
    BY <1>7 DEF TypeOK, Receive, EndCall
  <2>6. pc' \in [Calls -> {"idle", "accepted", "ready", "waiting"} \cup Ended]
    <3>1. pc' = [pc EXCEPT ![c] = "ready"] \/ pc' = [pc EXCEPT ![c] = "ok"]
      BY <1>7 DEF Receive, EndCall
    <3>. QED
      BY <3>1 DEF TypeOK, Ended
  <2>7. link' \in [Calls -> Links]
    BY <1>7 DEF TypeOK, Links, Receive, Consume
  <2>. QED
    BY <1>7, <2>3, <2>4, <2>5, <2>6, <2>7 DEF TypeOK, Receive, storeVars
<1>8. ASSUME NEW c \in Calls, ReceiveFailure(c)
      PROVE  TypeOK'
  BY <1>8
     DEF TypeOK, Links, ReceiveFailure, ReplyIsBad, Consume, EndCall,
         storeVars, Ended
<1>9. ASSUME NEW c \in Calls, GiveUp(c)
      PROVE  TypeOK'
  BY <1>9 DEF TypeOK, Links, GiveUp, EndCall, Abandon, storeVars, Ended
<1>10. ASSUME NEW c \in Calls, Serve(c)
       PROVE  TypeOK'
  <2>1. body[c] \in Bodies
    BY <1>10, RequestInTransit DEF Serve, Respond
  <2>2. work' \in [Calls -> Seq(Steps)]
    BY <1>10, <2>1 DEF TypeOK, Links, Serve, Respond, Bodies
  <2>3. norms' \subseteq Calls
    BY <1>10
       DEF TypeOK, Links, Serve, Respond, StoreNormalized, StoreSnapshot,
           StoreDecision, StorePlan
  <2>4. snaps' \subseteq [id: Calls, norm: Calls]
    BY <1>10
       DEF TypeOK, Links, Serve, Respond, StoreNormalized, StoreSnapshot,
           StoreDecision, StorePlan
  <2>5. decs' \subseteq [id: Calls, norm: Calls, snap: Calls, madeAt: 0..MaxTime]
    BY <1>10
       DEF TypeOK, Links, Serve, Respond, StoreNormalized, StoreSnapshot,
           StoreDecision, StorePlan
  <2>6. plans' \subseteq [id: Calls, norm: Calls, snap: Calls, dec: Calls,
                          appr: Approvals]
    <3>1. body[c].step = "compile" => body[c].appr \in Approvals
      BY <1>10, RequestInTransit DEF Serve, Respond
    <3>. DEFINE new == [id |-> c, norm |-> body[c].norm, snap |-> body[c].snap,
                        dec |-> body[c].dec, appr |-> body[c].appr]
    <3>2. CASE plans' = plans
      BY <3>2 DEF TypeOK
    <3>3. CASE StorePlan(c)
      <4>1. body[c].norm \in Calls /\ body[c].snap \in Calls /\ body[c].dec \in Calls
        BY <3>3 DEF StorePlan, TypeOK
      <4>2. new \in [id: Calls, norm: Calls, snap: Calls, dec: Calls, appr: Approvals]
        BY <3>1, <3>3, <4>1 DEF StorePlan
      <4>3. plans' = plans \cup {new}
        BY <3>3 DEF StorePlan
      <4>. QED
        BY <4>2, <4>3 DEF TypeOK
    <3>. QED
      BY <1>10, <3>2, <3>3 DEF Serve, StoreNormalized, StoreSnapshot, StoreDecision
  <2>. QED
    BY <1>10, <2>2, <2>3, <2>4, <2>5, <2>6
       DEF TypeOK, Links, Serve, Respond, handlerVars
<1>11. ASSUME NEW c \in Calls, Disturb(c)
       PROVE  TypeOK'
  BY <1>11 DEF TypeOK, Links, Disturb, Trouble, handlerVars, storeVars
<1>12. CASE UNCHANGED vars
  BY <1>12 DEF TypeOK, Links, vars, handlerVars, storeVars
<1>. QED
  BY <1>1, <1>2, <1>3, <1>4, <1>5, <1>6, <1>7, <1>8, <1>9, <1>10, <1>11, <1>12
     DEF Next, HandlerStep

\* Nothing about call d changes in a step.
SameCall(d) ==
  /\ tool'[d] = tool[d] /\ pc'[d] = pc[d] /\ client'[d] = client[d]
  /\ at'[d] = at[d] /\ local'[d] = local[d] /\ appr'[d] = appr[d]
  /\ body'[d] = body[d] /\ link'[d] = link[d] /\ work'[d] = work[d]

\* A step in which call d has no part leaves its progress as it was.
LEMMA Frame ==
  ASSUME NEW d \in Calls, Progress(d), SameCall(d)
  PROVE  Progress(d)'
BY DEF Progress, SameCall, Request

\* A step concerns one call, or none: the calls share only the executor.
LEMMA OneCallAtATime ==
  ASSUME TypeOK, NEW c \in Calls, NEW d \in Calls, d # c,
         \/ \E t \in Tools : Invoke(c, t) \/ RefuseArguments(c, t)
         \/ HandlerStep(c)
         \/ Serve(c) \/ Disturb(c)
  PROVE  SameCall(d)
<1>. USE DEF TypeOK, SameCall, storeVars, handlerVars
<1>1. CASE \E t \in Tools : Invoke(c, t) \/ RefuseArguments(c, t)
  BY <1>1 DEF Invoke, RefuseArguments
<1>2. CASE OpenClient(c) \/ ConfigMissing(c) \/ Send(c)
  BY <1>2 DEF OpenClient, ConfigMissing, Send, Transmit
<1>3. CASE Receive(c)
  BY <1>3 DEF Receive, EndCall, ReplyIsGood, Consume
<1>4. CASE ReceiveFailure(c) \/ GiveUp(c)
  BY <1>4 DEF ReceiveFailure, ReplyIsBad, Consume, EndCall, GiveUp, Abandon
<1>5. CASE Serve(c) \/ Disturb(c)
  BY <1>5 DEF Serve, Respond, Disturb, Trouble
<1>. QED
  BY <1>1, <1>2, <1>3, <1>4, <1>5 DEF HandlerStep

\* The executor's part: a carried-out step extends the prefix by one.
LEMMA ServeProgress ==
  ASSUME TypeOK, FlowInv, NEW c \in Calls, Serve(c)
  PROVE  Progress(c)'
<1>. DEFINE S == Script(tool[c])
            n == Len(work[c])
<1>1. /\ Progress(c) /\ link[c] = "request" /\ pc[c] \in {"waiting", "raised"}
      /\ tool'[c] = tool[c] /\ pc'[c] = pc[c] /\ client'[c] = client[c]
      /\ at'[c] = at[c] /\ local'[c] = local[c] /\ appr'[c] = appr[c]
      /\ body'[c] = body[c]
      /\ work'[c] = Append(work[c], body[c].step)
      /\ link'[c] = IF pc[c] = "waiting" THEN "done" ELSE "quiet"
  <2>1. Progress(c) /\ link[c] = "request"
    BY DEF FlowInv, Serve, Respond
  <2>2. pc[c] \in {"waiting", "raised"}
    BY <2>1 DEF Progress, TypeOK, Ended
  <2>. QED
    BY <2>1, <2>2 DEF Serve, Respond, handlerVars, TypeOK
<1>2. body[c].step = S[at[c]] /\ body[c].step \in Steps
  <2>1. link[c] # "quiet"
    BY <1>1
  <2>. QED
    BY <2>1, RequestInTransit DEF Bodies
<1>3. /\ n = at[c] - 1 /\ at[c] \in Nat /\ n \in Nat /\ work[c] \in Seq(Steps)
      /\ at[c] <= Len(S) /\ \A i \in 1..n : work[c][i] = S[i]
  <2>0. at[c] \in 1..4
    BY DEF TypeOK
  <2>1. work[c] \in Seq(Steps)
    BY DEF TypeOK
  <2>2. n \in Nat
    BY <2>1
  <2>3. n = at[c] - 1
    BY <1>1 DEF Progress
  <2>4. pc[c] # "idle"
    BY <1>1
  <2>5. at[c] <= Len(S) /\ \A i \in 1..n : work[c][i] = S[i]
    BY <1>1, <2>4 DEF Progress
  <2>. QED
    BY <2>0, <2>1, <2>2, <2>3, <2>5
<1>4. Len(work'[c]) = at[c]
  BY <1>1, <1>2, <1>3
<1>5. \A i \in 1..at[c] : work'[c][i] = S[i]
  <2>1. ASSUME NEW i \in 1..at[c]
        PROVE  Append(work[c], body[c].step)[i] = IF i = at[c] THEN body[c].step
                                                 ELSE work[c][i]
    BY <1>2, <1>3
  <2>. QED
    BY <1>1, <1>2, <1>3, <2>1
<1>. QED
  BY <1>1, <1>3, <1>4, <1>5 DEF Progress, Request

LEMMA FlowStep ==
  ASSUME TypeOK, FlowInv, [Next]_vars
  PROVE  FlowInv'
<1>1. CASE Tick \/ UNCHANGED vars
  <2>1. \A d \in Calls : Progress(d) /\ SameCall(d)
    BY <1>1 DEF FlowInv, Tick, vars, handlerVars, storeVars, SameCall
  <2>. QED
    BY <2>1, Frame DEF FlowInv
<1>2. ASSUME NEW c \in Calls,
             \/ \E t \in Tools : Invoke(c, t) \/ RefuseArguments(c, t)
             \/ HandlerStep(c)
             \/ Serve(c) \/ Disturb(c)
      PROVE  FlowInv'
  <2>. Progress(c)
    BY DEF FlowInv
  <2>1. ASSUME NEW t \in Tools, Invoke(c, t)
        PROVE  Progress(c)'
    <3>1. TakesApproval(t) => appr'[c] \in Approvals
      BY <2>1 DEF Invoke, TypeOK
    <3>2. t # None /\ None \notin Approvals
      BY NoneAssumption
    <3>3. at[c] = 1 /\ Len(work[c]) = 0 /\ 1 <= Len(Script(t)) /\ 0 <= Len(Script(t))
      BY <2>1, ScriptShape DEF Invoke, Progress
    <3>. QED
      BY <2>1, <3>1, <3>2, <3>3 DEF Invoke, storeVars, TypeOK, Progress
  <2>2. ASSUME NEW t \in Tools, RefuseArguments(c, t)
        PROVE  Progress(c)'
    <3>1. t # None
      BY NoneAssumption
    <3>2. 1 <= Len(Script(t)) /\ 0 <= Len(Script(t))
      BY ScriptShape
    <3>3. at[c] = 1 /\ Len(work[c]) = 0
      BY <2>2 DEF RefuseArguments, Progress
    <3>. QED
      BY <2>2, <3>1, <3>2, <3>3
         DEF RefuseArguments, storeVars, TypeOK, Progress
  <2>3. ASSUME OpenClient(c) \/ ConfigMissing(c)
        PROVE  Progress(c)'
    BY <2>3 DEF OpenClient, ConfigMissing, storeVars, TypeOK, Progress
  <2>4. ASSUME Send(c)
        PROVE  Progress(c)'
    BY <2>4 DEF Send, Transmit, storeVars, TypeOK, Progress, Request
  <2>5. ASSUME Receive(c)
        PROVE  Progress(c)'
    BY <2>5
       DEF Receive, EndCall, ReplyIsGood, Consume, storeVars, TypeOK, Progress
  <2>6. ASSUME ReceiveFailure(c) \/ GiveUp(c)
        PROVE  Progress(c)'
    BY <2>6
       DEF ReceiveFailure, ReplyIsBad, Consume, EndCall, GiveUp, Abandon,
           storeVars, TypeOK, Progress, Request
  <2>7. ASSUME Disturb(c)
        PROVE  Progress(c)'
    BY <2>7
       DEF Disturb, Trouble, handlerVars, storeVars, TypeOK, Progress, Request
  <2>8. Progress(c)'
    BY <1>2, <2>1, <2>2, <2>3, <2>4, <2>5, <2>6, <2>7, ServeProgress
       DEF HandlerStep
  <2>9. ASSUME NEW d \in Calls, d # c
        PROVE  Progress(d)'
    <3>1. Progress(d) /\ SameCall(d)
      BY <1>2, <2>9, OneCallAtATime DEF FlowInv
    <3>. QED
      BY <3>1, Frame
  <2>. QED
    BY <2>8, <2>9 DEF FlowInv
<1>. QED
  BY <1>1, <1>2 DEF Next

LEMMA InitFlow ==
  Init => TypeOK /\ FlowInv
<1>. SUFFICES ASSUME Init PROVE TypeOK /\ FlowInv
  OBVIOUS
<1>1. TypeOK
  BY MaxTimeAssumption DEF Init, TypeOK, Links, Held, Nothing
<1>2. ASSUME NEW c \in Calls PROVE Progress(c)
  BY <1>2 DEF Init, Progress
<1>. QED
  BY <1>1, <1>2 DEF FlowInv

\* Every reachable state is well-typed, and every call's position, client,
\* connection and carried-out work agree: the two hold together because a
\* reply is only counted by a handler that is where the script says.
THEOREM TypeAndFlow == Spec => [](TypeOK /\ FlowInv)
<1>1. TypeOK /\ FlowInv /\ [Next]_vars => (TypeOK /\ FlowInv)'
  BY TypeStep, FlowStep
<1>. QED
  BY InitFlow, <1>1, PTL DEF Spec

\* For any number of concurrent calls the executor carries out a prefix of
\* each tool's script, no step twice (client.py: no method retries).
THEOREM WorkInOrder == Spec => []CarriedOutInOrder
<1>1. TypeOK /\ FlowInv => CarriedOutInOrder
  <2>. SUFFICES ASSUME FlowInv, NEW c \in Calls, tool[c] # None
                PROVE  /\ Len(work[c]) <= Len(Script(tool[c]))
                       /\ \A i \in 1..Len(work[c]) : work[c][i] = Script(tool[c])[i]
    BY DEF CarriedOutInOrder
  <2>1. Progress(c)
    BY DEF FlowInv
  <2>2. pc[c] # "idle"
    BY <2>1 DEF Progress
  <2>. QED
    BY <2>1, <2>2 DEF Progress
<1>. QED
  BY TypeAndFlow, <1>1, PTL

\* A tool that answers without an error has had its whole script carried out.
THEOREM OkIsDone == Spec => []OkMeansDone
<1>1. TypeOK /\ FlowInv => OkMeansDone
  <2>. SUFFICES ASSUME TypeOK, FlowInv, NEW c \in Calls, pc[c] = "ok"
                PROVE  work[c] = Script(tool[c])
    BY DEF OkMeansDone
  <2>. DEFINE S == Script(tool[c])
  <2>1. Progress(c) /\ pc[c] # "idle"
    BY DEF FlowInv
  <2>2. tool[c] \in Tools
    BY <2>1, InvokedHasTool
  <2>3. work[c] \in Seq(Steps) /\ S \in Seq(Steps)
    BY <2>2, ScriptShape DEF TypeOK
  <2>4. Len(work[c]) = Len(S) /\ \A i \in 1..Len(work[c]) : work[c][i] = S[i]
    BY <2>1 DEF Progress
  <2>. HIDE DEF S
  <2>5. work[c] = S
    BY <2>3, <2>4
  <2>. QED
    BY <2>5 DEF S
<1>. QED
  BY TypeAndFlow, <1>1, PTL

\* A refusal (bad arguments, LIVE_SUBMIT, missing configuration) happens
\* before there is a client, and nothing is ever done for it.
THEOREM RefusalsAreClean == Spec => []RefusedLeavesNoTrace
<1>1. TypeOK /\ FlowInv => RefusedLeavesNoTrace
  <2>. SUFFICES ASSUME TypeOK, FlowInv, NEW c \in Calls, pc[c] = "refused"
                PROVE  client[c] = "none" /\ link[c] = "quiet" /\ work[c] = << >>
    BY DEF RefusedLeavesNoTrace
  <2>1. client[c] = "none" /\ link[c] = "quiet" /\ Len(work[c]) = 0
    BY DEF FlowInv, Progress
  <2>2. work[c] \in Seq(Steps)
    BY DEF TypeOK
  <2>. QED
    BY <2>1, <2>2
<1>. QED
  BY TypeAndFlow, <1>1, PTL

\* _with_client's finally: whichever way a handler ends, its client is closed.
THEOREM ClientsAreClosed == Spec => []ClientsAreNotLeaked
<1>1. TypeOK /\ FlowInv => ClientsAreNotLeaked
  BY DEF TypeOK, FlowInv, Progress, ClientsAreNotLeaked, Ended
<1>. QED
  BY TypeAndFlow, <1>1, PTL

\* An answered call is final: _with_client answers only what the executor has
\* already replied to, and lets a timeout escape instead of answering it.
THEOREM AnswersAreFinal == Spec => AnsweredMeansSettled
<1>. DEFINE Settled(c) ==
       /\ pc[c] \in {"ok", "refused", "failed"} =>
            work'[c] = work[c] /\ pc'[c] = pc[c]
       /\ pc[c] = "raised" /\ work'[c] # work[c] =>
            /\ link[c] = "request" /\ link'[c] = "quiet"
            /\ Len(work'[c]) = Len(work[c]) + 1
<1>1. ASSUME TypeOK, FlowInv, [Next]_vars, NEW c \in Calls
      PROVE  Settled(c)
  <2>1. CASE SameCall(c)
    BY <2>1 DEF SameCall
  <2>2. CASE Tick \/ UNCHANGED vars
    BY <2>2 DEF Tick, vars, handlerVars, storeVars
  <2>3. CASE \E t \in Tools : Invoke(c, t) \/ RefuseArguments(c, t)
    BY <2>3 DEF Invoke, RefuseArguments
  <2>4. CASE HandlerStep(c)
    BY <2>4
       DEF HandlerStep, OpenClient, ConfigMissing, Send, Transmit, Receive,
           EndCall, ReplyIsGood, Consume, ReceiveFailure, ReplyIsBad, GiveUp,
           Abandon
  <2>5. CASE Disturb(c)
    BY <2>5 DEF Disturb, Trouble, handlerVars, storeVars
  <2>6. CASE Serve(c)
    <3>1. Progress(c) /\ link[c] = "request" /\ pc'[c] = pc[c]
      BY <1>1, <2>6 DEF Serve, Respond, FlowInv, handlerVars
    <3>2. pc[c] \notin {"ok", "refused", "failed"}
      BY <3>1 DEF Progress
    <3>3. pc[c] = "raised" => link'[c] = "quiet"
      BY <1>1, <2>6 DEF Serve, Respond, TypeOK
    <3>4. body[c] \in Bodies
      BY <1>1, <3>1, RequestInTransit
    <3>5. body[c].step \in Steps /\ work[c] \in Seq(Steps)
      BY <1>1, <3>4 DEF Bodies, TypeOK
    <3>6. work'[c] = Append(work[c], body[c].step)
      BY <1>1, <2>6 DEF Serve, Respond, TypeOK
    <3>7. Len(work'[c]) = Len(work[c]) + 1
      BY <3>5, <3>6
    <3>. QED
      BY <3>1, <3>2, <3>3, <3>7
  <2>7. ASSUME NEW d \in Calls, d # c,
               \/ \E t \in Tools : Invoke(d, t) \/ RefuseArguments(d, t)
               \/ HandlerStep(d)
               \/ Serve(d) \/ Disturb(d)
        PROVE  SameCall(c)
    BY <1>1, <2>7, OneCallAtATime
  <2>. QED
    BY <1>1, <2>1, <2>2, <2>3, <2>4, <2>5, <2>6, <2>7 DEF Next
<1>2. TypeOK /\ FlowInv /\ [Next]_vars => [\A c \in Calls : Settled(c)]_vars
  BY <1>1
<1>. QED
  BY TypeAndFlow, <1>2, PTL DEF Spec, AnsweredMeansSettled

\* Each of _with_client's handlers ends after at most two steps for each request
\* and two more: there is no retry, and nobody else's step puts one back.  This
\* is the half of EveryCallEnds that does not need fairness.
THEOREM AdvancingHandlers == Spec => HandlersOnlyAdvance
<1>. DEFINE Advances(c) ==
       pc[c] # "idle" =>
         IF pc'[c] = pc[c] THEN StepsLeft(c)' = StepsLeft(c)
                           ELSE StepsLeft(c)' < StepsLeft(c)
<1>1. ASSUME TypeOK, FlowInv, [Next]_vars, NEW c \in Calls
      PROVE  Advances(c)
  <2>. SUFFICES ASSUME pc[c] # "idle"
                PROVE  IF pc'[c] = pc[c] THEN StepsLeft(c)' = StepsLeft(c)
                                         ELSE StepsLeft(c)' < StepsLeft(c)
    OBVIOUS
  <2>. DEFINE n == Len(Script(tool[c]))
  <2>1. n \in 1..4 /\ at[c] \in 1..4 /\ at[c] <= n
    <3>1. tool[c] \in Tools
      BY <1>1, InvokedHasTool DEF FlowInv
    <3>. QED
      BY <1>1, <3>1, ScriptShape DEF TypeOK, FlowInv, Progress
  <2>2. CASE SameCall(c)
    BY <2>2 DEF SameCall, StepsLeft
  <2>3. CASE Tick \/ UNCHANGED vars \/ Serve(c) \/ Disturb(c)
    BY <2>3 DEF Tick, vars, Serve, Disturb, handlerVars, storeVars, StepsLeft
  <2>4. CASE HandlerStep(c)
    <3>. HIDE DEF n
    <3>1. tool'[c] = tool[c] /\ Len(Script(tool'[c])) = n
      BY <2>4 DEF n, HandlerStep, OpenClient, ConfigMissing, Send, Receive, ReceiveFailure, GiveUp
    <3>2. CASE pc'[c] \in Ended
      <4>1. StepsLeft(c)' = 0
        BY <3>2 DEF StepsLeft, Ended
      <4>2. pc[c] \in {"accepted", "waiting"}
        BY <1>1, <2>4, <3>2 DEF HandlerStep, OpenClient, ConfigMissing, Send, Receive,
           ReceiveFailure, GiveUp, EndCall, TypeOK, Ended
      <4>. QED
        BY <2>1, <3>2, <4>1, <4>2 DEF StepsLeft, Ended, n
    <3>3. \/ pc'[c] \in Ended
          \/ pc[c] = "accepted" /\ pc'[c] = "ready" /\ at'[c] = at[c]
          \/ pc[c] = "ready" /\ pc'[c] = "waiting" /\ at'[c] = at[c]
          \/ pc[c] = "waiting" /\ pc'[c] = "ready" /\ at'[c] = at[c] + 1
      BY <1>1, <2>4 DEF HandlerStep, OpenClient, ConfigMissing, Send, Receive,
         ReceiveFailure, GiveUp, EndCall, TypeOK, Ended
    <3>. QED
      BY <2>1, <3>1, <3>2, <3>3 DEF StepsLeft, n
  <2>5. ASSUME NEW d \in Calls, d # c,
               \/ \E t \in Tools : Invoke(d, t) \/ RefuseArguments(d, t)
               \/ HandlerStep(d)
               \/ Serve(d) \/ Disturb(d)
        PROVE  SameCall(c)
    BY <1>1, <2>5, OneCallAtATime
  <2>6. ~\E t \in Tools : Invoke(c, t) \/ RefuseArguments(c, t)
    BY DEF Invoke, RefuseArguments
  <2>. QED
    BY <1>1, <2>2, <2>3, <2>4, <2>5, <2>6 DEF Next
<1>2. TypeOK /\ FlowInv /\ [Next]_vars => [\A c \in Calls : Advances(c)]_vars
  BY <1>1
<1>. QED
  BY TypeAndFlow, <1>2, PTL DEF Spec, HandlersOnlyAdvance

-------------------------------------------------------------------------------
(* Approvals.                                                               *)

\* The approval a call holds passed the handler's checks when it was handed
\* over, and a plan carries the approval of the call that compiled it.
Checked(c) ==
  /\ appr[c].scope # "LIVE_SUBMIT"
  /\ appr[c].from <= checkedAt[c]
  /\ checkedAt[c] < appr[c].until

ApprovalInv ==
  /\ \A c \in Calls : appr[c] # None => Checked(c)
  /\ \A p \in plans : pc[p.id] # "idle" /\ p.appr = appr[p.id]

LEMMA ApprovalStep ==
  ASSUME TypeOK, FlowInv, ApprovalInv, [Next]_vars
  PROVE  ApprovalInv'
<1>. DEFINE PlanOK(p) == pc[p.id] # "idle" /\ p.appr = appr[p.id]
<1>1. \A p \in plans : p.id \in Calls /\ PlanOK(p)
  BY DEF TypeOK, ApprovalInv
<1>2. ASSUME /\ UNCHANGED <<plans, appr, checkedAt>>
             /\ \A c \in Calls : pc[c] # "idle" => pc'[c] # "idle"
      PROVE  ApprovalInv'
  BY <1>1, <1>2 DEF ApprovalInv, Checked
<1>3. CASE Tick \/ UNCHANGED vars
  BY <1>2, <1>3 DEF Tick, vars, handlerVars, storeVars
<1>4. ASSUME NEW c \in Calls, NEW t \in Tools, Invoke(c, t)
      PROVE  ApprovalInv'
  <2>1. PICK a \in Approvals \cup {None} :
          /\ appr' = [appr EXCEPT ![c] = a]
          /\ a # None => Acceptable(a)
    BY <1>4 DEF Invoke
  <2>2. /\ pc[c] = "idle" /\ plans' = plans
        /\ pc' = [pc EXCEPT ![c] = "accepted"]
        /\ checkedAt' = [checkedAt EXCEPT ![c] = now]
    BY <1>4 DEF Invoke, storeVars
  <2>3. ASSUME NEW d \in Calls, appr'[d] # None
        PROVE  Checked(d)'
    <3>1. CASE d = c
      BY <2>1, <2>2, <2>3, <3>1 DEF Acceptable, ValidNow, Checked, TypeOK
    <3>2. CASE d # c
      BY <2>1, <2>2, <2>3, <3>2 DEF ApprovalInv, Checked, TypeOK
    <3>. QED
      BY <3>1, <3>2
  <2>4. ASSUME NEW p \in plans'
        PROVE  PlanOK(p)'
    <3>1. p \in plans /\ p.id \in Calls /\ PlanOK(p)
      BY <1>1, <2>2
    <3>2. p.id # c
      BY <2>2, <3>1
    <3>. QED
      BY <2>1, <2>2, <3>1, <3>2 DEF TypeOK
  <2>. QED
    BY <2>3, <2>4 DEF ApprovalInv
<1>5. ASSUME NEW c \in Calls, NEW t \in Tools, RefuseArguments(c, t)
      PROVE  ApprovalInv'
  BY <1>2, <1>5 DEF RefuseArguments, storeVars, TypeOK
<1>6. ASSUME NEW c \in Calls, HandlerStep(c)
      PROVE  ApprovalInv'
  <2>1. UNCHANGED <<plans, appr, checkedAt>>
    BY <1>6
       DEF HandlerStep, OpenClient, ConfigMissing, Send, Transmit, Receive,
           EndCall, ReplyIsGood, Consume, ReceiveFailure, ReplyIsBad, GiveUp,
           Abandon, storeVars
  <2>2. \A d \in Calls : pc[d] # "idle" => pc'[d] # "idle"
    BY <1>6
       DEF HandlerStep, OpenClient, ConfigMissing, Send, Transmit, Receive,
           EndCall, ReplyIsGood, Consume, ReceiveFailure, ReplyIsBad, GiveUp,
           Abandon, TypeOK
  <2>. QED
    BY <1>2, <2>1, <2>2
<1>7. ASSUME NEW c \in Calls, Disturb(c)
      PROVE  ApprovalInv'
  BY <1>2, <1>7 DEF Disturb, Trouble, handlerVars, storeVars
<1>8. ASSUME NEW c \in Calls, Serve(c)
      PROVE  ApprovalInv'
  <2>1. UNCHANGED <<pc, appr, checkedAt>> /\ link[c] = "request"
    BY <1>8 DEF Serve, Respond, handlerVars
  <2>2. CASE UNCHANGED plans
    BY <1>2, <2>1, <2>2
  <2>3. CASE StorePlan(c)
    <3>1. body[c].appr = appr[c]
      BY <2>1, <2>3, RequestInTransit DEF StorePlan
    <3>2. pc[c] # "idle"
      BY <2>1 DEF FlowInv, Progress
    <3>3. \A p \in plans' : p \in plans \/ (p.id = c /\ p.appr = body[c].appr)
      BY <2>3 DEF StorePlan
    <3>. QED
      BY <1>1, <2>1, <3>1, <3>2, <3>3 DEF ApprovalInv, Checked
  <2>. QED
    BY <1>8, <2>2, <2>3
       DEF Serve, Respond, StoreNormalized, StoreSnapshot, StoreDecision
<1>. QED
  BY <1>3, <1>4, <1>5, <1>6, <1>7, <1>8 DEF Next

\* No plan ever rests on a live-submit approval or on one that was not valid
\* when the handler checked it, for any set of receipts the agent may present.
THEOREM ApprovalGate == Spec => []PlansRestOnCheckedApprovals
<1>1. Init => ApprovalInv
  BY DEF Init, ApprovalInv
<1>2. TypeOK /\ FlowInv /\ ApprovalInv /\ [Next]_vars => ApprovalInv'
  BY ApprovalStep
<1>3. TypeOK /\ ApprovalInv => PlansRestOnCheckedApprovals
  <2>. SUFFICES ASSUME TypeOK, ApprovalInv, NEW p \in plans
                PROVE  /\ p.appr.scope # "LIVE_SUBMIT"
                       /\ p.appr.from <= checkedAt[p.id]
                       /\ checkedAt[p.id] < p.appr.until
    BY DEF PlansRestOnCheckedApprovals
  <2>1. p.id \in Calls /\ p.appr \in Approvals /\ p.appr = appr[p.id]
    BY DEF TypeOK, ApprovalInv
  <2>2. p.appr # None
    BY <2>1, NoneAssumption
  <2>. QED
    BY <2>1, <2>2 DEF ApprovalInv, Checked
<1>. QED
  BY TypeAndFlow, <1>1, <1>2, <1>3, PTL DEF Spec

-------------------------------------------------------------------------------
(* The chain of a prepare call.                                             *)

\* What the executor has stored for a prepare call, by the number of steps it
\* has carried out, and what the handler has learnt, by its position.
Chain(c) ==
  LET n == Len(work[c]) IN
  /\ n >= 1 => c \in norms
  /\ n >= 2 => [id |-> c, norm |-> c] \in snaps
  /\ n >= 3 => \E d \in decs : d.id = c /\ d.norm = c /\ d.snap = c
  /\ at[c] >= 2 => local[c].norm = c
  /\ at[c] >= 3 => local[c].snap = c
  /\ at[c] >= 4 => local[c].dec = c

PlanInv ==
  \A p \in plans : tool[p.id] = "prepare" =>
    /\ p.norm = p.id /\ p.snap = p.id /\ p.dec = p.id
    /\ Len(work[p.id]) >= 3

ChainInv ==
  /\ \A c \in Calls : tool[c] = "prepare" => Chain(c)
  /\ PlanInv

\* The steps of the long script, by position.
LEMMA PrepareScript ==
  /\ Len(Script("prepare")) = 4
  /\ Script("prepare")[1] = "normalize"
  /\ Script("prepare")[2] = "snapshot"
  /\ Script("prepare")[3] = "decision"
  /\ Script("prepare")[4] = "compile"
BY DEF Script

\* The store only grows, so what is true of its contents stays true.
LEMMA StoreGrows ==
  ASSUME [Next]_vars
  PROVE  norms \subseteq norms' /\ snaps \subseteq snaps' /\ decs \subseteq decs'
<1>1. CASE Tick \/ UNCHANGED vars
  BY <1>1 DEF Tick, vars, storeVars
<1>2. ASSUME NEW c \in Calls, NEW t \in Tools, Invoke(c, t) \/ RefuseArguments(c, t)
      PROVE  norms' = norms /\ snaps' = snaps /\ decs' = decs
  BY <1>2 DEF Invoke, RefuseArguments, storeVars
<1>3. ASSUME NEW c \in Calls, HandlerStep(c)
      PROVE  norms' = norms /\ snaps' = snaps /\ decs' = decs
  BY <1>3
     DEF HandlerStep, OpenClient, ConfigMissing, Send, Transmit, Receive,
         EndCall, ReplyIsGood, Consume, ReceiveFailure, ReplyIsBad, GiveUp,
         Abandon, storeVars
<1>4. ASSUME NEW c \in Calls, Serve(c)
      PROVE  norms \subseteq norms' /\ snaps \subseteq snaps' /\ decs \subseteq decs'
  BY <1>4
     DEF Serve, Respond, StoreNormalized, StoreSnapshot, StoreDecision,
         StorePlan
<1>5. ASSUME NEW c \in Calls, Disturb(c)
      PROVE  norms' = norms /\ snaps' = snaps /\ decs' = decs
  BY <1>5 DEF Disturb, Trouble, storeVars
<1>. QED
  BY <1>1, <1>2, <1>3, <1>4, <1>5 DEF Next

\* A request carried out for a prepare call: its body comes from the replies
\* so far, so what is stored continues the chain.
LEMMA ServeChain ==
  ASSUME TypeOK, FlowInv, NEW c \in Calls, Serve(c), tool[c] = "prepare", Chain(c)
  PROVE  /\ Chain(c)'
         /\ StorePlan(c) => /\ body[c].norm = c /\ body[c].snap = c /\ body[c].dec = c
                            /\ Len(work[c]) >= 3
<1>1. /\ Progress(c) /\ link[c] = "request" /\ pc[c] \in {"waiting", "raised"}
      /\ at'[c] = at[c] /\ local'[c] = local[c]
  <2>1. Progress(c) /\ link[c] = "request" /\ UNCHANGED <<at, local>>
    BY DEF FlowInv, Serve, Respond, handlerVars
  <2>2. pc[c] \in {"waiting", "raised"}
    BY <2>1 DEF Progress, TypeOK, Ended
  <2>. QED
    BY <2>1, <2>2
<1>2. /\ at[c] \in 1..4 /\ Len(work[c]) = at[c] - 1 /\ body[c] = Request(c)
  BY <1>1 DEF Progress, TypeOK
<1>3. /\ body[c].step = Script("prepare")[at[c]]
      /\ body[c].step \in Steps
  BY <1>1, RequestInTransit DEF Bodies
<1>4. Len(work'[c]) = at[c]
  <2>1. work[c] \in Seq(Steps) /\ work'[c] = Append(work[c], body[c].step)
    BY DEF Serve, Respond, TypeOK
  <2>2. Len(work'[c]) = Len(work[c]) + 1
    BY <2>1, <1>3
  <2>. QED
    BY <1>2, <2>2
<1>5. CASE at[c] = 1
  <2>1. body[c].step = "normalize"
    BY <1>3, <1>5, PrepareScript
  <2>2. norms' = norms \cup {c}
    BY <2>1
       DEF Serve, Respond, StoreNormalized, StoreSnapshot, StoreDecision,
           StorePlan
  <2>. QED
    BY <1>1, <1>4, <1>5, <2>1, <2>2 DEF Chain, StorePlan
<1>6. CASE at[c] = 2
  <2>1. body[c].step = "snapshot"
    BY <1>3, <1>6, PrepareScript
  <2>2. local[c].norm = c /\ c \in norms
    BY <1>2, <1>6 DEF Chain
  <2>3. body[c].norm = c
    BY <1>2, <2>1, <2>2 DEF Request
  <2>4. norms' = norms /\ [id |-> c, norm |-> c] \in snaps'
    BY <2>1, <2>3
       DEF Serve, Respond, StoreNormalized, StoreSnapshot, StoreDecision,
           StorePlan
  <2>. QED
    BY <1>1, <1>4, <1>6, <2>1, <2>2, <2>4 DEF Chain, StorePlan
<1>7. CASE at[c] = 3
  <2>1. body[c].step = "decision"
    BY <1>3, <1>7, PrepareScript
  <2>2. /\ local[c].norm = c /\ local[c].snap = c /\ c \in norms
        /\ [id |-> c, norm |-> c] \in snaps
    BY <1>2, <1>7 DEF Chain
  <2>3. body[c].norm = c /\ body[c].snap = c
    BY <1>2, <2>1, <2>2 DEF Request
  <2>4. /\ norms' = norms /\ snaps' = snaps
        /\ [id |-> c, norm |-> c, snap |-> c, madeAt |-> now] \in decs'
    BY <2>1, <2>3
       DEF Serve, Respond, StoreNormalized, StoreSnapshot, StoreDecision,
           StorePlan
  <2>. QED
    BY <1>1, <1>4, <1>7, <2>1, <2>2, <2>4 DEF Chain, StorePlan
<1>8. CASE at[c] = 4
  <2>1. body[c].step = "compile"
    BY <1>3, <1>8, PrepareScript
  <2>2. /\ local[c].norm = c /\ local[c].snap = c /\ local[c].dec = c /\ c \in norms
        /\ [id |-> c, norm |-> c] \in snaps
        /\ \E d \in decs : d.id = c /\ d.norm = c /\ d.snap = c
    BY <1>2, <1>8 DEF Chain
  <2>3. body[c].norm = c /\ body[c].snap = c /\ body[c].dec = c
    BY <1>2, <2>1, <2>2 DEF Request
  <2>4. norms' = norms /\ snaps' = snaps /\ decs' = decs
    BY <2>1
       DEF Serve, Respond, StoreNormalized, StoreSnapshot, StoreDecision,
           StorePlan
  <2>5. Chain(c)'
    BY <1>1, <1>4, <2>2, <2>4 DEF Chain
  <2>. QED
    BY <1>2, <1>8, <2>3, <2>5
<1>. QED
  BY <1>2, <1>5, <1>6, <1>7, <1>8

\* A reply a prepare call takes in names the object just made for it.
LEMMA ReceiveChain ==
  ASSUME TypeOK, FlowInv, NEW c \in Calls, Receive(c), tool[c] = "prepare", Chain(c)
  PROVE  Chain(c)'
<1>1. /\ link[c] = "done" /\ UNCHANGED <<work, norms, snaps, decs>>
      /\ local'[c] = Learn(local[c], body[c].step, c)
      /\ at'[c] = at[c] \/ at'[c] = at[c] + 1
  BY DEF Receive, EndCall, ReplyIsGood, Consume, TypeOK, storeVars
<1>2. at[c] \in 1..4 /\ body[c].step = Script("prepare")[at[c]]
  BY <1>1, RequestInTransit DEF TypeOK
<1>3. CASE at[c] = 1
  <2>1. local'[c].norm = c
    BY <1>1, <1>2, <1>3, PrepareScript DEF Learn
  <2>. QED
    BY <1>1, <1>3, <2>1 DEF Chain
<1>4. CASE at[c] = 2
  <2>1. local'[c].norm = local[c].norm /\ local'[c].snap = c
    BY <1>1, <1>2, <1>4, PrepareScript DEF Learn
  <2>. QED
    BY <1>1, <1>4, <2>1 DEF Chain
<1>5. CASE at[c] = 3
  <2>1. /\ local'[c].norm = local[c].norm /\ local'[c].snap = local[c].snap
        /\ local'[c].dec = c
    BY <1>1, <1>2, <1>5, PrepareScript DEF Learn
  <2>. QED
    BY <1>1, <1>5, <2>1 DEF Chain
<1>6. CASE at[c] = 4
  <2>1. /\ local'[c].norm = local[c].norm /\ local'[c].snap = local[c].snap
        /\ local'[c].dec = local[c].dec
    BY <1>1, <1>2, <1>6, PrepareScript DEF Learn
  <2>. QED
    BY <1>1, <1>6, <2>1 DEF Chain
<1>. QED
  BY <1>2, <1>3, <1>4, <1>5, <1>6

\* One step keeps the chain of every prepare call.
LEMMA ChainStep ==
  ASSUME TypeOK, FlowInv, [Next]_vars, NEW d \in Calls,
         tool'[d] = "prepare", tool[d] = "prepare" => Chain(d)
  PROVE  Chain(d)'
<1>1. norms \subseteq norms' /\ snaps \subseteq snaps' /\ decs \subseteq decs'
  BY StoreGrows
<1>2. ASSUME tool[d] = "prepare",
             work'[d] = work[d], at'[d] = at[d], local'[d] = local[d]
      PROVE  Chain(d)'
  BY <1>1, <1>2 DEF Chain
<1>3. CASE Tick \/ UNCHANGED vars
  BY <1>2, <1>3 DEF Tick, vars, handlerVars, storeVars
<1>4. ASSUME NEW t \in Tools, Invoke(d, t) \/ RefuseArguments(d, t)
      PROVE  Chain(d)'
  <2>1. Len(work'[d]) = 0 /\ at'[d] = 1
    BY <1>4 DEF Invoke, RefuseArguments, FlowInv, Progress, storeVars
  <2>. QED
    BY <2>1 DEF Chain
<1>5. CASE OpenClient(d) \/ ConfigMissing(d) \/ Send(d) \/ ReceiveFailure(d) \/ GiveUp(d)
  BY <1>2, <1>5
     DEF OpenClient, ConfigMissing, Send, Transmit, ReceiveFailure, ReplyIsBad,
         Consume, GiveUp, EndCall, Abandon, storeVars
<1>6. CASE Receive(d)
  <2>1. tool[d] = "prepare"
    BY <1>6 DEF Receive, EndCall, ReplyIsGood, Consume
  <2>. QED
    BY <1>6, <2>1, ReceiveChain
<1>7. CASE Serve(d)
  <2>1. tool[d] = "prepare"
    BY <1>7 DEF Serve, Respond, handlerVars
  <2>. QED
    BY <1>7, <2>1, ServeChain
<1>8. CASE Disturb(d)
  BY <1>2, <1>8 DEF Disturb, Trouble, handlerVars, storeVars
<1>9. ASSUME NEW c \in Calls, d # c,
             \/ \E t \in Tools : Invoke(c, t) \/ RefuseArguments(c, t)
             \/ HandlerStep(c)
             \/ Serve(c) \/ Disturb(c)
      PROVE  Chain(d)'
  <2>1. SameCall(d)
    BY <1>9, OneCallAtATime
  <2>. QED
    BY <1>2, <2>1 DEF SameCall
<1>. QED
  BY <1>3, <1>4, <1>5, <1>6, <1>7, <1>8, <1>9 DEF Next, HandlerStep

\* Work is never undone, and a call keeps the tool it was invoked with.
LEMMA WorkGrows ==
  ASSUME TypeOK, FlowInv, [Next]_vars, NEW d \in Calls
  PROVE  /\ Len(work'[d]) >= Len(work[d])
         /\ pc[d] # "idle" => tool'[d] = tool[d]
<1>1. Len(work[d]) \in Nat /\ work[d] \in Seq(Steps)
  BY DEF TypeOK
<1>2. CASE UNCHANGED <<work, tool>>
  BY <1>1, <1>2
<1>3. ASSUME NEW c \in Calls, NEW t \in Tools, Invoke(c, t) \/ RefuseArguments(c, t)
      PROVE  work' = work /\ (pc[d] # "idle" => tool'[d] = tool[d])
  BY <1>3 DEF Invoke, RefuseArguments, storeVars, TypeOK
<1>4. ASSUME NEW c \in Calls, HandlerStep(c)
      PROVE  UNCHANGED <<work, tool>>
  BY <1>4
     DEF HandlerStep, OpenClient, ConfigMissing, Send, Transmit, Receive,
         EndCall, ReplyIsGood, Consume, ReceiveFailure, ReplyIsBad, GiveUp,
         Abandon, storeVars
<1>5. ASSUME NEW c \in Calls, Serve(c)
      PROVE  Len(work'[d]) >= Len(work[d]) /\ tool' = tool
  <2>1. tool' = tool /\ work' = [work EXCEPT ![c] = Append(@, body[c].step)]
    BY <1>5 DEF Serve, Respond, handlerVars
  <2>2. link[c] # "quiet"
    BY <1>5 DEF Serve, Respond
  <2>3. body[c].step \in Steps
    BY <2>2, RequestInTransit DEF Bodies
  <2>4. Len(Append(work[d], body[c].step)) = Len(work[d]) + 1
    BY <1>1, <2>3
  <2>5. work'[d] = work[d] \/ work'[d] = Append(work[d], body[c].step)
    BY <2>1 DEF TypeOK
  <2>. QED
    BY <1>1, <2>1, <2>4, <2>5
<1>6. ASSUME NEW c \in Calls, Disturb(c)
      PROVE  UNCHANGED <<work, tool>>
  BY <1>6 DEF Disturb, Trouble, handlerVars, storeVars
<1>7. CASE Tick \/ UNCHANGED vars
  BY <1>2, <1>7 DEF Tick, vars, handlerVars, storeVars
<1>. QED
  BY <1>1, <1>2, <1>3, <1>4, <1>5, <1>6, <1>7 DEF Next

LEMMA PlanStep ==
  ASSUME TypeOK, FlowInv, ApprovalInv, ChainInv, [Next]_vars
  PROVE  PlanInv'
<1>. DEFINE OwnChain(p) ==
       /\ p.norm = p.id /\ p.snap = p.id /\ p.dec = p.id
       /\ Len(work[p.id]) >= 3
<1>1. ASSUME NEW p \in plans, tool'[p.id] = "prepare"
      PROVE  OwnChain(p)'
  <2>1. p.id \in Calls /\ pc[p.id] # "idle"
    BY DEF TypeOK, ApprovalInv
  <2>2. tool[p.id] = "prepare" /\ Len(work'[p.id]) >= Len(work[p.id])
    BY <1>1, <2>1, WorkGrows
  <2>3. OwnChain(p)
    BY <2>2 DEF ChainInv, PlanInv
  <2>4. Len(work[p.id]) \in Nat /\ Len(work'[p.id]) \in Nat
    <3>1. work[p.id] \in Seq(Steps)
      BY <2>1 DEF TypeOK
    <3>2. work'[p.id] \in Seq(Steps)
      BY <2>1, TypeStep DEF TypeOK
    <3>. QED
      BY <3>1, <3>2
  <2>. QED
    BY <2>2, <2>3, <2>4
<1>2. CASE plans' = plans
  BY <1>1, <1>2 DEF PlanInv
<1>3. ASSUME NEW c \in Calls, Serve(c), StorePlan(c)
      PROVE  PlanInv'
  <2>1. ASSUME NEW p \in plans', p \notin plans, tool'[p.id] = "prepare"
        PROVE  OwnChain(p)'
    <3>1. /\ p.id = c /\ p.norm = body[c].norm
          /\ p.snap = body[c].snap /\ p.dec = body[c].dec
      BY <1>3, <2>1 DEF StorePlan
    <3>2. tool[c] = "prepare" /\ Chain(c)
      BY <1>3, <2>1, <3>1 DEF Serve, Respond, handlerVars, ChainInv
    <3>3. body[c].norm = c /\ body[c].snap = c /\ body[c].dec = c /\ Len(work[c]) >= 3
      BY <1>3, <3>2, ServeChain
    <3>4. Len(work'[c]) >= Len(work[c]) /\ Len(work[c]) \in Nat /\ Len(work'[c]) \in Nat
      <4>1. work[c] \in Seq(Steps)
        BY DEF TypeOK
      <4>2. work'[c] \in Seq(Steps)
        BY TypeStep DEF TypeOK
      <4>. QED
        BY <4>1, <4>2, WorkGrows
    <3>. QED
      BY <3>1, <3>3, <3>4
  <2>. QED
    BY <1>1, <2>1 DEF PlanInv
<1>4. plans' = plans \/ \E c \in Calls : Serve(c) /\ StorePlan(c)
  <2>1. CASE Tick \/ UNCHANGED vars
    BY <2>1 DEF Tick, vars, storeVars
  <2>2. ASSUME NEW c \in Calls, NEW t \in Tools, Invoke(c, t) \/ RefuseArguments(c, t)
        PROVE  plans' = plans
    BY <2>2 DEF Invoke, RefuseArguments, storeVars
  <2>3. ASSUME NEW c \in Calls, HandlerStep(c)
        PROVE  plans' = plans
    BY <2>3
       DEF HandlerStep, OpenClient, ConfigMissing, Send, Transmit, Receive,
           EndCall, ReplyIsGood, Consume, ReceiveFailure, ReplyIsBad, GiveUp,
           Abandon, storeVars
  <2>4. ASSUME NEW c \in Calls, Serve(c), ~StorePlan(c)
        PROVE  plans' = plans
    BY <2>4 DEF Serve, Respond, StoreNormalized, StoreSnapshot, StoreDecision
  <2>5. ASSUME NEW c \in Calls, Disturb(c)
        PROVE  plans' = plans
    BY <2>5 DEF Disturb, Trouble, storeVars
  <2>. QED
    BY <2>1, <2>2, <2>3, <2>4, <2>5 DEF Next
<1>. QED
  BY <1>2, <1>3, <1>4

\* The plan of a prepare call rests on that call's own intent, snapshot and
\* decision, bound to each other in the executor's store: the handler's local
\* variables (hermes_handlers.py:177-181) never mix two calls.
THEOREM PreparedPlans == Spec => []PreparedPlansAreCoherent
<1>1. Init => ApprovalInv /\ ChainInv
  <2>. SUFFICES ASSUME Init PROVE ApprovalInv /\ ChainInv
    OBVIOUS
  <2>1. None # "prepare"
    BY NoneAssumption DEF Tools
  <2>. QED
    BY <2>1 DEF Init, ApprovalInv, ChainInv, PlanInv
<1>2. ASSUME TypeOK, FlowInv, ApprovalInv, ChainInv, [Next]_vars
      PROVE  ApprovalInv' /\ ChainInv'
  <2>1. ASSUME NEW d \in Calls, tool'[d] = "prepare"
        PROVE  Chain(d)'
    BY <1>2, <2>1, ChainStep DEF ChainInv
  <2>2. ApprovalInv' /\ PlanInv'
    BY <1>2, ApprovalStep, PlanStep
  <2>. QED
    BY <2>1, <2>2 DEF ChainInv
<1>3. TypeOK /\ ApprovalInv /\ ChainInv => PreparedPlansAreCoherent
  <2>. SUFFICES ASSUME TypeOK, ApprovalInv, ChainInv,
                       NEW p \in plans, tool[p.id] = "prepare"
                PROVE  /\ p.norm = p.id /\ p.norm \in norms
                       /\ p.snap = p.id /\ [id |-> p.snap, norm |-> p.norm] \in snaps
                       /\ \E d \in decs : /\ d.id = p.dec /\ p.dec = p.id
                                          /\ d.norm = p.norm /\ d.snap = p.snap
                       /\ p.appr = appr[p.id]
    BY DEF PreparedPlansAreCoherent
  <2>1. p.id \in Calls /\ p.appr = appr[p.id]
    BY DEF TypeOK, ApprovalInv
  <2>2. /\ p.norm = p.id /\ p.snap = p.id /\ p.dec = p.id
        /\ Len(work[p.id]) >= 3
    BY DEF ChainInv, PlanInv
  <2>3. Len(work[p.id]) \in Nat
    <3>1. work[p.id] \in Seq(Steps)
      BY <2>1 DEF TypeOK
    <3>. QED
      BY <3>1
  <2>4. /\ p.id \in norms /\ [id |-> p.id, norm |-> p.id] \in snaps
        /\ \E d \in decs : d.id = p.id /\ d.norm = p.id /\ d.snap = p.id
    BY <2>1, <2>2, <2>3 DEF ChainInv, Chain
  <2>. QED
    BY <2>1, <2>2, <2>4
<1>. QED
  BY TypeAndFlow, <1>1, <1>2, <1>3, PTL DEF Spec

\* Every reachable state is well-typed, for any number of calls.
THEOREM TypesAreKept == Spec => []TypeOK
BY TypeAndFlow, PTL
-------------------------------------------------------------------------------
(* PlanPreparation implements ToolCall: its initial state is one of         *)
(* ToolCall's and each of its steps is, call by call, a step of ToolCall    *)
(* or no step at all.                                                       *)

\* The abstract state of call d is the same before and after a step.
SameBar(d) ==
  /\ phaseBar'[d] = phaseBar[d] /\ client'[d] = client[d]
  /\ goalBar'[d] = goalBar[d] /\ doneBar'[d] = doneBar[d]
  /\ owedBar'[d] = owedBar[d]

\* A call with no part in a step is still in the abstract too.
LEMMA SameCallSameBar ==
  ASSUME NEW d \in Calls, SameCall(d)
  PROVE  SameBar(d)
BY DEF SameCall, SameBar, phaseBar, goalBar, doneBar, owedBar

\* When no call changes in the abstract, the abstract takes no step.
LEMMA Stutter ==
  ASSUME TypeOK, TypeOK', \A d \in Calls : SameBar(d)
  PROVE  UNCHANGED Promise!vars
<1>1. client' = client
  BY DEF TypeOK, SameBar
<1>2. phaseBar' = phaseBar
  BY DEF SameBar, phaseBar
<1>3. goalBar' = goalBar
  BY DEF SameBar, goalBar
<1>4. doneBar' = doneBar
  BY DEF SameBar, doneBar
<1>5. owedBar' = owedBar
  BY DEF SameBar, owedBar
<1>. QED
  BY <1>1, <1>2, <1>3, <1>4, <1>5 DEF Promise!vars

\* What a step of call c means in the abstract, the other calls being still.
LEMMA OneCallMoves ==
  ASSUME TypeOK, TypeOK', NEW c \in Calls,
         \A d \in Calls : d # c => SameBar(d)
  PROVE  /\ phaseBar' = [phaseBar EXCEPT ![c] = phaseBar'[c]]
         /\ client' = [client EXCEPT ![c] = client'[c]]
         /\ goalBar' = [goalBar EXCEPT ![c] = goalBar'[c]]
         /\ doneBar' = [doneBar EXCEPT ![c] = doneBar'[c]]
         /\ owedBar' = [owedBar EXCEPT ![c] = owedBar'[c]]
         /\ phaseBar'[c] = phaseBar[c] => phaseBar' = phaseBar
         /\ client'[c] = client[c] => client' = client
         /\ goalBar'[c] = goalBar[c] => goalBar' = goalBar
         /\ doneBar'[c] = doneBar[c] => doneBar' = doneBar
         /\ owedBar'[c] = owedBar[c] => owedBar' = owedBar
<1>1. /\ client' = [client EXCEPT ![c] = client'[c]]
      /\ client'[c] = client[c] => client' = client
  BY DEF TypeOK, SameBar
<1>2. /\ phaseBar' = [phaseBar EXCEPT ![c] = phaseBar'[c]]
      /\ phaseBar'[c] = phaseBar[c] => phaseBar' = phaseBar
  BY DEF SameBar, phaseBar
<1>3. /\ goalBar' = [goalBar EXCEPT ![c] = goalBar'[c]]
      /\ goalBar'[c] = goalBar[c] => goalBar' = goalBar
  BY DEF SameBar, goalBar
<1>4. /\ doneBar' = [doneBar EXCEPT ![c] = doneBar'[c]]
      /\ doneBar'[c] = doneBar[c] => doneBar' = doneBar
  BY DEF SameBar, doneBar
<1>5. /\ owedBar' = [owedBar EXCEPT ![c] = owedBar'[c]]
      /\ owedBar'[c] = owedBar[c] => owedBar' = owedBar
  BY DEF SameBar, owedBar
<1>. QED
  BY <1>1, <1>2, <1>3, <1>4, <1>5

\* The abstract state of one call, read off the concrete one.
LEMMA Bars ==
  ASSUME NEW c \in Calls
  PROVE  /\ phaseBar[c] = IF pc[c] \in {"accepted", "ready", "waiting"}
                          THEN "running" ELSE pc[c]
         /\ goalBar[c] = IF client[c] = "none" THEN 0 ELSE Len(Script(tool[c]))
         /\ doneBar[c] = Len(work[c])
         /\ owedBar[c] = (pc[c] = "raised" /\ link[c] = "request")
BY DEF phaseBar, goalBar, doneBar, owedBar

LEMMA BarsNext ==
  ASSUME NEW c \in Calls
  PROVE  /\ phaseBar'[c] = IF pc'[c] \in {"accepted", "ready", "waiting"}
                           THEN "running" ELSE pc'[c]
         /\ goalBar'[c] = IF client'[c] = "none" THEN 0 ELSE Len(Script(tool'[c]))
         /\ doneBar'[c] = Len(work'[c])
         /\ owedBar'[c] = (pc'[c] = "raised" /\ link'[c] = "request")
BY DEF phaseBar, goalBar, doneBar, owedBar

\* Each action of a call is an abstract action of that call, or leaves it be.
LEMMA CallStep ==
  ASSUME TypeOK, FlowInv, TypeOK', NEW c \in Calls,
         \/ \E t \in Tools : Invoke(c, t) \/ RefuseArguments(c, t)
         \/ HandlerStep(c)
         \/ Serve(c) \/ Disturb(c),
         \A d \in Calls : d # c => SameBar(d)
  PROVE  \/ SameBar(c)
         \/ Promise!Begin(c) \/ Promise!Refuse(c) \/ Promise!Open(c)
         \/ Promise!CarryOut(c) \/ Promise!Settle(c)
         \/ \E e \in {"ok", "failed", "raised"} : Promise!End(c, e)
<1>. DEFINE Moves ==
       /\ phaseBar' = [phaseBar EXCEPT ![c] = phaseBar'[c]]
       /\ client' = [client EXCEPT ![c] = client'[c]]
       /\ goalBar' = [goalBar EXCEPT ![c] = goalBar'[c]]
       /\ doneBar' = [doneBar EXCEPT ![c] = doneBar'[c]]
       /\ owedBar' = [owedBar EXCEPT ![c] = owedBar'[c]]
       /\ phaseBar'[c] = phaseBar[c] => phaseBar' = phaseBar
       /\ client'[c] = client[c] => client' = client
       /\ goalBar'[c] = goalBar[c] => goalBar' = goalBar
       /\ doneBar'[c] = doneBar[c] => doneBar' = doneBar
       /\ owedBar'[c] = owedBar[c] => owedBar' = owedBar
<1>0. Moves
  BY OneCallMoves
<1>. Progress(c)
  BY DEF FlowInv
<1>1. ASSUME NEW t \in Tools, Invoke(c, t)
      PROVE  Promise!Begin(c)
  <2>1. /\ pc[c] = "idle" /\ pc'[c] = "accepted" /\ client[c] = "none"
        /\ client'[c] = client[c] /\ work'[c] = work[c]
    BY <1>1 DEF Invoke, storeVars, TypeOK, Progress
  <2>2. /\ phaseBar[c] = "idle" /\ phaseBar'[c] = "running"
        /\ goalBar'[c] = goalBar[c] /\ doneBar'[c] = doneBar[c]
        /\ owedBar'[c] = owedBar[c]
    BY <2>1, Bars, BarsNext
  <2>. QED
    BY <1>0, <2>1, <2>2 DEF Promise!Begin
<1>2. ASSUME NEW t \in Tools, RefuseArguments(c, t)
      PROVE  Promise!Refuse(c)
  <2>1. /\ pc[c] = "idle" /\ pc'[c] = "refused" /\ client[c] = "none"
        /\ client'[c] = client[c] /\ work'[c] = work[c]
    BY <1>2 DEF RefuseArguments, storeVars, TypeOK, Progress
  <2>2. /\ phaseBar[c] = "idle" /\ phaseBar'[c] = "refused"
        /\ goalBar'[c] = goalBar[c] /\ doneBar'[c] = doneBar[c]
        /\ owedBar'[c] = owedBar[c]
    BY <2>1, Bars, BarsNext
  <2>. QED
    BY <1>0, <2>1, <2>2 DEF Promise!Refuse
<1>3. CASE OpenClient(c)
  <2>1. /\ pc[c] = "accepted" /\ pc'[c] = "ready" /\ client[c] = "none"
        /\ client'[c] = "open" /\ work'[c] = work[c] /\ tool'[c] = tool[c]
    BY <1>3 DEF OpenClient, storeVars, TypeOK, Progress
  <2>2. /\ phaseBar[c] = "running" /\ phaseBar'[c] = "running"
        /\ goalBar'[c] = Len(Script(tool[c])) /\ doneBar'[c] = doneBar[c]
        /\ owedBar'[c] = owedBar[c]
    BY <2>1, Bars, BarsNext
  <2>3. goalBar'[c] \in 0..4
    BY <2>1, <2>2, InvokedHasTool
  <2>. QED
    BY <1>0, <2>1, <2>2, <2>3 DEF Promise!Open
<1>4. CASE ConfigMissing(c)
  <2>1. /\ pc[c] = "accepted" /\ pc'[c] = "refused" /\ client[c] = "none"
        /\ client'[c] = client[c] /\ work'[c] = work[c]
    BY <1>4 DEF ConfigMissing, storeVars, TypeOK, Progress
  <2>2. /\ phaseBar[c] = "running" /\ phaseBar'[c] = "refused"
        /\ goalBar'[c] = goalBar[c] /\ doneBar'[c] = doneBar[c]
        /\ owedBar'[c] = owedBar[c]
    BY <2>1, Bars, BarsNext
  <2>. QED
    BY <1>0, <2>1, <2>2 DEF Promise!Refuse
<1>5. CASE Send(c)
  <2>1. /\ pc[c] = "ready" /\ pc'[c] = "waiting" /\ client'[c] = client[c]
        /\ work'[c] = work[c] /\ tool'[c] = tool[c]
    BY <1>5 DEF Send, Transmit, storeVars, TypeOK
  <2>. QED
    BY <2>1, Bars, BarsNext DEF SameBar
\* A handler that ends a wait, however it does, closes its client.
<1>6. ASSUME NEW e \in {"ok", "failed", "raised"},
             pc[c] = "waiting", pc'[c] = e, client'[c] = "closed",
             work'[c] = work[c], tool'[c] = tool[c],
             e = "ok" => Len(work[c]) = Len(Script(tool[c]))
      PROVE  Promise!End(c, e)
  <2>1. client[c] = "open"
    BY <1>6 DEF Progress
  <2>2. /\ phaseBar[c] = "running" /\ phaseBar'[c] = e
        /\ goalBar'[c] = goalBar[c] /\ doneBar'[c] = doneBar[c]
        /\ goalBar[c] = Len(Script(tool[c])) /\ doneBar[c] = Len(work[c])
    BY <1>6, <2>1, Bars, BarsNext
  <2>3. owedBar'[c] \in BOOLEAN /\ (owedBar'[c] => e = "raised")
    BY <1>6, BarsNext
  <2>. QED
    BY <1>0, <1>6, <2>1, <2>2, <2>3 DEF Promise!End
<1>7. CASE Receive(c)
  <2>1. /\ pc[c] = "waiting" /\ link[c] = "done"
        /\ work'[c] = work[c] /\ tool'[c] = tool[c]
    BY <1>7 DEF Receive, EndCall, ReplyIsGood, Consume, storeVars
  <2>2. CASE at[c] < Len(Script(tool[c])) /\ pc'[c] = "ready" /\ client'[c] = client[c]
    BY <2>1, <2>2, Bars, BarsNext DEF SameBar
  <2>3. CASE at[c] = Len(Script(tool[c])) /\ pc'[c] = "ok" /\ client'[c] = "closed"
    <3>1. Len(work[c]) = at[c]
      BY <2>1 DEF Progress
    <3>. QED
      BY <1>6, <2>1, <2>3, <3>1
  <2>. QED
    BY <1>7, <2>2, <2>3 DEF Receive, EndCall, ReplyIsGood, Consume, TypeOK
<1>8. CASE ReceiveFailure(c)
  <2>1. /\ pc[c] = "waiting" /\ pc'[c] = "failed" /\ client'[c] = "closed"
        /\ work'[c] = work[c] /\ tool'[c] = tool[c]
    BY <1>8 DEF ReceiveFailure, ReplyIsBad, Consume, EndCall, storeVars, TypeOK
  <2>. QED
    BY <1>6, <2>1
<1>9. CASE GiveUp(c)
  <2>1. /\ pc[c] = "waiting" /\ pc'[c] = "raised" /\ client'[c] = "closed"
        /\ work'[c] = work[c] /\ tool'[c] = tool[c]
    BY <1>9 DEF GiveUp, EndCall, Abandon, storeVars, TypeOK
  <2>. QED
    BY <1>6, <2>1
<1>10. CASE Serve(c)
  <2>1. /\ link[c] = "request" /\ pc[c] \in {"waiting", "raised"}
        /\ pc'[c] = pc[c] /\ client'[c] = client[c] /\ tool'[c] = tool[c]
        /\ work'[c] = Append(work[c], body[c].step)
        /\ link'[c] = IF pc[c] = "waiting" THEN "done" ELSE "quiet"
    <3>1. link[c] = "request" /\ UNCHANGED <<pc, client, tool>>
      BY <1>10 DEF Serve, Respond, handlerVars
    <3>2. pc[c] \in {"waiting", "raised"}
      BY <3>1 DEF Progress, TypeOK, Ended
    <3>. QED
      BY <1>10, <3>1, <3>2 DEF Serve, Respond, TypeOK
  <2>2. /\ work[c] \in Seq(Steps) /\ body[c].step \in Steps
        /\ at[c] \in 1..4 /\ Len(work[c]) = at[c] - 1
        /\ at[c] <= Len(Script(tool[c])) /\ Len(Script(tool[c])) \in 1..4
    <3>1. body[c].step \in Steps
      BY <2>1, RequestInTransit DEF Bodies
    <3>2. Len(work[c]) = at[c] - 1
      BY <2>1 DEF Progress
    <3>3. pc[c] # "idle"
      BY <2>1
    <3>4. at[c] <= Len(Script(tool[c]))
      BY <3>3 DEF Progress
    <3>5. Len(Script(tool[c])) \in 1..4
      BY <3>3, InvokedHasTool
    <3>. QED
      BY <3>1, <3>2, <3>4, <3>5 DEF TypeOK
  <2>3. Len(work'[c]) = Len(work[c]) + 1
    BY <2>1, <2>2
  <2>4. Len(work[c]) < Len(Script(tool[c]))
    BY <2>2
  <2>5. client[c] # "none"
    BY <2>1 DEF Progress
  <2>6. /\ phaseBar'[c] = phaseBar[c] /\ goalBar'[c] = goalBar[c]
        /\ doneBar'[c] = doneBar[c] + 1 /\ doneBar[c] < goalBar[c]
    BY <2>1, <2>3, <2>4, <2>5, Bars, BarsNext
  <2>7. CASE pc[c] = "waiting"
    <3>1. client[c] = "open"
      BY <2>7 DEF Progress
    <3>2. owedBar'[c] = owedBar[c]
      BY <2>1, <2>7, Bars, BarsNext
    <3>. QED
      BY <1>0, <2>1, <2>6, <3>1, <3>2 DEF Promise!CarryOut
  <2>8. CASE pc[c] = "raised"
    <3>1. owedBar[c] = TRUE /\ owedBar'[c] = FALSE
      BY <2>1, <2>8, Bars, BarsNext
    <3>. QED
      BY <1>0, <2>1, <2>6, <3>1 DEF Promise!Settle
  <2>. QED
    BY <2>1, <2>7, <2>8
<1>11. CASE Disturb(c)
  <2>1. /\ pc'[c] = pc[c] /\ client'[c] = client[c] /\ tool'[c] = tool[c]
        /\ work'[c] = work[c]
    BY <1>11 DEF Disturb, Trouble, handlerVars, storeVars
  <2>2. /\ phaseBar'[c] = phaseBar[c] /\ goalBar'[c] = goalBar[c]
        /\ doneBar'[c] = doneBar[c]
    BY <2>1, Bars, BarsNext
  <2>3. CASE pc[c] # "raised"
    BY <2>1, <2>2, <2>3, Bars, BarsNext DEF SameBar
  <2>4. CASE pc[c] = "raised"
    <3>1. link[c] = "request" /\ link'[c] = "quiet"
      BY <1>11, <2>4 DEF Disturb, Trouble, TypeOK, Progress
    <3>2. owedBar[c] = TRUE /\ owedBar'[c] = FALSE
      BY <2>4, <3>1, <2>1, Bars, BarsNext
    <3>. QED
      BY <1>0, <2>1, <2>2, <3>2 DEF Promise!Settle
  <2>. QED
    BY <2>3, <2>4
<1>. QED
  BY <1>1, <1>2, <1>3, <1>4, <1>5, <1>7, <1>8, <1>9, <1>10, <1>11
     DEF HandlerStep

LEMMA StepImplements ==
  ASSUME TypeOK, FlowInv, TypeOK', [Next]_vars
  PROVE  [Promise!Next]_(Promise!vars)
<1>1. CASE Tick \/ UNCHANGED vars
  <2>1. \A d \in Calls : SameCall(d)
    BY <1>1 DEF Tick, vars, handlerVars, storeVars, SameCall
  <2>. QED
    BY <2>1, SameCallSameBar, Stutter
<1>2. ASSUME NEW c \in Calls,
             \/ \E t \in Tools : Invoke(c, t) \/ RefuseArguments(c, t)
             \/ HandlerStep(c)
             \/ Serve(c) \/ Disturb(c)
      PROVE  [Promise!Next]_(Promise!vars)
  <2>1. \A d \in Calls : d # c => SameBar(d)
    BY <1>2, OneCallAtATime, SameCallSameBar
  <2>2. CASE SameBar(c)
    BY <2>1, <2>2, Stutter
  <2>3. CASE ~SameBar(c)
    BY <1>2, <2>1, <2>3, CallStep DEF Promise!Next
  <2>. QED
    BY <2>2, <2>3
<1>. QED
  BY <1>1, <1>2 DEF Next

\* Every plan-preparation call, among any number of concurrent ones, is a call
\* as ToolCall describes it: refused without a trace or run on one client that
\* is closed at the end, ok only if all its steps were carried out, and owing
\* at most one step only when it ended by raising.
THEOREM PlanPreparationKeepsThePromise == Spec => ImplementsToolCall
<1>1. Init => Promise!Init
  <2>. SUFFICES ASSUME Init PROVE Promise!Init
    OBVIOUS
  <2>1. phaseBar = [c \in Calls |-> "idle"] /\ goalBar = [c \in Calls |-> 0]
    BY DEF Init, phaseBar, goalBar
  <2>2. doneBar = [c \in Calls |-> 0]
    BY DEF Init, doneBar
  <2>3. owedBar = [c \in Calls |-> FALSE]
    <3>1. \A c \in Calls : (pc[c] = "raised" /\ link[c] = "request") = FALSE
      BY DEF Init
    <3>. QED
      BY <3>1 DEF owedBar
  <2>. QED
    BY <2>1, <2>2, <2>3 DEF Init, Promise!Init
<1>2. TypeOK /\ FlowInv /\ TypeOK' /\ [Next]_vars => [Promise!Next]_(Promise!vars)
  BY StepImplements
<1>. QED
  BY TypeAndFlow, <1>1, <1>2, PTL DEF Spec, ImplementsToolCall, Promise!Spec
===============================================================================
