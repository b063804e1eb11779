--------------------------- MODULE KillSwitchProofs ---------------------------
(***************************************************************************)
(* What KillSwitch guarantees for any number of calls, accounts and        *)
(* restarts.                                                               *)
(***************************************************************************)
EXTENDS KillSwitch, TLAPS

Inv == TypeOK /\ FlowInv

\* The executor's side of a state: what it applied and keeps.
executorVars == <<applied, receipt, switches, saved, version>>

\* A step that has no part in what call d knows.
Still(d) ==
  /\ pc'[d] = pc[d] /\ link'[d] = link[d] /\ target'[d] = target[d]
  /\ setting'[d] = setting[d] /\ answered'[d] = answered[d]
  /\ applied'[d] = applied[d] /\ receipt'[d] = receipt[d]

LEMMA StillFlow ==
  ASSUME NEW d \in Calls, CallFlow(d), Still(d), version \in Nat, version' \in Nat,
         version <= version', applied[d] \in Nat,
         \A e \in answered[d] : pc[e] \in Answered => pc'[e] \in Answered
  PROVE  CallFlow(d)'
BY DEF CallFlow, Still, Validates, Answered

-------------------------------------------------------------------------------
(* Types.                                                                   *)

LEMMA NormalizedTarget ==
  ASSUME NEW s \in Scopes, NEW a \in Named \cup {None}
  PROVE  Normalized(s, a) \in Targets
BY DEF Normalized, Targets

LEMMA TypeStep ==
  ASSUME Inv, [Next]_vars
  PROVE  TypeOK'
<1>. USE DEF Inv
<1>1. ASSUME NEW c \in Calls, Ask(c)
      PROVE  TypeOK'
  <2>1. PICK s \in Scopes, a \in Named \cup {None}, on \in BOOLEAN :
          /\ target' = [target EXCEPT ![c] = Normalized(s, a)]
          /\ setting' = [setting EXCEPT ![c] = on]
    BY <1>1 DEF Ask
  <2>2. target' \in [Calls -> Targets \cup {None}] /\ setting' \in [Calls -> BOOLEAN]
    BY <2>1, NormalizedTarget DEF TypeOK
  <2>3. answered' \in [Calls -> SUBSET Calls]
    BY <1>1 DEF Ask, TypeOK
  <2>4. pc' \in [Calls -> {"idle", "waiting", "ok", "failed", "raised"}] /\ link' \in [Calls -> Links]
    BY <1>1 DEF Ask, TypeOK, Transmit, Links
  <2>. QED
    BY <1>1, <2>2, <2>3, <2>4 DEF Ask, TypeOK
<1>2. ASSUME NEW c \in Calls, HandlerStep(c)
      PROVE  TypeOK'
  BY <1>2 DEF HandlerStep, Receive, ReceiveFailure, GiveUp, EndCall, Consume, Abandon, TypeOK, Links
<1>3. ASSUME NEW c \in Calls, Serve(c)
      PROVE  TypeOK'
  <2>1. target[c] \in Targets /\ setting[c] \in BOOLEAN /\ link[c] = "request"
    BY <1>3 DEF Serve, TypeOK, FlowInv, CallFlow
  <2>. DEFINE now == [on |-> setting[c], version |-> version + 1]
  <2>2. now \in Settings
    BY <2>1 DEF Settings, TypeOK
  <2>3. switches' \in [Targets -> Settings] /\ saved' \in [Targets -> Settings]
    BY <1>3, <2>1, <2>2 DEF Serve, Body, TypeOK
  <2>4. applied' \in [Calls -> Nat] /\ version' \in Nat
    BY <1>3 DEF Serve, TypeOK
  <2>5. receipt' \in [Calls -> Receipts \cup {None}]
    BY <1>3, <2>1 DEF Serve, Body, TypeOK, Receipts
  <2>6. link' \in [Calls -> Links]
    BY <1>3 DEF Serve, Respond, TypeOK, Links
  <2>. QED
    BY <1>3, <2>3, <2>4, <2>5, <2>6 DEF Serve, callVars, TypeOK
<1>4. ASSUME NEW c \in Calls, Disturb(c)
      PROVE  TypeOK'
  BY <1>4 DEF Disturb, Trouble, callVars, TypeOK, Links
<1>5. CASE Restart
  BY <1>5 DEF Restart, callVars, TypeOK
<1>6. CASE UNCHANGED vars
  BY <1>6 DEF vars, callVars, TypeOK
<1>. QED
  BY <1>1, <1>2, <1>3, <1>4, <1>5, <1>6 DEF Next

-------------------------------------------------------------------------------
(* The flow of the calls and of the switches.                               *)

LEMMA FlowInit ==
  Init => Inv
<1>. SUFFICES ASSUME Init
              PROVE  TypeOK /\ FlowInv
  BY DEF Inv
<1>1. Off \in Settings
  BY DEF Off, Settings
<1>2. TypeOK
  BY <1>1 DEF Init, TypeOK, Links
<1>3. ASSUME NEW c \in Calls
      PROVE  CallFlow(c)
  <2>1. /\ pc[c] = "idle" /\ target[c] = None /\ link[c] = "quiet" /\ applied[c] = 0
        /\ receipt[c] = None /\ answered[c] = {} /\ version = 0
    BY DEF Init
  <2>. QED
    BY <2>1 DEF CallFlow
<1>4. \A t \in Targets : InOrder(switches, t) /\ InOrder(saved, t)
  BY DEF Init, InOrder, Off
<1>. QED
  BY <1>2, <1>3, <1>4 DEF FlowInv, Init

\* A step that leaves the executor alone leaves the switches in order.
LEMMA SwitchesKept ==
  ASSUME Inv, UNCHANGED executorVars,
         \A c \in Calls : applied[c] # 0 => target'[c] = target[c] /\ setting'[c] = setting[c]
  PROVE  /\ \A t \in Targets : InOrder(switches, t)' /\ InOrder(saved, t)'
         /\ \A c, d \in Calls : (applied[c] # 0 /\ applied[c] = applied[d] => c = d)'
<1>1. ASSUME NEW t \in Targets
      PROVE  InOrder(switches, t)' /\ InOrder(saved, t)'
  BY DEF Inv, FlowInv, InOrder, executorVars, TypeOK
<1>. QED
  BY <1>1 DEF Inv, FlowInv, executorVars

\* A step of the handler of call c, or of its network.
LEMMA HandlerFlow ==
  ASSUME Inv, NEW c \in Calls, HandlerStep(c) \/ Disturb(c)
  PROVE  FlowInv'
<1>. USE DEF Inv
<1>1. /\ UNCHANGED <<target, setting, answered, applied, receipt, switches, saved, version>>
      /\ \A d \in Calls : d # c => pc'[d] = pc[d] /\ link'[d] = link[d]
  BY DEF HandlerStep, Receive, ReceiveFailure, GiveUp, EndCall, Consume, Abandon, Disturb,
         Trouble, callVars, TypeOK
<1>2. \A e \in Calls : pc[e] \in Answered => pc'[e] \in Answered
  BY DEF HandlerStep, Receive, ReceiveFailure, GiveUp, EndCall, Disturb, callVars, TypeOK, Answered
<1>3. CallFlow(c)'
  <2>0. CallFlow(c) /\ \A e \in answered[c] : e \in Calls /\ pc'[e] \in Answered
    BY <1>2 DEF FlowInv, CallFlow, TypeOK
  <2>1. CASE Receive(c)
    <3>1. pc'[c] = "ok" /\ link'[c] = "quiet" /\ Validates(receipt[c])
      BY <2>1 DEF Receive, EndCall, Consume, TypeOK
    <3>. QED
      BY <2>0, <2>1, <3>1, <1>1 DEF Receive, ReplyIsGood, CallFlow, Validates
  <2>2. CASE ReceiveFailure(c)
    <3>1. pc'[c] = "failed" /\ link'[c] = "quiet"
      BY <2>2 DEF ReceiveFailure, EndCall, Consume, TypeOK
    <3>. QED
      BY <2>0, <2>2, <3>1, <1>1 DEF ReceiveFailure, CallFlow
  <2>3. CASE GiveUp(c)
    <3>1. /\ pc[c] = "waiting" /\ pc'[c] = "raised"
          /\ link'[c] = IF link[c] = "request" THEN "request" ELSE "quiet"
      BY <2>3 DEF GiveUp, EndCall, Abandon, TypeOK
    <3>. QED
      BY <2>0, <3>1, <1>1 DEF CallFlow
  <2>4. CASE Disturb(c)
    <3>1. /\ pc'[c] = pc[c]
          /\ \/ link[c] = "request" /\ pc[c] = "waiting" /\ link'[c] \in {"error", "lost"}
             \/ link[c] = "request" /\ pc[c] = "raised" /\ link'[c] = "quiet"
             \/ link[c] = "done" /\ link'[c] \in {"error", "garbled", "lost"}
      BY <2>4 DEF Disturb, Trouble, callVars, TypeOK
    <3>. QED
      BY <2>0, <3>1, <1>1 DEF CallFlow, Validates
  <2>. QED
    BY <2>1, <2>2, <2>3, <2>4 DEF HandlerStep
<1>4. ASSUME NEW d \in Calls, d # c
      PROVE  CallFlow(d)'
  <2>1. Still(d)
    BY <1>1, <1>4 DEF Still
  <2>2. CallFlow(d) /\ version \in Nat /\ version' = version /\ applied[d] \in Nat /\ answered[d] \subseteq Calls
    BY <1>1 DEF FlowInv, TypeOK
  <2>3. \A e \in answered[d] : pc[e] \in Answered => pc'[e] \in Answered
    BY <2>2, <1>2
  <2>. QED
    BY <2>1, <2>2, <2>3, StillFlow
<1>5. /\ \A t \in Targets : InOrder(switches, t)' /\ InOrder(saved, t)'
      /\ \A d, e \in Calls : (applied[d] # 0 /\ applied[d] = applied[e] => d = e)'
  BY <1>1, SwitchesKept DEF executorVars
<1>. QED
  BY <1>3, <1>4, <1>5 DEF FlowInv

LEMMA AskFlow ==
  ASSUME Inv, NEW c \in Calls, Ask(c)
  PROVE  FlowInv'
<1>. USE DEF Inv
<1>1. PICK s \in Scopes, a \in Named \cup {None}, on \in BOOLEAN :
        /\ target' = [target EXCEPT ![c] = Normalized(s, a)]
        /\ setting' = [setting EXCEPT ![c] = on]
  BY DEF Ask
<1>2. target'[c] # None
  BY <1>1, NormalizedTarget, NoneAssumption DEF TypeOK
<1>3. /\ pc[c] = "idle" /\ pc'[c] = "waiting" /\ link'[c] = "request"
      /\ answered'[c] = {d \in Calls : pc[d] \in Answered}
      /\ UNCHANGED executorVars
  BY DEF Ask, Transmit, TypeOK, executorVars
<1>4. \A d \in Calls : d # c => Still(d)
  BY <1>1 DEF Ask, Transmit, Still, TypeOK
<1>5. \A e \in Calls : pc[e] \in Answered => e # c /\ pc'[e] \in Answered
  BY <1>3, <1>4 DEF Still, Answered
<1>6. applied[c] = 0 /\ receipt[c] = None /\ applied[c] <= version
  BY <1>3 DEF FlowInv, CallFlow
<1>7. CallFlow(c)'
  BY <1>2, <1>3, <1>5, <1>6 DEF CallFlow, executorVars
<1>8. ASSUME NEW d \in Calls, d # c
      PROVE  CallFlow(d)'
  <2>1. Still(d) /\ CallFlow(d) /\ version \in Nat /\ version' = version /\ applied[d] \in Nat
    BY <1>3, <1>4, <1>8 DEF FlowInv, TypeOK, executorVars
  <2>2. \A e \in answered[d] : pc[e] \in Answered => pc'[e] \in Answered
    BY <1>5, <1>8 DEF TypeOK
  <2>. QED
    BY <2>1, <2>2, StillFlow
<1>9. \A d \in Calls : applied[d] # 0 => target'[d] = target[d] /\ setting'[d] = setting[d]
  BY <1>4, <1>6 DEF Still
<1>10. /\ \A t \in Targets : InOrder(switches, t)' /\ InOrder(saved, t)'
       /\ \A d, e \in Calls : (applied[d] # 0 /\ applied[d] = applied[e] => d = e)'
  BY <1>3, <1>9, SwitchesKept
<1>. QED
  BY <1>7, <1>8, <1>10 DEF FlowInv

LEMMA ServeFlow ==
  ASSUME Inv, TypeOK', NEW c \in Calls, Serve(c)
  PROVE  FlowInv'
<1>. USE DEF Inv
<1>. DEFINE t == target[c]
            now == [on |-> setting[c], version |-> version + 1]
<1>1. link[c] = "request" /\ t \in Targets /\ applied[c] = 0 /\ version \in Nat
      /\ pc[c] \in {"waiting", "raised"}
  BY DEF Serve, FlowInv, CallFlow, TypeOK
<1>2. PICK p \in BOOLEAN :
        /\ version' = version + 1
        /\ applied' = [applied EXCEPT ![c] = version + 1]
        /\ switches' = [switches EXCEPT ![t] = now]
        /\ saved' = IF p THEN [saved EXCEPT ![t] = now] ELSE saved
        /\ receipt' = [receipt EXCEPT ![c] =
             [target |-> t, on |-> setting[c], version |-> version + 1, persisted |-> p]]
  BY DEF Serve, Body
<1>3. UNCHANGED callVars /\ link' = [link EXCEPT ![c] = IF pc[c] = "waiting" THEN "done" ELSE "quiet"]
  BY DEF Serve, Respond
<1>4. /\ applied'[c] = version + 1 /\ applied'[c] # 0
      /\ receipt'[c] = [target |-> t, on |-> setting[c], version |-> version + 1, persisted |-> p]
      /\ receipt'[c] # None
  BY <1>1, <1>2, NoneAssumption DEF TypeOK, Receipts
<1>5. \A d \in Calls : d # c => Still(d)
  BY <1>2, <1>3 DEF Still, callVars, TypeOK
<1>6. \A d \in Calls : applied[d] <= version /\ applied[d] \in Nat
  BY DEF FlowInv, CallFlow, TypeOK
<1>7. CallFlow(c)'
  <2>1. CallFlow(c) /\ pc[c] # "ok"
    BY <1>1 DEF FlowInv
  <2>2. link'[c] = IF pc[c] = "waiting" THEN "done" ELSE "quiet"
    BY <1>3 DEF TypeOK
  <2>3. receipt'[c].persisted = p
    BY <1>4
  <2>. QED
    BY <1>1, <1>2, <1>3, <1>4, <2>1, <2>2, <2>3 DEF CallFlow, callVars
<1>8. ASSUME NEW d \in Calls, d # c
      PROVE  CallFlow(d)'
  <2>1. Still(d) /\ CallFlow(d) /\ applied[d] \in Nat /\ version <= version' /\ version' \in Nat
    BY <1>1, <1>2, <1>5, <1>6, <1>8 DEF FlowInv
  <2>2. \A e \in answered[d] : pc[e] \in Answered => pc'[e] \in Answered
    BY <1>3 DEF callVars
  <2>. QED
    BY <1>1, <2>1, <2>2, StillFlow
<1>9. \A d, e \in Calls : (applied[d] # 0 /\ applied[d] = applied[e] => d = e)'
  <2>1. \A d \in Calls : d # c => applied'[d] = applied[d] /\ applied'[d] # applied'[c]
    BY <1>1, <1>4, <1>5, <1>6 DEF Still
  <2>. QED
    BY <2>1 DEF FlowInv
<1>. HIDE DEF now
<1>10. now \in Settings /\ now.version = version + 1 /\ now.on = setting[c]
  BY <1>1 DEF now, Settings, TypeOK
<1>11. \A d \in Calls : /\ target'[d] = target[d] /\ setting'[d] = setting[d]
                        /\ applied'[d] \in Nat /\ applied'[d] <= version + 1
  BY <1>1, <1>3, <1>4, <1>5, <1>6 DEF callVars, Still
\* The target of the call, where its change is kept.
<1>12. /\ target'[c] = t /\ applied'[c] = now.version /\ now.version # 0
       /\ setting'[c] = now.on /\ now.version <= version'
       /\ \A d \in Calls : now.version >= applied'[d]
  BY <1>1, <1>2, <1>4, <1>10, <1>11
\* A target whose entry stays: any other, or one whose change is not persisted.
<1>13. ASSUME NEW store, NEW u \in Targets, store[u] \in Settings, InOrder(store, u),
              u # t \/ ~p
       PROVE  InOrder(store, u)'
  <2>1. store[u].version \in Nat /\ store[u].version <= version
    BY <1>13 DEF InOrder, Settings
  <2>2. \A d \in Calls : d # c => applied'[d] = applied[d] /\ receipt'[d] = receipt[d]
    BY <1>5 DEF Still
  <2>3. \/ store[u] = Off
        \/ \E d \in Calls : /\ target'[d] = u /\ applied'[d] = store[u].version
                            /\ store[u].version # 0 /\ setting'[d] = store[u].on
    <3>1. CASE store[u] = Off
      BY <3>1
    <3>2. CASE store[u] # Off
      <4>1. PICK d \in Calls : /\ target[d] = u /\ applied[d] = store[u].version
                              /\ store[u].version # 0 /\ setting[d] = store[u].on
        BY <1>13, <3>2 DEF InOrder
      <4>. QED
        BY <1>1, <1>11, <2>2, <4>1
    <3>. QED
      BY <3>1, <3>2
  <2>4. ASSUME NEW d \in Calls, target'[d] = u, applied'[d] # 0, receipt'[d].persisted
        PROVE  store[u].version >= applied'[d]
    <3>1. d # c
      BY <1>4, <1>11, <1>13, <2>4
    <3>. QED
      BY <1>11, <1>13, <2>2, <2>4, <3>1 DEF InOrder
  <2>. QED
    BY <1>1, <1>2, <2>1, <2>3, <2>4 DEF InOrder
<1>14. ASSUME NEW u \in Targets
       PROVE  InOrder(switches, u)' /\ InOrder(saved, u)'
  <2>1. /\ switches[u] \in Settings /\ saved[u] \in Settings
        /\ InOrder(switches, u) /\ InOrder(saved, u)
    BY DEF TypeOK, FlowInv
  <2>2. switches'[u] = (IF u = t THEN now ELSE switches[u])
    BY <1>1, <1>2 DEF TypeOK, now
  <2>3. saved'[u] = (IF u = t /\ p THEN now ELSE saved[u])
    BY <1>1, <1>2 DEF TypeOK, now
  <2>4. InOrder(switches, u)'
    <3>1. CASE u = t
      <4>1. switches'[u] = now
        BY <2>2, <3>1
      <4>. QED
        BY <1>12, <3>1, <4>1 DEF InOrder
    <3>2. CASE u # t
      BY <1>13, <2>1, <2>2, <3>2 DEF InOrder
    <3>. QED
      BY <3>1, <3>2
  <2>5. InOrder(saved, u)'
    <3>1. CASE u = t /\ p
      <4>1. saved'[u] = now
        BY <2>3, <3>1
      <4>. QED
        BY <1>12, <3>1, <4>1 DEF InOrder
    <3>2. CASE u # t \/ ~p
      BY <1>13, <2>1, <2>3, <3>2 DEF InOrder
    <3>. QED
      BY <3>1, <3>2
  <2>. QED
    BY <2>4, <2>5
<1>. QED
  BY <1>7, <1>8, <1>9, <1>14 DEF FlowInv

LEMMA RestartFlow ==
  ASSUME Inv, Restart
  PROVE  FlowInv'
<1>1. ASSUME NEW c \in Calls
      PROVE  CallFlow(c)'
  BY DEF Inv, FlowInv, CallFlow, Validates, Restart, callVars
<1>2. ASSUME NEW t \in Targets
      PROVE  InOrder(switches, t)' /\ InOrder(saved, t)'
  BY DEF Inv, FlowInv, InOrder, Restart, callVars
<1>3. \A c, d \in Calls : (applied[c] # 0 /\ applied[c] = applied[d] => c = d)'
  BY DEF Inv, FlowInv, Restart
<1>. QED
  BY <1>1, <1>2, <1>3 DEF FlowInv

LEMMA FlowStep ==
  ASSUME Inv, [Next]_vars
  PROVE  Inv'
<1>1. TypeOK'
  BY TypeStep
<1>2. ASSUME NEW c \in Calls, HandlerStep(c) \/ Disturb(c)
      PROVE  FlowInv'
  BY <1>2, HandlerFlow
<1>3. ASSUME NEW c \in Calls, Ask(c)
      PROVE  FlowInv'
  BY <1>3, AskFlow
<1>4. ASSUME NEW c \in Calls, Serve(c)
      PROVE  FlowInv'
  BY <1>1, <1>4, ServeFlow
<1>5. ASSUME Restart
      PROVE  FlowInv'
  BY <1>5, RestartFlow
<1>6. ASSUME UNCHANGED vars
      PROVE  FlowInv'
  BY <1>6 DEF Inv, FlowInv, CallFlow, InOrder, Validates, vars, callVars
<1>7. FlowInv'
  BY <1>2, <1>3, <1>4, <1>5, <1>6 DEF Next
<1>. QED
  BY <1>1, <1>7 DEF Inv

\* Types and the flow of calls and switches (Ask, Receive, Serve, Restart) hold
\* however many calls are made and however often the executor restarts.
THEOREM TypeAndFlow == Spec => [](TypeOK /\ FlowInv)
<1>1. Init => TypeOK /\ FlowInv
  BY FlowInit DEF Inv
<1>2. TypeOK /\ FlowInv /\ [Next]_vars => (TypeOK /\ FlowInv)'
  BY FlowStep DEF Inv
<1>. QED
  BY <1>1, <1>2, PTL DEF Spec

\* A switch answered ok names a clear target and is in force unless another
\* request changed it (handle_admin_kill_switch hands the receipt on).
THEOREM OkHolds == Spec => []OkIsInForce
<1>1. Inv => OkIsInForce
  <2>. SUFFICES ASSUME Inv, NEW c \in Calls, pc[c] = "ok"
                PROVE  /\ target[c] \in [scope: {"GLOBAL"}, account: {None}]
                                          \cup [scope: {"ACCOUNT"}, account: Accounts]
                       /\ receipt[c].target = target[c] /\ receipt[c].version = applied[c]
                       /\ receipt[c].persisted => switches[target[c]].version >= applied[c]
                       /\ switches[target[c]].version = applied[c] =>
                            switches[target[c]].on = setting[c]
    BY DEF OkIsInForce
  <2>1. /\ CallFlow(c) /\ applied[c] # 0 /\ target[c] \in Targets
        /\ InOrder(switches, target[c])
    BY DEF Inv, TypeOK, FlowInv, CallFlow
  <2>2. receipt[c].target = target[c] /\ receipt[c].version = applied[c]
    BY <2>1 DEF CallFlow
  <2>3. target[c] \in [scope: {"GLOBAL"}, account: {None}]
                         \cup [scope: {"ACCOUNT"}, account: Accounts]
    BY <2>1, <2>2 DEF CallFlow, Validates, Targets
  <2>4. receipt[c].persisted => switches[target[c]].version >= applied[c]
    BY <2>1 DEF InOrder
  <2>5. ASSUME switches[target[c]].version = applied[c]
        PROVE  switches[target[c]].on = setting[c]
    BY <2>1, <2>5 DEF InOrder, Off, Inv, FlowInv
  <2>. QED
    BY <2>2, <2>3, <2>4, <2>5
<1>. QED
  BY <1>1, TypeAndFlow, PTL DEF Inv

\* An operator who asks again until answered ok, and whom nobody contradicts,
\* has the setting, whatever arrives late (GiveUp leaves a request under way).
THEOREM AskingAgain == Spec => []AskingAgainIsSafe
<1>1. Inv => AskingAgainIsSafe
  <2>. SUFFICES ASSUME Inv, NEW c \in Calls, pc[c] = "ok", receipt[c].persisted,
                       \A d \in Calls : target[d] = target[c] => setting[d] = setting[c]
                PROVE  switches[target[c]].on = setting[c]
    BY DEF AskingAgainIsSafe
  <2>1. /\ applied[c] # 0 /\ applied[c] \in Nat /\ target[c] \in Targets
        /\ InOrder(switches, target[c])
    BY DEF Inv, TypeOK, FlowInv, CallFlow
  <2>2. switches[target[c]].version >= applied[c]
    BY <2>1 DEF InOrder
  <2>3. switches[target[c]] # Off
    BY <2>1, <2>2 DEF Off
  <2>. QED
    BY <2>1, <2>3 DEF InOrder
<1>. QED
  BY <1>1, TypeAndFlow, PTL DEF Inv

\* An answered call is over (_with_client answers only what cannot be still
\* under way): what is asked after its answer takes effect after it.
THEOREM AnsweredOver == Spec => []AnsweredCallsAreOver
<1>1. Init => AnsweredCallsAreOver
  BY DEF Init, AnsweredCallsAreOver
<1>2. ASSUME TypeOK, FlowInv, AnsweredCallsAreOver, [Next]_vars
      PROVE  AnsweredCallsAreOver'
  <2>. SUFFICES ASSUME NEW c \in Calls, NEW d \in answered'[c], applied'[c] # 0
                PROVE  applied'[d] < applied'[c]
    BY DEF AnsweredCallsAreOver
  <2>1. ASSUME NEW e \in Calls, Serve(e)
        PROVE  applied'[d] < applied'[c]
    <3>1. /\ answered' = answered /\ link[e] = "request" /\ version \in Nat
          /\ applied' = [applied EXCEPT ![e] = version + 1]
      BY <1>2, <2>1 DEF Serve, callVars, TypeOK
    <3>2. d \in Calls /\ pc[d] \in Answered
      BY <1>2, <3>1 DEF TypeOK, FlowInv, CallFlow
    <3>3. d # e
      BY <1>2, <3>1, <3>2 DEF FlowInv, CallFlow, Answered
    <3>4. applied'[d] = applied[d] /\ applied[d] \in Nat /\ applied[d] <= version
      BY <1>2, <3>1, <3>2, <3>3 DEF TypeOK, FlowInv, CallFlow
    <3>5. CASE c = e
      BY <1>2, <3>1, <3>4, <3>5 DEF TypeOK
    <3>6. CASE c # e
      BY <1>2, <3>1, <3>4, <3>6 DEF TypeOK, AnsweredCallsAreOver
    <3>. QED
      BY <3>5, <3>6
  <2>2. ASSUME NEW e \in Calls, Ask(e)
        PROVE  applied'[d] < applied'[c]
    <3>1. pc[e] = "idle" /\ applied[e] = 0 /\ applied' = applied
      BY <1>2, <2>2 DEF Ask, FlowInv, CallFlow
    <3>2. c # e
      BY <3>1
    <3>3. d \in answered[c]
      BY <1>2, <2>2, <3>2 DEF Ask, TypeOK
    <3>. QED
      BY <1>2, <3>1, <3>3 DEF AnsweredCallsAreOver
  <2>3. ASSUME applied' = applied, answered' = answered
        PROVE  applied'[d] < applied'[c]
    BY <1>2, <2>3 DEF AnsweredCallsAreOver
  <2>. QED
    BY <1>2, <2>1, <2>2, <2>3
       DEF Next, HandlerStep, Receive, ReceiveFailure, GiveUp, Disturb, Restart, vars, callVars
<1>. QED
  BY <1>1, <1>2, TypeAndFlow, PTL DEF Spec

\* Every reachable state is well-typed, for any number of calls.
THEOREM TypesAreKept == Spec => []TypeOK
BY TypeAndFlow, PTL
===============================================================================
