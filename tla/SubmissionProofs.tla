--------------------------- MODULE SubmissionProofs ---------------------------
(***************************************************************************)
(* What Submission guarantees for any number of attempts, executions, keys *)
(* and plans.                                                              *)
(***************************************************************************)
EXTENDS Submission, TLAPS

Inv == TypeOK /\ FlowInv

\* A step that has no part in what call d knows.
Still(d) ==
  /\ pc'[d] = pc[d] /\ link'[d] = link[d] /\ ask'[d] = ask[d]
  /\ over'[d] = over[d] /\ reply'[d] = reply[d]

LEMMA StillFlow ==
  ASSUME NEW d \in Calls, CallFlow(d), Still(d),
         Submitted(d) /\ Served(d) => records'[Identity(ask[d])] = records[Identity(ask[d])],
         \A e \in over[d] : pc[e] \in Ended => pc'[e] \in Ended
  PROVE  CallFlow(d)'
BY DEF CallFlow, Still, Served, Submitted, Recorded, Acceptable, Permitted, Identity

\* A receipt on record is there to stay, and so is who asked for it.
LEMMA RecordsStay ==
  ASSUME RecordFlow, UNCHANGED records,
         \A c \in Calls : Submitted(c) => ask'[c] = ask[c]
  PROVE  RecordFlow'
BY DEF RecordFlow, Submitted, Identity

-------------------------------------------------------------------------------
(* Types.                                                                   *)

LEMMA SubmitIdentity ==
  ASSUME NEW a \in Submits
  PROVE  Identity(a) \in Executions \X Keys /\ a.plan \in Plans /\ a.op = "submit"
BY DEF Submits, Identity

LEMMA TypeStep ==
  ASSUME Inv, [Next]_vars
  PROVE  TypeOK'
<1>. USE DEF Inv
<1>1. ASSUME NEW c \in Calls, NEW a \in Submits \cup Reads, Begin(c, a)
      PROVE  /\ ask' \in [Calls -> Submits \cup Reads \cup {None}]
             /\ over' \in [Calls -> SUBSET Calls]
             /\ reply' \in [Calls -> Records \cup {None, Missing}]
             /\ records' \in [Executions \X Keys -> Records \cup {None}]
  BY <1>1 DEF Begin, TypeOK
<1>2. ASSUME NEW c \in Calls, Refuse(c)
      PROVE  TypeOK'
  BY <1>1, <1>2 DEF Refuse, EndCall, TypeOK, Ended
<1>3. ASSUME NEW c \in Calls, Send(c)
      PROVE  TypeOK'
  BY <1>1, <1>3 DEF Send, Transmit, TypeOK, Links
<1>4. ASSUME NEW c \in Calls, ClientStep(c)
      PROVE  TypeOK'
  BY <1>4 DEF ClientStep, Receive, ReceiveFailure, GiveUp, EndCall, Consume, Abandon, TypeOK, Links,
              Ended
<1>5. ASSUME NEW c \in Calls, ServeSubmit(c)
      PROVE  TypeOK'
  <2>1. PICK r \in Records :
          /\ records' = [records EXCEPT ![Identity(ask[c])] = r]
          /\ reply' = [reply EXCEPT ![c] = r]
    BY <1>5 DEF ServeSubmit, Body
  <2>2. link' \in [Calls -> Links] /\ UNCHANGED <<pc, client, ask, over>>
    BY <1>5 DEF ServeSubmit, Respond, TypeOK, Links
  <2>. QED
    BY <2>1, <2>2 DEF TypeOK
<1>6. ASSUME NEW c \in Calls, ServeRead(c)
      PROVE  TypeOK'
  <2>1. PICK r \in Found(ask[c].execution) : reply' = [reply EXCEPT ![c] = r]
    BY <1>6 DEF ServeRead, Body
  <2>2. ask[c] \in Reads /\ ask[c].execution \in Executions
    BY <1>6, SubmissionAssumption
       DEF ServeRead, Body, TypeOK, FlowInv, CallFlow, Submits, Reads, Permitted
  <2>3. r \in Records
    BY <2>1, <2>2 DEF Found, TypeOK
  <2>4. link' \in [Calls -> Links] /\ UNCHANGED <<pc, client, ask, over, records>>
    BY <1>6 DEF ServeRead, Respond, TypeOK, Links
  <2>. QED
    BY <2>1, <2>3, <2>4 DEF TypeOK
<1>7. ASSUME NEW c \in Calls, ServeMissing(c)
      PROVE  TypeOK'
  BY <1>7 DEF ServeMissing, TypeOK, Links
<1>8. ASSUME NEW c \in Calls, Disturb(c)
      PROVE  TypeOK'
  BY <1>8 DEF Disturb, Trouble, TypeOK, Links
<1>9. CASE UNCHANGED vars
  BY <1>9 DEF vars, TypeOK
<1>. QED
  BY <1>2, <1>3, <1>4, <1>5, <1>6, <1>7, <1>8, <1>9 DEF Next, Serve

-------------------------------------------------------------------------------
(* The flow of the calls and of the records.                                *)

LEMMA FlowInit ==
  Init => Inv
<1>. SUFFICES ASSUME Init
              PROVE  TypeOK /\ FlowInv
  BY DEF Inv
<1>1. TypeOK
  BY DEF Init, TypeOK, Links
<1>2. ASSUME NEW c \in Calls
      PROVE  CallFlow(c)
  <2>1. /\ pc[c] = "idle" /\ ask[c] = None /\ link[c] = "quiet" /\ reply[c] = None /\ over[c] = {}
    BY DEF Init
  <2>. QED
    BY <2>1, SubmissionAssumption DEF CallFlow, Served, Submitted
<1>3. RecordFlow
  BY DEF Init, RecordFlow
<1>. QED
  BY <1>1, <1>2, <1>3 DEF FlowInv

\* A call begins, whether anything is sent for it or not.
LEMMA BeginFlow ==
  ASSUME Inv, NEW c \in Calls, Refuse(c) \/ Send(c)
  PROVE  FlowInv'
<1>. USE DEF Inv
<1>1. PICK a \in Submits \cup Reads :
        /\ Begin(c, a)
        /\ \/ ~Permitted(a) /\ pc'[c] = "refused" /\ link'[c] = link[c]
           \/ Permitted(a) /\ pc'[c] = "waiting" /\ link'[c] = "request"
        /\ \A d \in Calls : d # c => pc'[d] = pc[d] /\ link'[d] = link[d]
  BY DEF Refuse, Send, EndCall, Transmit, TypeOK
<1>2. /\ pc[c] = "idle" /\ ask[c] = None /\ ask'[c] = a /\ a # None
      /\ reply'[c] = None /\ over'[c] = {d \in Calls : pc[d] \in Ended} /\ UNCHANGED <<reply, records>>
  BY <1>1, SubmissionAssumption DEF Begin, TypeOK, FlowInv, CallFlow, Served
<1>3. \A d \in Calls : d # c => Still(d)
  BY <1>1 DEF Begin, Still, TypeOK
<1>4. \A e \in Calls : pc[e] \in Ended => e # c /\ pc'[e] \in Ended
  BY <1>2, <1>3 DEF Still, Ended
<1>5. CallFlow(c)'
  <2>1. CallFlow(c)
    BY DEF FlowInv
  <2>2. \A d \in over'[c] : pc'[d] \in Ended
    BY <1>2, <1>4
  <2>. QED
    BY <1>1, <1>2, <2>1, <2>2 DEF CallFlow, Served
<1>6. ASSUME NEW d \in Calls, d # c
      PROVE  CallFlow(d)'
  BY <1>2, <1>3, <1>4, <1>6, StillFlow DEF FlowInv, TypeOK
<1>7. RecordFlow'
  <2>1. \A d \in Calls : Submitted(d) => ask'[d] = ask[d]
    BY <1>2, <1>3, SubmissionAssumption DEF Still, Submitted
  <2>. QED
    BY <1>2, <2>1, RecordsStay DEF FlowInv
<1>. QED
  BY <1>5, <1>6, <1>7 DEF FlowInv

\* A step of the client, or of the network.
LEMMA ClientFlow ==
  ASSUME Inv, NEW c \in Calls, ClientStep(c) \/ Disturb(c)
  PROVE  FlowInv'
<1>. USE DEF Inv
<1>1. /\ UNCHANGED <<ask, over, reply, records>>
      /\ \A d \in Calls : d # c => pc'[d] = pc[d] /\ link'[d] = link[d]
  BY DEF ClientStep, Receive, ReceiveFailure, GiveUp, EndCall, Consume, Abandon, Disturb,
         Trouble, TypeOK
<1>2. \A e \in Calls : pc[e] \in Ended => pc'[e] \in Ended
  BY DEF ClientStep, Receive, ReceiveFailure, GiveUp, EndCall, Disturb, TypeOK, Ended
<1>3. CallFlow(c)'
  <2>0. CallFlow(c) /\ \A e \in over[c] : pc'[e] \in Ended
    BY <1>2 DEF FlowInv, CallFlow, TypeOK
  <2>1. CASE Receive(c)
    <3>1. /\ pc[c] = "waiting" /\ link[c] = "done" /\ link'[c] = "quiet"
          /\ pc'[c] = IF Acceptable(c) THEN "ok" ELSE "rejected"
      BY <2>1 DEF Receive, EndCall, Consume, ReplyIsGood, TypeOK
    <3>. QED
      BY <2>0, <3>1, <1>1 DEF CallFlow, Acceptable, Served, Submitted, Recorded
  <2>2. CASE ReceiveFailure(c)
    <3>1. pc[c] = "waiting" /\ pc'[c] = "failed" /\ link'[c] = "quiet"
      BY <2>2 DEF ReceiveFailure, EndCall, Consume, TypeOK
    <3>. QED
      BY <2>0, <3>1, <1>1 DEF CallFlow, Acceptable, Served, Submitted, Recorded
  <2>3. CASE GiveUp(c)
    <3>1. /\ pc[c] = "waiting" /\ pc'[c] = "raised"
          /\ link'[c] = IF link[c] = "request" THEN "request" ELSE "quiet"
      BY <2>3 DEF GiveUp, EndCall, Abandon, TypeOK
    <3>. QED
      BY <2>0, <3>1, <1>1 DEF CallFlow, Acceptable, Served, Submitted, Recorded
  <2>4. CASE Disturb(c)
    <3>1. /\ pc'[c] = pc[c]
          /\ \/ link[c] = "request" /\ pc[c] = "waiting" /\ link'[c] \in {"error", "lost"}
             \/ link[c] = "request" /\ pc[c] = "raised" /\ link'[c] = "quiet"
             \/ link[c] = "done" /\ link'[c] \in {"error", "garbled", "lost"}
      BY <2>4 DEF Disturb, Trouble, TypeOK
    <3>. QED
      BY <2>0, <3>1, <1>1 DEF CallFlow, Acceptable, Served, Submitted, Recorded
  <2>. QED
    BY <2>1, <2>2, <2>3, <2>4 DEF ClientStep
<1>4. ASSUME NEW d \in Calls, d # c
      PROVE  CallFlow(d)'
  <2>1. Still(d) /\ CallFlow(d) /\ over[d] \subseteq Calls
    BY <1>1, <1>4 DEF Still, FlowInv, TypeOK
  <2>. QED
    BY <1>1, <1>2, <2>1, StillFlow
<1>5. RecordFlow'
  BY <1>1, RecordsStay DEF FlowInv
<1>. QED
  BY <1>3, <1>4, <1>5 DEF FlowInv

LEMMA ServeFlow ==
  ASSUME Inv, NEW c \in Calls, Serve(c)
  PROVE  FlowInv'
<1>. USE DEF Inv
<1>1. /\ UNCHANGED <<pc, ask, over>> /\ link[c] = "request"
      /\ \A d \in Calls : d # c => Still(d)
  BY DEF Serve, ServeSubmit, ServeRead, ServeMissing, Respond, Still, TypeOK
<1>2. /\ CallFlow(c) /\ reply[c] = None /\ pc[c] \in {"waiting", "raised"}
      /\ ask[c] \in Submits \cup Reads /\ Permitted(ask[c])
      /\ \A d \in over[c] : pc[d] \in Ended
  BY <1>1 DEF FlowInv, CallFlow, Served, TypeOK
<1>3. CASE ServeSubmit(c)
  <2>. DEFINE i == Identity(ask[c])
  <2>1. PICK r \in Records :
          /\ IF records[i] = None THEN r.plan = ask[c].plan ELSE r = records[i]
          /\ records' = [records EXCEPT ![i] = r]
          /\ reply' = [reply EXCEPT ![c] = r]
    BY <1>3 DEF ServeSubmit, Body
  <2>2. ask[c] \in Submits /\ i \in Executions \X Keys /\ link'[c] = IF pc[c] = "waiting" THEN "done" ELSE "quiet"
    BY <1>2, <1>3, SubmitIdentity DEF ServeSubmit, Body, Respond, Reads, TypeOK
  <2>3. /\ records'[i] = r /\ reply'[c] = r /\ r # None /\ r # Missing
        /\ \A j \in Executions \X Keys : j # i \/ records[i] # None => records'[j] = records[j]
    BY <2>1, <2>2, SubmissionAssumption DEF TypeOK
  <2>. HIDE DEF i
  <2>4. CallFlow(c)'
    BY <1>1, <1>2, <2>2, <2>3 DEF CallFlow, Served, Submitted, Recorded, i
  <2>5. ASSUME NEW d \in Calls, d # c
        PROVE  CallFlow(d)'
    <3>1. Still(d) /\ CallFlow(d)
      BY <1>1, <2>5 DEF FlowInv
    <3>2. ASSUME Submitted(d), Served(d)
          PROVE  records'[Identity(ask[d])] = records[Identity(ask[d])]
      <4>1. Identity(ask[d]) \in Executions \X Keys
        BY <3>2, SubmitIdentity DEF Submitted
      <4>2. records[Identity(ask[d])] # None
        BY <3>1, <3>2 DEF CallFlow, Served, Recorded
      <4>. QED
        BY <2>3, <4>1, <4>2
    <3>3. \A e \in over[d] : pc[e] \in Ended => pc'[e] \in Ended
      BY <1>1
    <3>. QED
      BY <3>1, <3>2, <3>3, StillFlow
  <2>6. RecordFlow'
    <3>. SUFFICES ASSUME NEW j \in Executions \X Keys, records'[j] # None
                  PROVE  \E d \in Calls : /\ ask'[d] \in Submits /\ Identity(ask'[d]) = j
                                          /\ ask'[d].plan = records'[j].plan
      BY DEF RecordFlow, Submitted, Identity
    <3>1. CASE j = i /\ records[i] = None
      <4>1. ask'[c] \in Submits /\ Identity(ask'[c]) = j /\ ask'[c].plan = records'[j].plan
        BY <1>1, <2>1, <2>2, <2>3, <3>1 DEF i
      <4>. QED
        BY <4>1
    <3>2. CASE j # i \/ records[i] # None
      BY <1>1, <2>3, <3>2 DEF FlowInv, RecordFlow, Submitted
    <3>. QED
      BY <3>1, <3>2
  <2>. QED
    BY <2>4, <2>5, <2>6 DEF FlowInv
<1>4. CASE ServeRead(c) \/ ServeMissing(c)
  <2>1. UNCHANGED records /\ ask[c] \notin Submits
    BY <1>4 DEF ServeRead, ServeMissing, Body, Submits
  <2>2. \/ /\ reply'[c] \notin {None, Missing}
           /\ link'[c] = IF pc[c] = "waiting" THEN "done" ELSE "quiet"
        \/ /\ reply'[c] = Missing
           /\ link'[c] = IF pc[c] = "waiting" THEN "error" ELSE "quiet"
    <3>1. CASE ServeRead(c)
      <4>1. PICK r \in Found(ask[c].execution) : reply' = [reply EXCEPT ![c] = r]
        BY <3>1 DEF ServeRead, Body
      <4>2. ask[c].execution \in Executions
        BY <1>2, <2>1 DEF Reads, Permitted
      <4>3. r \notin {None, Missing}
        BY <4>1, <4>2, SubmissionAssumption DEF Found, TypeOK
      <4>. QED
        BY <3>1, <4>1, <4>3 DEF ServeRead, Respond, TypeOK
    <3>2. CASE ServeMissing(c)
      BY <3>2 DEF ServeMissing, TypeOK
    <3>. QED
      BY <1>4, <3>1, <3>2
  <2>3. None # Missing
    BY SubmissionAssumption
  <2>4. CallFlow(c)'
    BY <1>1, <1>2, <2>1, <2>2, <2>3 DEF CallFlow, Served, Submitted, Recorded
  <2>5. ASSUME NEW d \in Calls, d # c
        PROVE  CallFlow(d)'
    BY <1>1, <2>1, <2>5, StillFlow DEF FlowInv
  <2>6. RecordFlow'
    BY <1>1, <2>1, RecordsStay DEF FlowInv
  <2>. QED
    BY <2>4, <2>5, <2>6 DEF FlowInv
<1>. QED
  BY <1>3, <1>4 DEF Serve

LEMMA FlowStep ==
  ASSUME Inv, [Next]_vars
  PROVE  Inv'
<1>1. TypeOK'
  BY TypeStep
<1>2. FlowInv'
  <2>1. ASSUME NEW c \in Calls, Refuse(c) \/ Send(c)
        PROVE  FlowInv'
    BY <2>1, BeginFlow
  <2>2. ASSUME NEW c \in Calls, ClientStep(c) \/ Disturb(c)
        PROVE  FlowInv'
    BY <2>2, ClientFlow
  <2>3. ASSUME NEW c \in Calls, Serve(c)
        PROVE  FlowInv'
    BY <2>3, ServeFlow
  <2>4. ASSUME UNCHANGED vars
        PROVE  FlowInv'
    <3>1. ASSUME NEW c \in Calls
          PROVE  CallFlow(c)'
      BY <2>4, StillFlow DEF Still, vars, Inv, FlowInv
    <3>2. RecordFlow'
      BY <2>4, RecordsStay DEF vars, Inv, FlowInv
    <3>. QED
      BY <3>1, <3>2 DEF FlowInv
  <2>. QED
    BY <2>1, <2>2, <2>3, <2>4 DEF Next
<1>. QED
  BY <1>1, <1>2 DEF Inv

\* Types and the agreement of calls and records (submit_plan, get_submission)
\* hold for any number of attempts.
THEOREM TypeAndFlow == Spec => [](TypeOK /\ FlowInv)
<1>1. Init => TypeOK /\ FlowInv
  BY FlowInit DEF Inv
<1>2. TypeOK /\ FlowInv /\ [Next]_vars => (TypeOK /\ FlowInv)'
  BY FlowStep DEF Inv
<1>. QED
  BY <1>1, <1>2, PTL DEF Spec

\* What submit_plan ends with says what was done: nothing when it refuses the
\* mode, something when it rejects the receipt.
THEOREM MatchedEndings == Spec => []EndingsMatchEffects
<1>1. Inv => EndingsMatchEffects
  <2>. SUFFICES ASSUME Inv, NEW c \in Calls, Submitted(c)
                PROVE  /\ Served(c) => pc[c] # "refused" /\ ask[c].mode = "BLOCKED_DRY_RUN"
                       /\ pc[c] = "ok" => Recorded(c) = reply[c] /\ reply[c].status \in Blocked
                       /\ pc[c] = "rejected" => Recorded(c) = reply[c] /\ reply[c].status \in Live
    BY DEF EndingsMatchEffects
  <2>1. CallFlow(c) /\ ask[c].op = "submit"
    BY SubmitIdentity DEF Inv, FlowInv, Submitted
  <2>2. Served(c) => pc[c] # "refused" /\ ask[c].mode = "BLOCKED_DRY_RUN"
    BY <2>1 DEF CallFlow, Permitted
  <2>3. pc[c] \in {"ok", "rejected"} => Recorded(c) = reply[c] /\ reply[c] \in Records
    BY <2>1, SubmissionAssumption DEF CallFlow, Served, Inv, TypeOK
  <2>4. pc[c] = "ok" => reply[c].status \in Blocked
    BY <2>1 DEF CallFlow, Acceptable
  <2>5. pc[c] = "rejected" => reply[c].status \in Live
    BY <2>1, <2>3, SubmissionAssumption DEF CallFlow, Acceptable, Records
  <2>. QED
    BY <2>2, <2>3, <2>4, <2>5
<1>. QED
  BY <1>1, TypeAndFlow, PTL DEF Inv

\* However many attempts are made under one key of submit_plan, they are one
\* submission.
THEOREM OneSubmission == Spec => []RetriesAreOneSubmission
<1>1. Inv => RetriesAreOneSubmission
  <2>. SUFFICES ASSUME Inv, NEW c \in Calls, NEW d \in Calls,
                       Submitted(c), Served(c), Submitted(d), Served(d),
                       Identity(ask[c]) = Identity(ask[d])
                PROVE  /\ reply[c] = reply[d]
                       /\ \E e \in Calls : /\ Submitted(e) /\ Identity(ask[e]) = Identity(ask[c])
                                           /\ ask[e].plan = reply[c].plan
    BY DEF RetriesAreOneSubmission
  <2>1. reply[c] = Recorded(c) /\ reply[d] = Recorded(d)
    BY DEF Inv, FlowInv, CallFlow
  <2>2. Identity(ask[c]) \in Executions \X Keys
    BY SubmitIdentity DEF Submitted
  <2>3. \E e \in Calls : /\ Submitted(e) /\ Identity(ask[e]) = Identity(ask[c])
                         /\ ask[e].plan = Recorded(c).plan
    BY <2>1, <2>2 DEF Inv, FlowInv, RecordFlow, Recorded, Served
  <2>. QED
    BY <2>1, <2>3 DEF Recorded
<1>. QED
  BY <1>1, TypeAndFlow, PTL DEF Inv

\* After get_submission said "not found", no submission that had ended by then
\* turns up: only one that raised may.
THEOREM MissingFinal == Spec => []MissingIsFinal
<1>1. Init => MissingIsFinal
  BY SubmissionAssumption DEF Init, MissingIsFinal
<1>2. ASSUME TypeOK, FlowInv, MissingIsFinal, [Next]_vars
      PROVE  MissingIsFinal'
  <2>. SUFFICES ASSUME NEW r \in Calls, reply'[r] = Missing, NEW d \in over'[r],
                       ask'[d] \in Submits, ask'[d].execution = ask'[r].execution
                PROVE  reply'[d] = None
    BY DEF MissingIsFinal, Submitted, Served
  <2>1. ASSUME NEW c \in Calls, Refuse(c) \/ Send(c)
        PROVE  reply'[d] = None
    <3>1. /\ reply' = reply /\ reply[c] = None /\ pc[c] = "idle"
          /\ \A e \in Calls : e # c => ask'[e] = ask[e] /\ over'[e] = over[e]
      BY <1>2, <2>1 DEF Refuse, Send, Begin, FlowInv, CallFlow, Served, TypeOK
    <3>2. r # c
      BY <3>1, SubmissionAssumption
    <3>3. d \in over[r] /\ d \in Calls /\ d # c
      BY <1>2, <3>1, <3>2 DEF FlowInv, CallFlow, TypeOK, Ended
    <3>. QED
      BY <1>2, <3>1, <3>2, <3>3 DEF MissingIsFinal, Submitted, Served
  <2>2. ASSUME NEW c \in Calls, Serve(c)
        PROVE  reply'[d] = None
    <3>1. /\ UNCHANGED <<ask, over>> /\ link[c] = "request"
          /\ \A e \in Calls : e # c => reply'[e] = reply[e]
      BY <1>2, <2>2 DEF Serve, ServeSubmit, ServeRead, ServeMissing, TypeOK
    <3>2. d \in Calls /\ d # c
      BY <1>2, <3>1 DEF FlowInv, CallFlow, TypeOK, Ended
    <3>3. CASE r # c
      BY <1>2, <3>1, <3>2, <3>3 DEF MissingIsFinal, Submitted, Served
    <3>4. CASE r = c
      <4>1. ServeMissing(c)
        <5>1. CASE ServeSubmit(c)
          <6>1. PICK q \in Records : reply' = [reply EXCEPT ![c] = q]
            BY <5>1 DEF ServeSubmit
          <6>. QED
            BY <1>2, <3>4, <6>1, SubmissionAssumption DEF TypeOK
        <5>2. CASE ServeRead(c)
          <6>1. PICK q \in Found(ask[c].execution) : reply' = [reply EXCEPT ![c] = q]
            BY <5>2 DEF ServeRead, Body
          <6>2. ask[c].execution \in Executions
            BY <1>2, <3>1, <5>2, SubmissionAssumption
               DEF ServeRead, Body, FlowInv, CallFlow, Permitted, TypeOK, Submits, Reads
          <6>. QED
            BY <1>2, <3>4, <6>1, <6>2, SubmissionAssumption DEF Found, TypeOK
        <5>. QED
          BY <2>2, <5>1, <5>2 DEF Serve
      <4>2. Found(ask[c].execution) = {}
        BY <4>1 DEF ServeMissing, Body
      <4>3. \A k \in Keys : records[<<ask[d].execution, k>>] = None
        BY <3>1, <3>4, <4>2 DEF Found
      <4>4. Identity(ask[d]) = <<ask[d].execution, ask[d].key>> /\ ask[d].key \in Keys
        BY <3>1 DEF Identity, Submits
      <4>. QED
        BY <1>2, <3>1, <3>2, <4>3, <4>4 DEF FlowInv, CallFlow, Submitted, Served, Recorded
    <3>. QED
      BY <3>3, <3>4
  <2>3. ASSUME UNCHANGED <<ask, over, reply>>
        PROVE  reply'[d] = None
    BY <1>2, <2>3 DEF MissingIsFinal, Submitted, Served
  <2>. QED
    BY <1>2, <2>1, <2>2, <2>3 DEF Next, ClientStep, Receive, ReceiveFailure, GiveUp, Disturb, vars
<1>. QED
  BY <1>1, <1>2, TypeAndFlow, PTL DEF Spec

\* Every reachable state is well-typed, for any number of calls.
THEOREM TypesAreKept == Spec => []TypeOK
BY TypeAndFlow, PTL
===============================================================================
