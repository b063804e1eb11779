---------------------------- MODULE SignOnlyProofs ----------------------------
(***************************************************************************)
(* What SignOnly guarantees for any number of calls, executions, events,   *)
(* plans and digests, whichever of them have a colon in their id or are    *)
(* not in lower-case hex.                                                  *)
(***************************************************************************)
EXTENDS SignOnly, TLAPS

Inv == TypeOK /\ FlowInv

-------------------------------------------------------------------------------
(* Types.                                                                   *)

LEMMA AskTypes ==
  ASSUME NEW a \in Asks
  PROVE  /\ a.op \in {"record", "construct", "list"}
         /\ a.op = "record" => a.body \in Records
         /\ a.op = "construct" => a.body \in Constructions
         /\ a.op = "list" => a.body.execution \in Executions
BY DEF Asks

\* What is served was sent, and what was sent is in order.
LEMMA RequestAsked ==
  ASSUME Inv, NEW c \in Calls, link[c] = "request"
  PROVE  /\ ask[c] \in Asks /\ Permitted(ask[c])
         /\ pc[c] \in {"waiting", "raised"}
BY DEF Inv, FlowInv, CallFlow, TypeOK

\* The entry that is made for a record, and for a construction under ref.
RecordEntry(c) == [record |-> Body(c), by |-> c, given |-> TRUE]
ConstructionEntry(c, ref) ==
  [record |-> [execution |-> Body(c).execution, event |-> None,
               state |-> "SIGNED_DRY_RUN", ref |-> ref],
   by |-> c, given |-> Body(c).ref # None]

LEMMA EntryTypes ==
  ASSUME Inv, NEW c \in Calls, link[c] = "request"
  PROVE  /\ ask[c].op = "record" => RecordEntry(c) \in Entries
         /\ ask[c].op = "construct" => \A ref \in Refs : ConstructionEntry(c, ref) \in Entries
<1>1. ask[c] \in Asks
  BY RequestAsked
<1>2. ASSUME ask[c].op = "record"
      PROVE  RecordEntry(c) \in Entries
  BY <1>1, <1>2, AskTypes DEF RecordEntry, Body, Entries
<1>3. ASSUME ask[c].op = "construct", NEW ref \in Refs
      PROVE  ConstructionEntry(c, ref) \in Entries
  <2>1. Body(c).execution \in Executions
    BY <1>1, <1>3, AskTypes DEF Body, Constructions
  <2>2. [execution |-> Body(c).execution, event |-> None, state |-> "SIGNED_DRY_RUN",
         ref |-> ref] \in Records
    BY <2>1 DEF Records
  <2>3. (Body(c).ref # None) \in BOOLEAN
    OBVIOUS
  <2>. QED
    BY <2>2, <2>3 DEF ConstructionEntry, Entries
<1>. QED
  BY <1>2, <1>3

LEMMA TypeStep ==
  ASSUME Inv, [Next]_vars
  PROVE  TypeOK'
<1>. USE DEF Inv
<1>1. CASE Outside
  <2>1. PICK r \in Records : log' = log \cup {[record |-> r, by |-> None, given |-> FALSE]}
    BY <1>1 DEF Outside
  <2>2. [record |-> r, by |-> None, given |-> FALSE] \in Entries
    BY DEF Entries
  <2>. QED
    BY <1>1, <2>1, <2>2 DEF Outside, TypeOK
<1>2. ASSUME NEW c \in Calls, Refuse(c) \/ Send(c)
      PROVE  TypeOK'
  BY <1>2 DEF Refuse, Send, EndCall, Transmit, TypeOK, Links
<1>3. ASSUME NEW c \in Calls, Receive(c) \/ ReceiveFailure(c) \/ GiveUp(c)
      PROVE  TypeOK'
  BY <1>3 DEF Receive, ReceiveFailure, GiveUp, EndCall, Consume, Abandon, TypeOK, Links
<1>4. ASSUME NEW c \in Calls, ServeRecord(c)
      PROVE  TypeOK'
  <2>1. RecordEntry(c) \in Entries
    BY <1>4, EntryTypes DEF ServeRecord
  <2>2. log' \subseteq log \cup {RecordEntry(c)} /\ reply'[c] \subseteq log \cup {RecordEntry(c)}
        /\ reply' = [reply EXCEPT ![c] = reply'[c]]
    BY <1>4 DEF ServeRecord, RecordEntry, TypeOK
  <2>3. link' \in [Calls -> Links] /\ UNCHANGED <<pc, client, ask>>
    BY <1>4 DEF ServeRecord, Respond, TypeOK, Links
  <2>. QED
    BY <2>1, <2>2, <2>3 DEF TypeOK
<1>5. ASSUME NEW c \in Calls, ServeConstruction(c)
      PROVE  TypeOK'
  <2>1. PICK ref \in Refs : /\ log' = log \cup {ConstructionEntry(c, ref)}
                            /\ reply' = [reply EXCEPT ![c] = {ConstructionEntry(c, ref)}]
    BY <1>5 DEF ServeConstruction, ConstructionEntry
  <2>2. ConstructionEntry(c, ref) \in Entries
    BY <1>5, EntryTypes DEF ServeConstruction
  <2>3. link' \in [Calls -> Links] /\ UNCHANGED <<pc, client, ask>>
    BY <1>5 DEF ServeConstruction, Respond, TypeOK, Links
  <2>. QED
    BY <2>1, <2>2, <2>3 DEF TypeOK
<1>6. ASSUME NEW c \in Calls, ServeList(c)
      PROVE  TypeOK'
  BY <1>6 DEF ServeList, Respond, TypeOK, Links
<1>7. ASSUME NEW c \in Calls, Disturb(c)
      PROVE  TypeOK'
  BY <1>7 DEF Disturb, Trouble, TypeOK, Links
<1>8. CASE UNCHANGED vars
  BY <1>8 DEF vars, TypeOK
<1>. QED
  BY <1>1, <1>2, <1>3, <1>4, <1>5, <1>6, <1>7, <1>8 DEF Next

-------------------------------------------------------------------------------
(* Requests, entries and replies.                                           *)

\* Nothing happened to call d.
Still(d) == /\ pc'[d] = pc[d] /\ link'[d] = link[d]
            /\ ask'[d] = ask[d] /\ reply'[d] = reply[d]

\* A call that nothing happens to is as well off with a longer log, if what is
\* new there is not under the key that it has had an answer for.
LEMMA StillFlow ==
  ASSUME NEW d \in Calls, CallFlow(d), Still(d), log \subseteq log',
         reply[d] # {} /\ ask[d].op = "record" /\ ask[d].body.event # None =>
           \A e \in log' \ log : ~HasKeyOf(e, d)
  PROVE  CallFlow(d)'
<1>1. ReplyIsDue(d) => ReplyIsDue(d)'
  BY DEF Still, ReplyIsDue, HasKeyOf
<1>2. ReplyIsValid(d)' <=> ReplyIsValid(d)
  BY DEF Still, ReplyIsValid
<1>3. Permitted(ask'[d]) <=> Permitted(ask[d])
  BY DEF Still
<1>4. \A e : HasKeyOf(e, d)' <=> HasKeyOf(e, d)
  BY DEF Still, HasKeyOf
<1>. QED
  BY <1>1, <1>2, <1>3, <1>4 DEF Still, CallFlow, HasKeyOf

\* No call that has sent anything unsends it.
LEMMA LogStays ==
  ASSUME LogFlow, log' = log,
         \A d \in Calls : pc[d] \notin {"idle", "refused"} =>
           pc'[d] \notin {"idle", "refused"} /\ ask'[d] = ask[d]
  PROVE  LogFlow'
BY DEF LogFlow

LEMMA LogGrows ==
  ASSUME LogFlow, NEW new, log' = log \cup {new}, UNCHANGED <<pc, ask>>,
         new.by # None /\ new.given => RecordIsValid(new.record),
         new.by \in Calls => /\ pc[new.by] \notin {"idle", "refused"}
                             /\ ask[new.by].op # "list"
                             /\ ask[new.by].op = "record" => new.record = ask[new.by].body,
         new.record.event # None /\ new.by # None => new.given,
         new.record.event # None =>
           \A e \in log : ~(/\ e.record.execution = new.record.execution
                            /\ e.record.event = new.record.event)
  PROVE  LogFlow'
BY DEF LogFlow

LEMMA SendFlow ==
  ASSUME Inv, NEW c \in Calls, Send(c) \/ Refuse(c)
  PROVE  FlowInv'
<1>. USE DEF Inv
<1>1. pc[c] = "idle" /\ reply[c] = {} /\ link[c] = "quiet" /\ UNCHANGED <<reply, log>>
  BY DEF Send, Refuse, FlowInv, CallFlow
<1>2. \A d \in Calls : d # c => Still(d)
  BY <1>1 DEF Still, Send, Refuse, EndCall, Transmit, TypeOK
<1>3. LogFlow'
  BY <1>1, <1>2, LogStays DEF FlowInv, Still
<1>4. CallFlow(c)'
  <2>1. CASE Refuse(c)
    <3>1. pc'[c] = "refused" /\ link'[c] = "quiet" /\ reply'[c] = {}
      BY <1>1, <2>1 DEF Refuse, EndCall, TypeOK
    <3>. QED
      BY <3>1 DEF CallFlow
  <2>2. CASE Send(c)
    <3>1. /\ pc'[c] = "waiting" /\ link'[c] = "request" /\ reply'[c] = {}
          /\ ask'[c] \in Asks /\ Permitted(ask'[c])
      BY <1>1, <2>2 DEF Send, Transmit, TypeOK
    <3>. QED
      BY <3>1 DEF CallFlow
  <2>. QED
    BY <2>1, <2>2
<1>5. ASSUME NEW d \in Calls, d # c
      PROVE  CallFlow(d)'
  BY <1>1, <1>2, <1>5, StillFlow DEF FlowInv
<1>. QED
  BY <1>3, <1>4, <1>5 DEF FlowInv

LEMMA EndFlow ==
  ASSUME Inv, NEW c \in Calls, Receive(c) \/ ReceiveFailure(c) \/ GiveUp(c)
  PROVE  FlowInv'
<1>. USE DEF Inv
<1>1. pc[c] = "waiting" /\ UNCHANGED <<ask, reply, log>>
  BY DEF Receive, ReceiveFailure, GiveUp
<1>2. \A d \in Calls : d # c => Still(d)
  BY <1>1 DEF Still, Receive, ReceiveFailure, GiveUp, EndCall, Consume, Abandon, TypeOK
<1>3. pc'[c] \in {"ok", "rejected", "failed", "raised"}
  BY DEF Receive, ReceiveFailure, GiveUp, EndCall, TypeOK
<1>4. LogFlow'
  BY <1>1, <1>2, <1>3, LogStays DEF FlowInv, Still
<1>5. CallFlow(c)'
  <2>1. /\ ReplyIsValid(c)' <=> ReplyIsValid(c)
        /\ ReplyIsDue(c)' <=> ReplyIsDue(c)
    BY <1>1 DEF ReplyIsValid, ReplyIsDue, HasKeyOf
  <2>2. CallFlow(c)
    BY DEF FlowInv
  <2>3. CASE Receive(c)
    <3>1. ReplyIsDue(c) /\ link'[c] = "quiet"
          /\ pc'[c] = IF ReplyIsValid(c) THEN "ok" ELSE "rejected"
      BY <2>2, <2>3 DEF CallFlow, Receive, ReplyIsGood, Consume, EndCall, TypeOK
    <3>. QED
      BY <1>1, <2>1, <2>2, <3>1 DEF CallFlow, HasKeyOf
  <2>4. CASE ReceiveFailure(c)
    <3>1. pc'[c] = "failed" /\ link'[c] = "quiet"
      BY <2>4 DEF ReceiveFailure, Consume, EndCall, TypeOK
    <3>. QED
      BY <1>1, <2>1, <2>2, <3>1 DEF CallFlow, HasKeyOf
  <2>5. CASE GiveUp(c)
    <3>1. pc'[c] = "raised" /\ link'[c] \in {"quiet", "request"}
      BY <2>5 DEF GiveUp, Abandon, EndCall, TypeOK
    <3>. QED
      BY <1>1, <2>1, <2>2, <3>1 DEF CallFlow, HasKeyOf
  <2>. QED
    BY <2>3, <2>4, <2>5
<1>6. ASSUME NEW d \in Calls, d # c
      PROVE  CallFlow(d)'
  BY <1>1, <1>2, <1>6, StillFlow DEF FlowInv
<1>. QED
  BY <1>4, <1>5, <1>6 DEF FlowInv

LEMMA DisturbFlow ==
  ASSUME Inv, NEW c \in Calls, Disturb(c)
  PROVE  FlowInv'
<1>. USE DEF Inv
<1>1. UNCHANGED <<pc, ask, reply, log>> /\ link[c] \in {"request", "done"}
  BY DEF Disturb, Trouble
<1>2. \A d \in Calls : d # c => Still(d)
  BY <1>1 DEF Still, Disturb, Trouble, TypeOK
<1>3. LogFlow'
  BY <1>1, LogStays DEF FlowInv
<1>4. CallFlow(c)'
  <2>1. /\ ReplyIsValid(c)' <=> ReplyIsValid(c)
        /\ ReplyIsDue(c)' <=> ReplyIsDue(c)
    BY <1>1 DEF ReplyIsValid, ReplyIsDue, HasKeyOf
  <2>2. \/ pc[c] = "waiting" /\ link'[c] \in {"error", "lost", "garbled"}
        \/ pc[c] = "raised" /\ link'[c] = "quiet"
    BY <1>1 DEF Disturb, Trouble, FlowInv, CallFlow, TypeOK
  <2>3. CallFlow(c)
    BY DEF FlowInv
  <2>. QED
    BY <1>1, <2>1, <2>2, <2>3 DEF CallFlow, HasKeyOf
<1>5. ASSUME NEW d \in Calls, d # c
      PROVE  CallFlow(d)'
  BY <1>1, <1>2, <1>5, StillFlow DEF FlowInv
<1>. QED
  BY <1>3, <1>4, <1>5 DEF FlowInv

\* An entry of nobody's call, under no key that is in use: no call has had an
\* answer under the key, for that answer would be there.
LEMMA OutsideFlow ==
  ASSUME Inv, Outside
  PROVE  FlowInv'
<1>. USE DEF Inv
<1>1. PICK r \in Records :
        /\ r.event # None => \A e \in log : ~(/\ e.record.execution = r.execution
                                             /\ e.record.event = r.event)
        /\ log' = log \cup {[record |-> r, by |-> None, given |-> FALSE]}
  BY DEF Outside
<1>. DEFINE new == [record |-> r, by |-> None, given |-> FALSE]
<1>2. /\ new.by = None /\ new.record = r /\ new.by \notin Calls
      /\ log' = log \cup {new} /\ UNCHANGED <<pc, link, ask, reply>>
  BY <1>1, SignOnlyAssumption DEF Outside
<1>. HIDE DEF new
<1>3. LogFlow'
  BY <1>1, <1>2, LogGrows DEF FlowInv
<1>4. ASSUME NEW d \in Calls
      PROVE  CallFlow(d)'
  <2>1. Still(d) /\ log \subseteq log' /\ CallFlow(d)
    BY <1>2 DEF Still, FlowInv
  <2>2. ASSUME reply[d] # {}, ask[d].op = "record", ask[d].body.event # None,
               HasKeyOf(new, d)
        PROVE  FALSE
    <3>1. PICK e \in log : HasKeyOf(e, d)
      BY <2>1, <2>2 DEF CallFlow
    <3>. QED
      BY <1>1, <1>2, <2>2, <3>1 DEF HasKeyOf
  <2>. QED
    BY <1>2, <2>1, <2>2, StillFlow
<1>. QED
  BY <1>3, <1>4 DEF FlowInv

\* How a request that has been served leaves its own call: with the reply it was
\* due, and the record under its key if it has one.
LEMMA ServedFlow ==
  ASSUME Inv, NEW c \in Calls, link[c] = "request", Respond(c),
         UNCHANGED <<pc, ask>>, ReplyIsDue(c)', reply'[c] \subseteq log',
         ask[c].op = "record" /\ ask[c].body.event # None =>
           reply'[c] = {e \in log' : HasKeyOf(e, c)}
  PROVE  CallFlow(c)'
<1>1. /\ pc[c] \in {"waiting", "raised"}
      /\ ask[c] \in Asks /\ Permitted(ask[c])
  BY RequestAsked
<1>2. link'[c] = IF pc[c] = "waiting" THEN "done" ELSE "quiet"
  BY DEF Respond, Inv, TypeOK
<1>3. \A e : HasKeyOf(e, c)' <=> HasKeyOf(e, c)
  BY DEF HasKeyOf
<1>. QED
  BY <1>1, <1>2, <1>3 DEF CallFlow, HasKeyOf

LEMMA ServeListFlow ==
  ASSUME Inv, NEW c \in Calls, ServeList(c)
  PROVE  FlowInv'
<1>. USE DEF Inv
<1>1. link[c] = "request" /\ ask[c].op = "list" /\ Respond(c) /\ UNCHANGED <<pc, ask, log>>
  BY DEF ServeList
<1>2. \A d \in Calls : d # c => Still(d)
  BY <1>1 DEF Still, ServeList, Respond, TypeOK
<1>3. LogFlow'
  BY <1>1, LogStays DEF FlowInv
<1>4. reply'[c] \subseteq log'
  BY <1>1 DEF ServeList, TypeOK
<1>5. ReplyIsDue(c)'
  BY <1>1 DEF ReplyIsDue
<1>6. CallFlow(c)'
  BY <1>1, <1>4, <1>5, ServedFlow
<1>7. ASSUME NEW d \in Calls, d # c
      PROVE  CallFlow(d)'
  BY <1>1, <1>2, <1>7, StillFlow DEF FlowInv
<1>. QED
  BY <1>3, <1>6, <1>7 DEF FlowInv

\* The reference of a construction's entry is that which the call gave, and then
\* in order, or the executor's own.
LEMMA ServeConstructionFlow ==
  ASSUME Inv, NEW c \in Calls, ServeConstruction(c)
  PROVE  FlowInv'
<1>. USE DEF Inv
<1>1. PICK ref \in Refs : /\ Body(c).ref # None => ref = Body(c).ref
                          /\ log' = log \cup {ConstructionEntry(c, ref)}
                          /\ reply' = [reply EXCEPT ![c] = {ConstructionEntry(c, ref)}]
  BY DEF ServeConstruction, ConstructionEntry
<1>2. link[c] = "request" /\ ask[c].op = "construct" /\ Respond(c) /\ UNCHANGED <<pc, ask>>
  BY DEF ServeConstruction
<1>3. ask[c] \in Asks /\ Permitted(ask[c]) /\ pc[c] \in {"waiting", "raised"}
  BY <1>2, RequestAsked
<1>. DEFINE new == ConstructionEntry(c, ref)
<1>4. /\ new.by = c /\ (new.given <=> ask[c].body.ref # None) /\ new.record.event = None /\ new.record.state = "SIGNED_DRY_RUN"
      /\ new.record.execution = ask[c].body.execution
      /\ ask[c].body.ref # None => new.record.ref = ask[c].body.ref
  BY <1>1 DEF ConstructionEntry, Body
<1>5. ASSUME new.given
      PROVE  RecordIsValid(new.record)
  <2>1. Body(c).ref # None /\ new.record.ref = Body(c).ref
    BY <1>1, <1>5 DEF ConstructionEntry
  <2>2. RequestIsValid(Body(c))
    BY <1>2, <1>3 DEF Permitted, Body
  <2>. QED
    BY <1>4, <2>1, <2>2 DEF RequestIsValid, RecordIsValid, Body
<1>6. log' = log \cup {new} /\ reply'[c] = {new} /\ \A d \in Calls : d # c => reply'[d] = reply[d]
  BY <1>1 DEF TypeOK
<1>. HIDE DEF new
<1>7. LogFlow'
  BY <1>2, <1>3, <1>4, <1>5, <1>6, LogGrows DEF FlowInv
<1>8. ReplyIsDue(c)'
  BY <1>2, <1>4, <1>6 DEF ReplyIsDue
<1>9. CallFlow(c)'
  BY <1>2, <1>6, <1>8, ServedFlow
<1>10. ASSUME NEW d \in Calls, d # c
       PROVE  CallFlow(d)'
  <2>1. Still(d) /\ log \subseteq log' /\ CallFlow(d)
    BY <1>2, <1>6, <1>10 DEF Still, Respond, TypeOK, FlowInv
  <2>2. \A e \in log' \ log : e.record.event = None
    BY <1>4, <1>6
  <2>. QED
    BY <2>1, <2>2, StillFlow DEF HasKeyOf
<1>. QED
  BY <1>7, <1>9, <1>10 DEF FlowInv

\* A record is entered under a key only where there is none, and a call that has
\* had its answer under that key has it from one that is there.
LEMMA ServeRecordFlow ==
  ASSUME Inv, NEW c \in Calls, ServeRecord(c)
  PROVE  FlowInv'
<1>. USE DEF Inv
<1>. DEFINE b == ask[c].body
            old == {e \in log : e.record.execution = b.execution /\ e.record.event = b.event
                                  /\ b.event # None}
            new == RecordEntry(c)
<1>1. /\ link[c] = "request" /\ ask[c].op = "record" /\ Respond(c) /\ UNCHANGED <<pc, ask>>
      /\ log' = IF old = {} THEN log \cup {new} ELSE log
      /\ reply'[c] = IF old = {} THEN {new} ELSE old
      /\ \A d \in Calls : d # c => Still(d)
  BY DEF ServeRecord, RecordEntry, Body, Still, Respond, TypeOK
<1>2. new.record = b /\ new.by = c /\ new.given /\ new.by # None
  BY SignOnlyAssumption DEF RecordEntry, Body
<1>3. ask[c] \in Asks /\ RecordIsValid(b) /\ pc[c] \in {"waiting", "raised"}
  BY <1>1, RequestAsked DEF Permitted
<1>4. b.event # None /\ old = {} =>
        \A e \in log : ~(e.record.execution = b.execution /\ e.record.event = b.event)
  OBVIOUS
<1>5. LogFlow'
  <2>1. CASE old = {}
    <3>1. log' = log \cup {new}
      BY <1>1, <2>1
    <3>. HIDE DEF new, old
    <3>. QED
      BY <1>1, <1>2, <1>3, <1>4, <2>1, <3>1, LogGrows DEF FlowInv
  <2>2. CASE old # {}
    BY <1>1, <2>2, LogStays DEF FlowInv
  <2>. QED
    BY <2>1, <2>2
<1>6. CallFlow(c)'
  <2>1. reply'[c] # {} /\ reply'[c] \subseteq log'
    BY <1>1
  <2>2. ReplyIsDue(c)'
    <3>1. ASSUME NEW e \in reply'[c]
          PROVE  (e.by # None /\ e.given) \/ (e.by = None /\ HasKeyOf(e, c))
      <4>1. CASE e = new
        BY <1>2, <4>1
      <4>2. CASE e # new
        <5>1. e \in log /\ HasKeyOf(e, c)
          BY <1>1, <3>1, <4>2 DEF HasKeyOf
        <5>. QED
          BY <5>1 DEF FlowInv, LogFlow, HasKeyOf
      <4>. QED
        BY <4>1, <4>2
    <3>. QED
      BY <1>1, <2>1, <3>1 DEF ReplyIsDue, HasKeyOf
  <2>3. b.event # None => reply'[c] = {e \in log' : HasKeyOf(e, c)}
    BY <1>1, <1>2, <1>4 DEF HasKeyOf
  <2>. QED
    BY <1>1, <2>1, <2>2, <2>3, ServedFlow
<1>7. ASSUME NEW d \in Calls, d # c
      PROVE  CallFlow(d)'
  <2>1. Still(d) /\ log \subseteq log' /\ CallFlow(d)
    BY <1>1, <1>7 DEF FlowInv
  <2>2. ASSUME reply[d] # {}, ask[d].op = "record", ask[d].body.event # None,
               NEW e \in log' \ log, HasKeyOf(e, d)
        PROVE  FALSE
    <3>1. old = {} /\ e = new
      BY <1>1, <2>2
    <3>2. PICK f \in log : HasKeyOf(f, d)
      BY <2>1, <2>2 DEF CallFlow
    <3>. QED
      BY <1>2, <1>4, <2>2, <3>1, <3>2 DEF HasKeyOf
  <2>. QED
    BY <2>1, <2>2, StillFlow
<1>. QED
  BY <1>5, <1>6, <1>7 DEF FlowInv

LEMMA FlowStep ==
  ASSUME Inv, [Next]_vars
  PROVE  FlowInv'
<1>1. CASE UNCHANGED vars
  <2>1. LogFlow' /\ \A d \in Calls : CallFlow(d) /\ Still(d) /\ log' = log
    BY <1>1, LogStays DEF vars, Inv, FlowInv, Still
  <2>. QED
    BY <2>1, StillFlow DEF FlowInv
<1>2. CASE Next
  BY <1>2, OutsideFlow, SendFlow, EndFlow, ServeRecordFlow, ServeConstructionFlow,
     ServeListFlow, DisturbFlow DEF Next
<1>. QED
  BY <1>1, <1>2

LEMMA InvInit == Init => Inv
<1>. SUFFICES ASSUME Init
              PROVE  Inv
  OBVIOUS
<1>1. TypeOK
  BY DEF Init, TypeOK, Links
<1>2. LogFlow
  BY DEF Init, LogFlow
<1>3. ASSUME NEW c \in Calls
      PROVE  CallFlow(c)
  BY DEF Init, CallFlow
<1>. QED
  BY <1>1, <1>2, <1>3 DEF Inv, FlowInv

-------------------------------------------------------------------------------
(* The theorems.                                                            *)

\* Every entry of the executor's log is what some call asked for or somebody
\* else's, a key has one entry, and the reply of each call is what it is due.
THEOREM LogIsKept == Spec => []Inv
<1>1. Inv /\ [Next]_vars => Inv'
  BY TypeStep, FlowStep DEF Inv
<1>. QED
  BY InvInit, <1>1, PTL DEF Spec

\* Every variable keeps its type.
THEOREM SignOnlyTypes == Spec => []TypeOK
<1>1. Inv => TypeOK
  BY DEF Inv
<1>. QED
  BY LogIsKept, <1>1, PTL

\* What the models turn away (client.py, the three sign-only methods) holds a
\* record that another wrote or whose reference the executor derived: nothing that
\* the adapter recorded in full makes an execution unreadable.  A recording is
\* turned away only by a record that another put under its key before it came,
\* and is then not kept.
THEOREM UnreadableIsExplained == Spec => []UnreadableHasACause
<1>1. ASSUME Inv, NEW c \in Calls, pc[c] = "rejected"
      PROVE  /\ \E e \in reply[c] : e.by = None \/ ~e.given
             /\ ask[c].op = "construct" => ask[c].body.ref = None
             /\ ask[c].op = "record" =>
                  /\ \A e \in reply[c] : e.by = None /\ HasKeyOf(e, c)
                  /\ \A e \in log : e.by # c
  <2>1. PICK e \in reply[c] : ~RecordIsValid(e.record)
    BY <1>1 DEF Inv, FlowInv, CallFlow, ReplyIsValid
  <2>2. e \in log /\ ask[c] \in Asks /\ ReplyIsDue(c)
    BY <1>1 DEF Inv, FlowInv, CallFlow
  <2>3. e.by = None \/ ~e.given
    BY <1>1, <2>1, <2>2 DEF Inv, FlowInv, LogFlow
  <2>4. ASSUME ask[c].op = "record"
        PROVE  /\ \A f \in reply[c] : f.by = None /\ HasKeyOf(f, c)
               /\ \A f \in log : f.by # c
    <3>1. e.by = None /\ HasKeyOf(e, c)
      BY <2>1, <2>2, <2>3, <2>4 DEF ReplyIsDue
    <3>2. reply[c] \subseteq log /\ \A f \in reply[c] : HasKeyOf(f, c)
      BY <1>1, <2>1, <2>4, <3>1 DEF Inv, FlowInv, CallFlow, HasKeyOf
    <3>3. \A f \in log : HasKeyOf(f, c) => f = e
      BY <1>1, <2>2, <3>1 DEF Inv, FlowInv, LogFlow, HasKeyOf
    <3>4. ASSUME NEW f \in log, f.by = c
          PROVE  HasKeyOf(f, c)
      <4>1. f.record = ask[c].body
        BY <1>1, <2>4, <3>4 DEF Inv, FlowInv, LogFlow
      <4>. QED
        BY <3>1, <4>1 DEF HasKeyOf
    <3>. QED
      BY <3>1, <3>2, <3>3, <3>4, SignOnlyAssumption
  <2>5. ASSUME ask[c].op = "construct"
        PROVE  ask[c].body.ref = None
    <3>1. e.by = c /\ (e.given <=> ask[c].body.ref # None)
      BY <2>1, <2>2, <2>5 DEF ReplyIsDue
    <3>. QED
      BY <2>3, <3>1, SignOnlyAssumption
  <2>. QED
    BY <2>1, <2>3, <2>4, <2>5
<1>2. Inv => UnreadableHasACause
  BY <1>1 DEF UnreadableHasACause
<1>. QED
  BY LogIsKept, <1>2, PTL

\* client_event_id makes recording repeatable: however many calls record one
\* event of one execution, and however late their requests arrive, they leave at
\* most one record of it and those that had an answer had the same one.
THEOREM OneRecordOfAnEvent == Spec => []AttemptsLeaveOneRecord
<1>1. ASSUME Inv, NEW c \in Calls, NEW d \in Calls, reply[c] # {}, reply[d] # {},
             ask[c].op = "record", ask[d].op = "record", ask[c].body.event # None,
             ask[c].body.event = ask[d].body.event,
             ask[c].body.execution = ask[d].body.execution
      PROVE  /\ reply[c] = reply[d]
             /\ \A e, f \in log : {e.by, f.by} \subseteq {c, d} => e = f
  <2>1. reply[c] = reply[d]
    <3>1. /\ reply[c] = {e \in log : HasKeyOf(e, c)}
          /\ reply[d] = {e \in log : HasKeyOf(e, d)}
      BY <1>1 DEF Inv, FlowInv, CallFlow
    <3>. QED
      BY <1>1, <3>1 DEF HasKeyOf
  <2>2. ASSUME NEW e \in log, e.by \in {c, d}
        PROVE  /\ e.record.event = ask[c].body.event
               /\ e.record.execution = ask[c].body.execution
    BY <1>1, <2>2 DEF Inv, FlowInv, LogFlow
  <2>3. ASSUME NEW e \in log, NEW f \in log, {e.by, f.by} \subseteq {c, d}
        PROVE  e = f
    BY <1>1, <2>2, <2>3 DEF Inv, FlowInv, LogFlow
  <2>. QED
    BY <2>1, <2>3
<1>2. Inv => AttemptsLeaveOneRecord
  BY <1>1 DEF AttemptsLeaveOneRecord
<1>. QED
  BY LogIsKept, <1>2, PTL

\* How a call ended tells what the executor's log has of it: nothing of one that
\* was refused; of one that was answered, whether or not its answer was taken,
\* what it was answered with; and of a construction that is ok, what it asked for.
THEOREM EndingsTellTheLog == Spec => []EndingsMatchTheLog
<1>1. ASSUME Inv, NEW c \in Calls
      PROVE  /\ pc[c] = "refused" => \A e \in log : e.by # c
             /\ pc[c] \in {"ok", "rejected"} => reply[c] \subseteq log
             /\ pc[c] \in {"ok", "rejected"} /\ ask[c].op # "list" => reply[c] # {}
  <2>1. pc[c] = "refused" => \A e \in log : e.by # c
    BY <1>1 DEF Inv, FlowInv, LogFlow
  <2>2. ASSUME pc[c] \in {"ok", "rejected"}
        PROVE  reply[c] \subseteq log /\ (ask[c].op # "list" => reply[c] # {})
    <3>1. ask[c] \in Asks /\ ReplyIsDue(c) /\ reply[c] \subseteq log
      BY <1>1, <2>2 DEF Inv, FlowInv, CallFlow
    <3>. QED
      BY <3>1, AskTypes DEF ReplyIsDue
  <2>. QED
    BY <2>1, <2>2
<1>2. ASSUME Inv, NEW c \in Calls, pc[c] = "ok", ask[c].op = "construct"
      PROVE  \E e \in log : /\ e.by = c
                            /\ e.record.ref.execution = ask[c].body.execution
                            /\ ask[c].body.ref # None => e.record.ref = ask[c].body.ref
  <2>1. ReplyIsDue(c) /\ ReplyIsValid(c)
    BY <1>2 DEF Inv, FlowInv, CallFlow
  <2>. QED
    BY <1>2, <2>1 DEF ReplyIsDue, ReplyIsValid, RecordIsValid
<1>3. Inv => EndingsMatchTheLog
  BY <1>1, <1>2 DEF EndingsMatchTheLog
<1>. QED
  BY LogIsKept, <1>3, PTL
===============================================================================
