------------------------------- MODULE SignOnly -------------------------------
(***************************************************************************)
(* The sign-only methods of ExecutorClient: recording a lifecycle event,   *)
(* recording a construction, and listing what is recorded for an           *)
(* execution.                                                              *)
(*                                                                         *)
(* Each validates what it sends and what comes back with the same models,  *)
(* and a list is taken whole or not at all, so one record those models     *)
(* refuse hides all the others of its execution.  The question is what can *)
(* put such a record there, and what a caller that was turned away or      *)
(* timed out may conclude.  no_remote_side_effect, which every model       *)
(* requires to be true, is left out.                                       *)
(***************************************************************************)
EXTENDS Transport

CONSTANTS Executions, Colons,    \* Colons: those with a colon in their id
          Events,                \* client_event_ids
          Plans, Digests,
          Garbled,               \* plan hashes and digests not in lower-case hex
          None

ASSUME SignOnlyAssumption ==
  /\ Colons \subseteq Executions /\ Garbled \subseteq Plans \cup Digests
  /\ None \notin Executions \cup Events \cup Plans \cup Digests \cup Calls

\* sign-only:<execution>:<plan>:<digest>
Refs == [execution: Executions, plan: Plans, digest: Digests]
\* Of the six states only SIGNED_DRY_RUN has rules of its own.
Records == [execution: Executions, event: Events \cup {None},
            state: {"RESERVATION_PREPARED", "SIGNED_DRY_RUN"}, ref: Refs \cup {None}]
Constructions == [execution: Executions, plan: Plans, ref: Refs \cup {None},
                  digest: Digests \cup {None}]
Asks == [op: {"record"}, body: Records]
          \cup [op: {"construct"}, body: Constructions]
          \cup [op: {"list"}, body: [execution: Executions]]
Entries == [record: Records, by: Calls \cup {None}, given: BOOLEAN]

VARIABLES ask,      \* what each call was called with
          reply,    \* the entries that its reply consists of
          log       \* the executor's entries: a record, for which call it was
                    \* made, and whether that call gave its reference

vars == <<pc, client, link, ask, reply, log>>

Init ==
  /\ pc = [c \in Calls |-> "idle"]
  /\ client = [c \in Calls |-> "open"]
  /\ link = [c \in Calls |-> "quiet"]
  /\ ask = [c \in Calls |-> None]
  /\ reply = [c \in Calls |-> {}]
  /\ log = {}

-------------------------------------------------------------------------------
(* The models.                                                              *)

\* _parse_sign_only_ref: four parts, the last two hashes.
Parses(ref) ==
  ref.execution \notin Colons /\ ref.plan \notin Garbled /\ ref.digest \notin Garbled

\* SignOnlyLifecycleRecord.signed_order_ref_boundary
RecordIsValid(r) ==
  IF r.state = "SIGNED_DRY_RUN"
    THEN r.ref # None /\ Parses(r.ref) /\ r.ref.execution = r.execution
    ELSE r.ref = None

\* Mutant of RequestIsValid: the reference is parsed, not compared.
RequestIsValidUnbound(q) ==
  /\ q.plan \notin Garbled /\ q.digest \notin Garbled
  /\ q.ref # None => Parses(q.ref)

\* StandardSignOnlyConstructionRequest
RequestIsValid(q) ==
  /\ q.plan \notin Garbled /\ q.digest \notin Garbled
  /\ q.ref # None =>
       /\ Parses(q.ref) /\ q.ref.execution = q.execution /\ q.ref.plan = q.plan
       /\ q.digest # None => q.ref.digest = q.digest

Permitted(a) ==
  /\ a.op = "record" => RecordIsValid(a.body)
  /\ a.op = "construct" => RequestIsValid(a.body)

\* The records of a reply are validated one by one, and a construction's receipt
\* by its reference, that of its record.  A receipt at odds with itself is one
\* of the garbled replies.
ReplyIsValid(c) == \A e \in reply[c] : RecordIsValid(e.record)

-------------------------------------------------------------------------------
(* The client.                                                              *)

Refuse(c) ==
  /\ pc[c] = "idle"
  /\ \E a \in Asks : ~Permitted(a) /\ ask' = [ask EXCEPT ![c] = a]
  /\ EndCall(c, "refused")
  /\ UNCHANGED <<link, reply, log>>

Send(c) ==
  /\ pc[c] = "idle"
  /\ \E a \in Asks : Permitted(a) /\ ask' = [ask EXCEPT ![c] = a]
  /\ Transmit(c)
  /\ pc' = [pc EXCEPT ![c] = "waiting"]
  /\ UNCHANGED <<client, reply, log>>

\* Mutant of Body: the event id is dropped with the other optional fields.
BodyAnonymous(c) ==
  IF ask[c].op = "record" THEN [ask[c].body EXCEPT !.event = None] ELSE ask[c].body

\* Mutant of Body: the states go by older names.
BodyOldStates(c) ==
  IF ask[c].op = "record" THEN [ask[c].body EXCEPT !.state = "PREPARED"] ELSE ask[c].body

\* model_dump: the whole object.
Body(c) == ask[c].body

Receive(c) ==
  /\ pc[c] = "waiting" /\ ReplyIsGood(c)
  /\ Consume(c)
  /\ EndCall(c, IF ReplyIsValid(c) THEN "ok" ELSE "rejected")
  /\ UNCHANGED <<ask, reply, log>>

ReceiveFailure(c) ==
  /\ pc[c] = "waiting" /\ ReplyIsBad(c)
  /\ Consume(c)
  /\ EndCall(c, "failed")
  /\ UNCHANGED <<ask, reply, log>>

\* Mutant of GiveUp: a timeout is reported as a refused request.
GiveUpRefused(c) ==
  /\ pc[c] = "waiting"
  /\ EndCall(c, "refused")
  /\ Abandon(c)
  /\ UNCHANGED <<ask, reply, log>>

GiveUp(c) ==
  /\ pc[c] = "waiting"
  /\ EndCall(c, "raised")
  /\ Abandon(c)
  /\ UNCHANGED <<ask, reply, log>>

-------------------------------------------------------------------------------
(* The executor, external to this repository, as its contract has it.       *)

\* client_event_id is an idempotency key within an execution.
ServeRecord(c) ==
  LET b == Body(c)
      old == {e \in log : e.record.execution = b.execution /\ e.record.event = b.event
                            /\ b.event # None}
      new == [record |-> b, by |-> c, given |-> TRUE] IN
  /\ link[c] = "request" /\ ask[c].op = "record"
  /\ log' = IF old = {} THEN log \cup {new} ELSE log
  /\ reply' = [reply EXCEPT ![c] = IF old = {} THEN {new} ELSE old]
  /\ Respond(c)
  /\ UNCHANGED <<pc, client, ask>>

\* A construction carries no key: each leaves an entry.  A reference that was not
\* given is derived: any that begins with sign-only:.
ServeConstruction(c) ==
  LET b == Body(c) IN
  /\ link[c] = "request" /\ ask[c].op = "construct"
  /\ \E ref \in Refs :
       LET new == [record |-> [execution |-> b.execution, event |-> None,
                               state |-> "SIGNED_DRY_RUN", ref |-> ref],
                   by |-> c, given |-> b.ref # None] IN
       /\ b.ref # None => ref = b.ref
       /\ log' = log \cup {new}
       /\ reply' = [reply EXCEPT ![c] = {new}]
  /\ Respond(c)
  /\ UNCHANGED <<pc, client, ask>>

ServeList(c) ==
  /\ link[c] = "request" /\ ask[c].op = "list"
  /\ reply' = [reply EXCEPT ![c] = {e \in log : e.record.execution = Body(c).execution}]
  /\ Respond(c)
  /\ UNCHANGED <<pc, client, ask, log>>

\* Someone else's record: any that the contract lets in, which ties no reference
\* to a state and has the keys of an execution shared by all who write to it.
\* Under a key that is in use nothing is appended.
Outside ==
  /\ \E r \in Records :
       /\ r.event # None => \A e \in log : ~(/\ e.record.execution = r.execution
                                            /\ e.record.event = r.event)
       /\ log' = log \cup {[record |-> r, by |-> None, given |-> FALSE]}
  /\ \A e \in log : e.by # None     \* bound: one of them
  /\ UNCHANGED <<pc, client, link, ask, reply>>

Disturb(c) == Trouble(c) /\ UNCHANGED <<pc, client, ask, reply, log>>

Next ==
  \/ Outside
  \/ \E c \in Calls :
       \/ Refuse(c) \/ Send(c) \/ Receive(c) \/ ReceiveFailure(c) \/ GiveUp(c)
       \/ ServeRecord(c) \/ ServeConstruction(c) \/ ServeList(c) \/ Disturb(c)

Spec == Init /\ [][Next]_vars

-------------------------------------------------------------------------------
(* Properties.                                                              *)

TypeOK ==
  /\ pc \in [Calls -> {"idle", "waiting", "refused", "ok", "rejected", "failed", "raised"}]
  /\ client \in [Calls -> {"open", "closed"}]
  /\ link \in [Calls -> Links]
  /\ ask \in [Calls -> Asks \cup {None}]
  /\ reply \in [Calls -> SUBSET Entries]
  /\ log \subseteq Entries

\* What the invariants below come from.  Each entry is what some call asked for,
\* or somebody else's; what a call gave is valid, and a key has one entry.
LogFlow ==
  /\ \A e \in log :
       /\ e.by # None /\ e.given => RecordIsValid(e.record)
       /\ e.record.event # None /\ e.by # None => e.given
       /\ e.by \in Calls =>
            /\ pc[e.by] \notin {"idle", "refused"} /\ ask[e.by].op # "list"
            /\ ask[e.by].op = "record" => e.record = ask[e.by].body
  /\ \A e, f \in log :
       (/\ e.record.event # None /\ e.record.event = f.record.event
        /\ e.record.execution = f.record.execution) => e = f

\* Entry e is under the key that call c gave.
HasKeyOf(e, c) == /\ ask[c].body.event # None /\ e.record.event = ask[c].body.event
                  /\ e.record.execution = ask[c].body.execution

\* The reply that call c waits for, or has had, is that to what it asked.
ReplyIsDue(c) ==
  /\ ask[c].op = "record" =>
       /\ reply[c] # {}
       /\ \A e \in reply[c] : \/ e.by # None /\ e.given
                              \/ e.by = None /\ HasKeyOf(e, c)
  /\ ask[c].op = "construct" =>
       \E e \in log : /\ reply[c] = {e} /\ e.by = c /\ (e.given <=> ask[c].body.ref # None)
                      /\ e.record.state = "SIGNED_DRY_RUN"
                      /\ e.record.execution = ask[c].body.execution
                      /\ ask[c].body.ref # None => e.record.ref = ask[c].body.ref

CallFlow(c) ==
  /\ pc[c] \in {"idle", "refused"} => reply[c] = {} /\ link[c] = "quiet"
  /\ pc[c] \notin {"idle", "refused"} => ask[c] \in Asks /\ Permitted(ask[c])
  /\ pc[c] = "raised" => link[c] \in {"quiet", "request"}
  /\ pc[c] \notin {"waiting", "raised"} => link[c] = "quiet"
  /\ link[c] = "done" \/ pc[c] \in {"ok", "rejected"} => ReplyIsDue(c)
  /\ pc[c] = "ok" => ReplyIsValid(c)
  /\ pc[c] = "rejected" => ~ReplyIsValid(c)
  /\ reply[c] \subseteq log
  /\ reply[c] # {} /\ ask[c].op = "record" /\ ask[c].body.event # None =>
       reply[c] = {e \in log : HasKeyOf(e, c)}

FlowInv == LogFlow /\ \A c \in Calls : CallFlow(c)

\* What turns a call away.  No record that the adapter wrote in full does, however
\* it comes back: there is one that someone else wrote, or whose reference the
\* executor derived.  A construction is turned away only if it gave no reference,
\* and a recording only if someone else had used its key first, so that nothing
\* of the recording is kept.
UnreadableHasACause ==
  \A c \in Calls : pc[c] = "rejected" =>
    /\ \E e \in reply[c] : e.by = None \/ ~e.given
    /\ ask[c].op = "construct" => ask[c].body.ref = None
    /\ ask[c].op = "record" =>
         /\ \A e \in reply[c] : e.by = None /\ HasKeyOf(e, c)
         /\ \A e \in log : e.by # c

\* Attempts to record one event, however many raised and arrive late, leave at most
\* one record of their own, and those that are answered get the same answer.
AttemptsLeaveOneRecord ==
  LET Same(c, d) == /\ ask[c].op = "record" /\ ask[d].op = "record"
                    /\ ask[c].body.event # None /\ ask[c].body.event = ask[d].body.event
                    /\ ask[c].body.execution = ask[d].body.execution IN
  \A c, d \in Calls :
    /\ reply[c] # {} /\ reply[d] # {} /\ Same(c, d)
    => reply[c] = reply[d] /\ \A e, f \in log : {e.by, f.by} \subseteq {c, d} => e = f

\* What an ending says about the log: refused, there is nothing of the call;
\* rejected or ok, what it was answered with is there, and of a construction
\* that is ok what it asked for.
EndingsMatchTheLog ==
  \A c \in Calls :
    /\ pc[c] = "refused" => \A e \in log : e.by # c
    /\ pc[c] \in {"ok", "rejected"} => reply[c] \subseteq log
    /\ pc[c] \in {"ok", "rejected"} /\ ask[c].op # "list" => reply[c] # {}
    /\ pc[c] = "ok" /\ ask[c].op = "construct" =>
         \E e \in log : /\ e.by = c /\ e.record.ref.execution = ask[c].body.execution
                        /\ ask[c].body.ref # None => e.record.ref = ask[c].body.ref

\* A construction answered as the contract describes it is accepted
\* (README.md:16, "Pydantic models aligned with OpenAPI public schemas").
ConformingConstructionsAreAccepted ==
  \A c \in Calls : ask[c] # None /\ ask[c].op = "construct" => pc[c] # "rejected"
===============================================================================
