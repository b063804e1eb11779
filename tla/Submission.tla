------------------------------ MODULE Submission ------------------------------
(***************************************************************************)
(* submit_plan and get_submission: a dry run under an idempotency key, and *)
(* the question what became of it.                                         *)
(*                                                                         *)
(* submit_plan is a method for programs, inside `with ExecutorClient`;     *)
(* get_submission is also a tool.  Either makes one request; retrying is   *)
(* the caller's business, so each attempt is a call of its own and the     *)
(* question is what the endings of several attempts say together.          *)
(***************************************************************************)
EXTENDS Transport

CONSTANTS Executions, Keys, Plans, None, Missing,
          Statuses    \* those the executor uses, of SubmitReceipt's six

Blocked == {"BLOCKED", "REJECTED"}
Live == {"ACCEPTED", "POSTED", "PARTIAL_REMOTE_UNKNOWN", "REMOTE_UNKNOWN"}

Submits == [op: {"submit"}, execution: Executions, key: Keys, plan: Plans,
            mode: {"BLOCKED_DRY_RUN", "LIVE"}]
Reads == [op: {"read"}, execution: Executions \cup {None}]
Records == [plan: Plans, status: Statuses]

ASSUME SubmissionAssumption ==
  /\ Statuses \subseteq Blocked \cup Live
  /\ None \notin Executions \cup Submits \cup Reads \cup Records \cup {Missing}
  /\ Missing \notin Records

VARIABLES ask,      \* what each call was called with
          over,     \* the calls that had ended, not by raising, when it was made
          reply,    \* what the executor decided to answer it: a record or Missing
          records   \* the executor's submissions, by execution and key

vars == <<pc, client, link, ask, over, reply, records>>

Ended == {"ok", "rejected", "failed", "refused"}
Identity(a) == <<a.execution, a.key>>

Init ==
  /\ pc = [c \in Calls |-> "idle"]
  /\ client = [c \in Calls |-> "open"]
  /\ link = [c \in Calls |-> "quiet"]
  /\ ask = [c \in Calls |-> None]
  /\ over = [c \in Calls |-> {}]
  /\ reply = [c \in Calls |-> None]
  /\ records = [i \in Executions \X Keys |-> None]

-------------------------------------------------------------------------------
(* The client.                                                              *)

\* Mutant of Permitted: the mode is left to the executor.
PermittedAnyMode(a) == a.op = "read" => a.execution # None

\* submit_plan takes one mode; handle_get_submission needs an execution.
Permitted(a) ==
  /\ a.op = "submit" => a.mode = "BLOCKED_DRY_RUN"
  /\ a.op = "read" => a.execution # None

\* Mutant of Begin: the mode goes by an older name.
BeginOldMode(c, a) ==
  /\ pc[c] = "idle"
  /\ ask' = [ask EXCEPT ![c] = IF a.op = "submit" THEN [a EXCEPT !.mode = "DRY_RUN"] ELSE a]
  /\ over' = [over EXCEPT ![c] = {d \in Calls : pc[d] \in Ended}]
  /\ UNCHANGED <<reply, records>>

Begin(c, a) ==
  /\ pc[c] = "idle"
  /\ ask' = [ask EXCEPT ![c] = a]
  /\ over' = [over EXCEPT ![c] = {d \in Calls : pc[d] \in Ended}]
  /\ UNCHANGED <<reply, records>>

Refuse(c) ==
  \E a \in Submits \cup Reads :
    /\ ~Permitted(a)
    /\ Begin(c, a)
    /\ EndCall(c, "refused")
    /\ UNCHANGED link

Send(c) ==
  \E a \in Submits \cup Reads :
    /\ Permitted(a)
    /\ Begin(c, a)
    /\ Transmit(c)
    /\ pc' = [pc EXCEPT ![c] = "waiting"]
    /\ UNCHANGED client

\* Mutant of Body: what looks like a retry gets a key of its own.
BodyFreshKey(c) ==
  IF ask[c].op = "submit" /\ \E d \in Calls : pc[d] = "raised" /\ ask[d] = ask[c]
    THEN [ask[c] EXCEPT !.key = CHOOSE k \in Keys : k # ask[c].key]
    ELSE ask[c]

\* The request: for a submission everything it was called with.
Body(c) == ask[c]

\* A submission's receipt must be of a dry run; a read's may have any status.
Acceptable(c) == ask[c].op = "submit" => reply[c].status \in Blocked

Receive(c) ==
  /\ pc[c] = "waiting" /\ ReplyIsGood(c)
  /\ Consume(c)
  /\ EndCall(c, IF Acceptable(c) THEN "ok" ELSE "rejected")
  /\ UNCHANGED <<ask, over, reply, records>>

\* A status of 400 or more, "not found" among them, or an unreadable body.
ReceiveFailure(c) ==
  /\ pc[c] = "waiting" /\ ReplyIsBad(c)
  /\ Consume(c)
  /\ EndCall(c, "failed")
  /\ UNCHANGED <<ask, over, reply, records>>

\* Mutant of GiveUp: a timeout becomes one more ExecutorHttpError.
GiveUpFails(c) ==
  /\ pc[c] = "waiting"
  /\ EndCall(c, "failed")
  /\ Abandon(c)
  /\ UNCHANGED <<ask, over, reply, records>>

GiveUp(c) ==
  /\ pc[c] = "waiting"
  /\ EndCall(c, "raised")
  /\ Abandon(c)
  /\ UNCHANGED <<ask, over, reply, records>>

\* However it ends, the client is closed: by the with block of the program that
\* calls submit_plan, or by the tool's _with_client around get_submission.
ClientStep(c) == Receive(c) \/ ReceiveFailure(c) \/ GiveUp(c)

-------------------------------------------------------------------------------
(* The executor, external to this repository.  It keeps one submission for  *)
(* an execution and key and replays its receipt; that a dry run gets a      *)
(* dry-run status is not relied on.                                         *)

Found(e) == {records[<<e, k>>] : k \in Keys} \ {None}

ServeSubmit(c) ==
  LET a == Body(c)  i == Identity(a) IN
  /\ link[c] = "request" /\ a.op = "submit"
  /\ \E r \in Records :
       /\ IF records[i] = None THEN r.plan = a.plan ELSE r = records[i]
       /\ records' = [records EXCEPT ![i] = r]
       /\ reply' = [reply EXCEPT ![c] = r]
  /\ Respond(c)
  /\ UNCHANGED <<pc, client, ask, over>>

ServeRead(c) ==
  /\ link[c] = "request" /\ Body(c).op = "read"
  /\ \E r \in Found(Body(c).execution) : reply' = [reply EXCEPT ![c] = r]
  /\ Respond(c)
  /\ UNCHANGED <<pc, client, ask, over, records>>

ServeMissing(c) ==
  /\ link[c] = "request" /\ Body(c).op = "read"
  /\ Found(Body(c).execution) = {}
  /\ reply' = [reply EXCEPT ![c] = Missing]
  /\ link' = [link EXCEPT ![c] = IF pc[c] = "waiting" THEN "error" ELSE "quiet"]
  /\ UNCHANGED <<pc, client, ask, over, records>>

Serve(c) == ServeSubmit(c) \/ ServeRead(c) \/ ServeMissing(c)

Disturb(c) ==
  /\ Trouble(c)
  /\ UNCHANGED <<pc, client, ask, over, reply, records>>

Next ==
  \E c \in Calls : Refuse(c) \/ Send(c) \/ ClientStep(c) \/ Serve(c) \/ Disturb(c)

Spec == Init /\ [][Next]_vars

-------------------------------------------------------------------------------
(* Properties.                                                              *)

TypeOK ==
  /\ pc \in [Calls -> {"idle", "waiting", "raised"} \cup Ended]
  /\ client \in [Calls -> {"open", "closed"}]
  /\ link \in [Calls -> Links]
  /\ ask \in [Calls -> Submits \cup Reads \cup {None}]
  /\ over \in [Calls -> SUBSET Calls]
  /\ reply \in [Calls -> Records \cup {None, Missing}]
  /\ records \in [Executions \X Keys -> Records \cup {None}]

Served(c) == reply[c] # None
Submitted(c) == ask[c] \in Submits
Recorded(c) == records[Identity(ask[c])]

\* What an ending says about the executor: refused, nothing was asked for;
\* rejected, a submission with a live status exists although only dry runs
\* were asked for; ok, the caller holds the receipt of a dry run on record.
EndingsMatchEffects ==
  \A c \in Calls : Submitted(c) =>
    /\ Served(c) => pc[c] # "refused" /\ ask[c].mode = "BLOCKED_DRY_RUN"
    /\ pc[c] = "ok" => Recorded(c) = reply[c] /\ reply[c].status \in Blocked
    /\ pc[c] = "rejected" => Recorded(c) = reply[c] /\ reply[c].status \in Live

\* Attempts under one key are one submission, however many of them raised and
\* arrive late: they get the same receipt, and it is for a plan that one of
\* them named, the plan itself if they all name the same.
RetriesAreOneSubmission ==
  \A c, d \in Calls :
    /\ Submitted(c) /\ Served(c) /\ Submitted(d) /\ Served(d)
    /\ Identity(ask[c]) = Identity(ask[d])
    => /\ reply[c] = reply[d]
       /\ \E e \in Calls : /\ Submitted(e) /\ Identity(ask[e]) = Identity(ask[c])
                           /\ ask[e].plan = reply[c].plan

\* A caller told "not found" may submit anew: no submission that had ended by
\* then, other than by raising, was recorded or ever will be.
MissingIsFinal ==
  \A r \in Calls : reply[r] = Missing =>
    \A d \in over[r] :
      Submitted(d) /\ ask[d].execution = ask[r].execution => ~Served(d)

\* The strengthening: how a call, its request and the records agree.
CallFlow(c) ==
  /\ ask[c] = None <=> pc[c] = "idle"
  /\ pc[c] = "waiting" => link[c] # "quiet"
  /\ pc[c] # "waiting" /\ link[c] # "quiet" => pc[c] = "raised" /\ link[c] = "request"
  /\ link[c] = "request" \/ pc[c] \in {"idle", "refused"} => ~Served(c)
  /\ link[c] \in {"done", "garbled"} \/ pc[c] \in {"ok", "rejected"} => Served(c)
  /\ link[c] = "done" \/ pc[c] \in {"ok", "rejected"} => reply[c] # Missing
  /\ pc[c] \notin {"idle", "refused"} => Permitted(ask[c])
  /\ Submitted(c) /\ Served(c) => reply[c] = Recorded(c)
  /\ pc[c] = "ok" => Acceptable(c)
  /\ pc[c] = "rejected" => ~Acceptable(c)
  /\ \A d \in over[c] : pc[d] \in Ended

RecordFlow ==
  \A i \in Executions \X Keys : records[i] # None =>
    \E c \in Calls : /\ Submitted(c) /\ Identity(ask[c]) = i
                     /\ ask[c].plan = records[i].plan

FlowInv == (\A c \in Calls : CallFlow(c)) /\ RecordFlow
===============================================================================
