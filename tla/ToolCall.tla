------------------------------- MODULE ToolCall -------------------------------
(***************************************************************************)
(* What one call of a Hermes tool promises, whatever the tool.             *)
(*                                                                         *)
(* A call asks the executor for a fixed number of steps (its goal). It is  *)
(* refused without a trace, or it opens one HTTP client, has the executor  *)
(* carry out steps one at a time, and closes the client when it ends.  It  *)
(* answers "ok" only when every step was carried out.  A call that answers *)
(* (ok, refused or failed) is settled: nothing more happens for it.  Only  *)
(* a call that ends by raising may still owe one step, the one whose       *)
(* request was in flight when the transport failed.                        *)
(***************************************************************************)
EXTENDS Naturals

CONSTANTS Calls,      \* the invocations of tools
          MaxGoal     \* the largest number of steps a tool asks for, in Nat

VARIABLES phase,      \* where each call is, or how it ended
          client,     \* its HTTP client
          goal,       \* how many steps it asks the executor for
          done,       \* how many of them the executor has carried out
          owed        \* a request may still arrive after the call raised

vars == <<phase, client, goal, done, owed>>

Endings == {"ok", "refused", "failed", "raised"}

TypeOK ==
  /\ phase  \in [Calls -> {"idle", "running"} \cup Endings]
  /\ client \in [Calls -> {"none", "open", "closed"}]
  /\ goal   \in [Calls -> 0..MaxGoal]
  /\ done   \in [Calls -> 0..MaxGoal]
  /\ owed   \in [Calls -> BOOLEAN]

Init ==
  /\ phase  = [c \in Calls |-> "idle"]
  /\ client = [c \in Calls |-> "none"]
  /\ goal   = [c \in Calls |-> 0]
  /\ done   = [c \in Calls |-> 0]
  /\ owed   = [c \in Calls |-> FALSE]

Begin(c) ==
  /\ phase[c] = "idle"
  /\ phase' = [phase EXCEPT ![c] = "running"]
  /\ UNCHANGED <<client, goal, done, owed>>

\* An argument or the configuration is no good: no client was ever opened.
Refuse(c) ==
  /\ phase[c] \in {"idle", "running"}
  /\ client[c] = "none"
  /\ phase' = [phase EXCEPT ![c] = "refused"]
  /\ UNCHANGED <<client, goal, done, owed>>

Open(c) ==
  /\ phase[c] = "running"
  /\ client[c] = "none"
  /\ client' = [client EXCEPT ![c] = "open"]
  /\ \E g \in 0..MaxGoal : goal' = [goal EXCEPT ![c] = g]
  /\ UNCHANGED <<phase, done, owed>>

\* The executor carries out the next step of a call that is under way.
CarryOut(c) ==
  /\ client[c] = "open"
  /\ done[c] < goal[c]
  /\ done' = [done EXCEPT ![c] = @ + 1]
  /\ UNCHANGED <<phase, client, goal, owed>>

\* The request that was in flight when the call raised arrives after all,
\* or is lost for good.
Settle(c) ==
  /\ owed[c]
  /\ owed' = [owed EXCEPT ![c] = FALSE]
  /\ \/ UNCHANGED done
     \/ done[c] < goal[c] /\ done' = [done EXCEPT ![c] = @ + 1]
  /\ UNCHANGED <<phase, client, goal>>

\* Every way a call with a client ends closes that client.
End(c, e) ==
  /\ phase[c] = "running"
  /\ client[c] = "open"
  /\ e = "ok" => done[c] = goal[c]
  /\ phase' = [phase EXCEPT ![c] = e]
  /\ client' = [client EXCEPT ![c] = "closed"]
  /\ \E o \in BOOLEAN : /\ o => e = "raised"
                      /\ owed' = [owed EXCEPT ![c] = o]
  /\ UNCHANGED <<goal, done>>

Next ==
  \E c \in Calls :
    \/ Begin(c) \/ Refuse(c) \/ Open(c) \/ CarryOut(c) \/ Settle(c)
    \/ \E e \in {"ok", "failed", "raised"} : End(c, e)

Spec == Init /\ [][Next]_vars
===============================================================================
