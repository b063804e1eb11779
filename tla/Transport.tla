------------------------------- MODULE Transport -------------------------------
(***************************************************************************)
(* One handler's connection to the executor: ExecutorClient over httpx.    *)
(*                                                                         *)
(* A handler is synchronous and makes one request at a time, so a call has *)
(* one link, on which there is nothing, a request on its way, or the       *)
(* outcome the handler is about to see: a good reply (done), a status of   *)
(* 400 or more (error), a 2xx reply that is no valid object (garbled), or  *)
(* silence (lost).                                                         *)
(***************************************************************************)
CONSTANT Calls

VARIABLES pc,       \* where each call's handler is, or how it ended
          client,   \* its ExecutorClient: none, open or closed
          link      \* what is between it and the executor

Links == {"quiet", "request", "done", "error", "garbled", "lost"}

\* The status is below 400, the body is JSON and it validates.
ReplyIsGood(c) == link[c] = "done"

\* Everything else a handler may be sent.
ReplyIsBad(c) == link[c] \in {"error", "garbled"}

\* Mutant of EndCall: no finally.
EndCallOnly(c, e) ==
  /\ pc' = [pc EXCEPT ![c] = e]
  /\ UNCHANGED client

\* The handler ends, by answering or by raising; finally closes its client.
EndCall(c, e) ==
  /\ pc' = [pc EXCEPT ![c] = e]
  /\ client' = [client EXCEPT ![c] = "closed"]

\* A request goes out.
Transmit(c) == link' = [link EXCEPT ![c] = "request"]

\* The handler has taken in what was on the link.
Consume(c) == link' = [link EXCEPT ![c] = "quiet"]

\* The handler stops waiting; a request already under way stays under way.
Abandon(c) ==
  link' = [link EXCEPT ![c] = IF @ = "request" THEN "request" ELSE "quiet"]

\* The executor has done what was asked; its reply reaches a handler that is
\* still waiting, and nobody otherwise.
Respond(c) ==
  link' = [link EXCEPT ![c] = IF pc[c] = "waiting" THEN "done" ELSE "quiet"]

\* The executor turns a request down, or the request is lost; or the work is
\* done but the reply is a 5xx, is unreadable, or is lost.
Trouble(c) ==
  \/ /\ link[c] = "request" /\ pc[c] = "waiting"
     /\ \E x \in {"error", "lost"} : link' = [link EXCEPT ![c] = x]
  \/ /\ link[c] = "request" /\ pc[c] = "raised"
     /\ link' = [link EXCEPT ![c] = "quiet"]
  \/ /\ link[c] = "done"
     /\ \E x \in {"error", "garbled", "lost"} : link' = [link EXCEPT ![c] = x]
===============================================================================
