------------------------------ MODULE EventPages ------------------------------
(***************************************************************************)
(* Reading a history page by page through the list methods of              *)
(* ExecutorClient: execution lifecycle, admin audit and live-read events.  *)
(*                                                                         *)
(* Each call passes limit and before_event_id on as they are and returns   *)
(* the page whole or fails: one event its model refuses fails the page.    *)
(* The history grows at the other end meanwhile.  The reader and the       *)
(* executor are not in this repository: the reader asks for what is before *)
(* the oldest event it has and asks again when a call fails.               *)
(***************************************************************************)
EXTENDS Naturals, Sequences

CONSTANTS Kind,           \* which history: lifecycle, audit or live_read
          Limits,         \* the limits the reader uses; 0 stands for none
          DefaultLimit,   \* the executor's when none is given
          MaxLog          \* bound on the length of the history

ASSUME PagesAssumption ==
  /\ Kind \in {"lifecycle", "audit", "live_read"}
  /\ Limits \subseteq Nat /\ DefaultLimit \in Nat \ {0} /\ MaxLog \in Nat

VARIABLES log,       \* the executor's events, oldest first: what is wrong with each
          request,   \* the reader's request under way, 0 or 1 of them
          page,      \* the executor's answer to it, 0 or 1 of them
          seen,      \* the events read
          top,       \* the newest of them, 0 before the first page
          cursor,    \* the oldest of them, 0 before the first page
          start,     \* how many events there were when the first page was asked for
          finished   \* the reader met an empty page

pageVars == <<log, request, page, seen, top, cursor, start, finished>>

Flaws == {"none", "old_schema", "secret_key", "secret_value", "side_effect", "unredacted"}

\* What RedactedPayloadEnvelope and LiveReadEventRecord refuse; an audit event
\* has no rules beyond its types.
Refused ==
  CASE Kind = "lifecycle" -> {"old_schema", "secret_key", "secret_value"}
    [] Kind = "live_read" -> {"side_effect", "unredacted", "secret_value"}
    [] Kind = "audit" -> {}

PagesInit ==
  /\ log = <<>> /\ request = <<>> /\ page = <<>>
  /\ seen = {} /\ top = 0 /\ cursor = 0 /\ start = 0 /\ finished = FALSE

\* _query_params drops what is None.
QueryParams(limit, before) == [limit |-> limit, before |-> before]

AskPage ==
  /\ ~finished /\ request = <<>>
  /\ \E l \in Limits : request' = <<QueryParams(l, cursor)>>
  /\ start' = IF cursor = 0 THEN Len(log) ELSE start
  /\ UNCHANGED <<log, page, seen, top, cursor, finished>>

Readable(lo, hi) == \A i \in lo..hi : log[i] \notin Refused

\* Mutant of Receive: an event that does not validate is left out.
ReceiveSkipping ==
  /\ page # <<>>
  /\ LET lo == page[1].lo  hi == page[1].hi IN
     IF lo > hi THEN finished' = TRUE /\ UNCHANGED <<seen, top, cursor>>
     ELSE /\ seen' = seen \cup {i \in lo..hi : log[i] \notin Refused}
          /\ top' = IF cursor = 0 THEN hi ELSE top
          /\ cursor' = lo
          /\ UNCHANGED finished
  /\ request' = <<>> /\ page' = <<>>
  /\ UNCHANGED <<log, start>>

\* Every item of the page validates and the reader has the page.
Receive ==
  /\ page # <<>>
  /\ LET lo == page[1].lo  hi == page[1].hi IN
     /\ Readable(lo, hi)
     /\ IF lo > hi THEN finished' = TRUE /\ UNCHANGED <<seen, top, cursor>>
        ELSE /\ seen' = seen \cup lo..hi
             /\ top' = IF cursor = 0 THEN hi ELSE top
             /\ cursor' = lo
             /\ UNCHANGED finished
  /\ request' = <<>> /\ page' = <<>>
  /\ UNCHANGED <<log, start>>

\* Mutant of Fail: what cannot be read is an empty list.
FailEmpty ==
  /\ request # <<>>
  /\ request' = <<>> /\ page' = <<>>
  /\ finished' = TRUE
  /\ UNCHANGED <<log, seen, top, cursor, start>>

\* The call fails or raises: an item does not validate, the status is an error,
\* the reply is unreadable, or there is none.
Fail ==
  /\ request # <<>>
  /\ request' = <<>> /\ page' = <<>>
  /\ UNCHANGED <<log, seen, top, cursor, start, finished>>

\* The executor: the newest events before the cursor, no more than the limit.
Serve ==
  /\ request # <<>> /\ page = <<>>
  /\ LET q == request[1]
         size == IF q.limit = 0 THEN DefaultLimit ELSE q.limit
         hi == IF q.before = 0 THEN Len(log) ELSE q.before - 1
         lo == IF hi < size THEN 1 ELSE hi - size + 1 IN
     page' = <<[lo |-> lo, hi |-> hi]>>
  /\ UNCHANGED <<log, request, seen, top, cursor, start, finished>>

Happen ==
  /\ Len(log) < MaxLog
  /\ \E f \in Flaws : log' = Append(log, f)
  /\ UNCHANGED <<request, page, seen, top, cursor, start, finished>>

PagesNext == AskPage \/ Receive \/ Fail \/ Serve \/ Happen

PagesSpec == PagesInit /\ [][PagesNext]_pageVars

-------------------------------------------------------------------------------
(* Properties.                                                              *)

\* What has been read is the history between its oldest and its newest event,
\* with no gap, whatever happened or failed meanwhile.
PagesHaveNoGaps == cursor # 0 => seen = cursor..top

\* A reader that met an empty page has all there was when it began.
FinishedIsComplete == finished => 1..start \subseteq seen

\* The strengthening: types, and how request and page continue what was read.
PageFlow ==
  /\ log \in Seq(Flaws) /\ finished \in BOOLEAN
  /\ top \in Nat /\ cursor \in Nat /\ start \in Nat
  /\ start <= Len(log) /\ top <= Len(log) /\ cursor <= top
  /\ cursor = 0 => seen = {} /\ top = 0
  /\ cursor # 0 => start <= top
  /\ finished => cursor <= 1 /\ (cursor = 0 => start = 0)
  /\ finished => request = <<>>
  /\ request = <<>> => page = <<>>
  /\ request # <<>> =>
       /\ request = <<request[1]>> /\ request[1].limit \in Nat /\ request[1].before = cursor
  /\ page # <<>> =>
       LET lo == page[1].lo  hi == page[1].hi IN
       /\ page = <<page[1]>> /\ lo \in Nat /\ hi \in Nat
       /\ 1 <= lo /\ lo <= hi + 1 /\ hi <= Len(log)
       /\ lo > hi => hi = 0
       /\ IF cursor = 0 THEN start <= hi ELSE hi = cursor - 1
===============================================================================
