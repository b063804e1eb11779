--------------------------- MODULE MCAdminOperations ---------------------------
(***************************************************************************)
(* TLC instances of AdminOperations: two admin tokens of two principals,   *)
(* and the service token, which the operator may set as admin token too.   *)
(***************************************************************************)
EXTENDS AdminOperations, TLC

CONSTANTS t1, t2, svc, alice, bob

\* The service token authenticates the same principal as an admin token, so
\* that only the configuration check keeps it off the admin endpoints.
MCOwnerOf == (t1 :> alice) @@ (t2 :> bob) @@ (svc :> alice)
MCOneOwner == (t1 :> alice) @@ (svc :> alice)

MCSwitch == {"kill_switch"}
MCThreeTools == {"kill_switch", "cancel_order", "list_audit"}
===============================================================================
