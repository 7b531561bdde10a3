------------------------ MODULE MC_EndpointLifecycle ------------------------
(***************************************************************************)
(* Three connection threads against one endpoint: one can link while      *)
(* another is being drained, the release loop can race a connection's     *)
(* own disconnect on the conn at the head of conn_list while a third      *)
(* stays behind it, and three entries can be on conn_list when the loop   *)
(* starts.  Liveness and the refinement are checked on the same instance, *)
(* so no symmetry reduction is used.                                      *)
(***************************************************************************)
EXTENDS EndpointLifecycle

CONSTANTS c1, c2, c3

MCConns == {c1, c2, c3}
=============================================================================
