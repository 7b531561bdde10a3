--------------------------- MODULE EndpointStates ---------------------------
(***************************************************************************)
(* What an endpoint promises its users, independent of how the node       *)
(* primitive and the release callback achieve it: it is created, becomes  *)
(* active at most once, is deactivated, and is freed.  Connections attach *)
(* only while it is active and may leave at any time; it is freed only    *)
(* once no connection is attached (the BUG_ON of kdbus_ep_free).          *)
(***************************************************************************)
CONSTANTS Conns

VARIABLES lifecycle, attached

vars == <<lifecycle, attached>>

Lifecycles == {"none", "created", "active", "deactivated", "freed"}

TypeOK ==
  /\ lifecycle \in Lifecycles
  /\ attached \subseteq Conns

Init ==
  /\ lifecycle = "none"
  /\ attached = {}

Create ==
  /\ lifecycle = "none"
  /\ lifecycle' = "created"
  /\ UNCHANGED attached

Activate ==
  /\ lifecycle = "created"
  /\ lifecycle' = "active"
  /\ UNCHANGED attached

Deactivate ==
  /\ lifecycle \in {"created", "active"}
  /\ lifecycle' = "deactivated"
  /\ UNCHANGED attached

Attach(c) ==
  /\ lifecycle = "active"
  /\ c \notin attached
  /\ attached' = attached \cup {c}
  /\ UNCHANGED lifecycle

Detach(c) ==
  /\ c \in attached
  /\ attached' = attached \ {c}
  /\ UNCHANGED lifecycle

Free ==
  /\ lifecycle = "deactivated"
  /\ attached = {}
  /\ lifecycle' = "freed"
  /\ UNCHANGED attached

Next ==
  \/ Create \/ Activate \/ Deactivate \/ Free
  \/ \E c \in Conns : Attach(c) \/ Detach(c)

Spec == Init /\ [][Next]_vars
=============================================================================
