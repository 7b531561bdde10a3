------------------------- MODULE MC_EndpointLocking -------------------------
(***************************************************************************)
(* Src (c1) owns up to two names, so the src_names loop can be between    *)
(* them and the metadata copy can see a list longer than it sized; Dst    *)
(* (c2) sees n1 only through a world rule and n2 only through a user      *)
(* rule, so a single upload flips each decision.  Uploads carry one rule. *)
(***************************************************************************)
EXTENDS EndpointLocking, TLC

CONSTANTS c1, c2, n1, n2

MCConns == {c1, c2}
MCNames == {n1, n2}
MCUid == (c1 :> 1 @@ c2 :> 2)
MCGid == (c1 :> 100 @@ c2 :> 200)
MCEpOf == (c1 :> "default" @@ c2 :> "custom")
MCNameLen == (n1 :> 3 @@ n2 :> 5)

MCRules ==
  { [name |-> n1, kind |-> "world", id |-> 0, access |-> "see"],
    [name |-> n2, kind |-> "user",  id |-> 2, access |-> "see"] }
=============================================================================
