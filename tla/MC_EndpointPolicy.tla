------------------------- MODULE MC_EndpointPolicy -------------------------
(***************************************************************************)
(* Three connections: c1 (uid 1, gid 100) and the privileged c3 (uid 0)   *)
(* on the custom endpoint, c2 (uid 2, gid 200, fsuid 1 = c1's uid) on the *)
(* default one.  Two names.  The rules cover every subject kind and every *)
(* access kind, and one malformed entry, so that uploads are rejected,    *)
(* grants come from each tier, and the fsuid shortcut is reachable.       *)
(***************************************************************************)
EXTENDS EndpointPolicy, TLC

CONSTANTS c1, c2, c3, n1, n2

MCConns == {c1, c2, c3}
MCNames == {n1, n2}
MCUid == (c1 :> 1 @@ c2 :> 2 @@ c3 :> 0)
MCGid == (c1 :> 100 @@ c2 :> 200 @@ c3 :> 0)
MCFsUid == (c1 :> 1 @@ c2 :> 1 @@ c3 :> 0)
MCPrivileged == {c3}
MCEpOf == (c1 :> "custom" @@ c2 :> "default" @@ c3 :> "custom")

MCRules ==
  { [name |-> n1, kind |-> "group", id |-> 100, access |-> "talk"],
    [name |-> n1, kind |-> "world", id |-> 0,   access |-> "see"],
    [name |-> n1, kind |-> "user",  id |-> 1,   access |-> "own"],
    [name |-> n2, kind |-> "world", id |-> 0,   access |-> "own"],
    [name |-> n2, kind |-> "user",  id |-> 2,   access |-> "talk"],
    [name |-> n2, kind |-> "bogus", id |-> 0,   access |-> "see"] }

=============================================================================
