--------------------------- MODULE EndpointPolicy ---------------------------
(***************************************************************************)
(* The access decisions a kdbus endpoint makes (src/endpoint.c,            *)
(* kdbus_ep_policy_ functions) over the databases they consult and the    *)
(* registry they read.                                                     *)
(*                                                                         *)
(* Two endpoints exist: the custom endpoint (has_policy = TRUE, its own    *)
(* policy database epDb) and the bus's default endpoint (has_policy =      *)
(* FALSE).  The bus-wide database busDb is the fallback of both.  The      *)
(* decisions are pure operators of the state; the state changes through    *)
(* policy uploads and through name acquisition and release, which the      *)
(* registry guards with the endpoint's OWN decision.                       *)
(*                                                                         *)
(* policy.c, names.c and bus.c are not under src/: the database queries,   *)
(* the upload and the registry actions are modelled from spec.md.          *)
(***************************************************************************)
EXTENDS Naturals, FiniteSets, FiniteSetsExt

CONSTANTS
  Conns,       (* connections on the bus (model values)                    *)
  Names,       (* well-known names                                         *)
  Uid,         (* [Conns -> Nat]: cred->uid                                *)
  Gid,         (* [Conns -> Nat]: cred->gid                                *)
  FsUid,       (* [Conns -> Nat]: cred->fsuid                              *)
  Privileged,  (* connections with conn->privileged set                    *)
  EpOf,        (* [Conns -> Endpoints]: the endpoint each one is bound to  *)
  Rules,       (* policy entries an upload may carry, malformed included   *)
  MaxBatch,    (* most entries in one upload                               *)
  NoConn       (* owner of a name nobody owns                              *)

Endpoints == {"custom", "default"}

ASSUME NoConn \notin Conns
ASSUME Privileged \subseteq Conns
ASSUME EpOf \in [Conns -> Endpoints]
ASSUME MaxBatch \in Nat \ {0}

VARIABLES
  epDb,   (* entries of the custom endpoint's ep->policy_db                *)
  busDb,  (* entries of the bus's bus->policy_db                           *)
  owner   (* [Names -> Conns \cup {NoConn}]: the registry's owner of a name*)

vars == <<epDb, busDb, owner>>

(* Return codes. *)
OK == "0"
EPERM == "-EPERM"
ENOENT == "-ENOENT"

AccessKinds == {"see", "talk", "own"}
SubjectKinds == {"user", "group", "world"}

(* Kernel notification types; the first three are name changes. *)
NameChangeTypes == {"name_add", "name_remove", "name_change"}
NotifyTypes == NameChangeTypes \cup {"id_add", "id_remove", "reply_dead"}
Msgs == [kernel : BOOLEAN, type : NotifyTypes, name : Names]

HasPolicy(ep) == ep = "custom"

NamesOf(c) == {n \in Names : owner[n] = c}

(***************************************************************************)
(* PolicyDatabase (policy.c, spec.md 4.1).                                 *)
(***************************************************************************)

WellFormed(e) == e.kind \in SubjectKinds /\ e.access \in AccessKinds

Matches(e, c) ==
  \/ e.kind = "user" /\ e.id = Uid[c]
  \/ e.kind = "group" /\ e.id = Gid[c]
  \/ e.kind = "world"

Grants(db, c, name, access) ==
  \E e \in db : e.name = name /\ e.access = access /\ Matches(e, c)

PolicyCheckSee(db, c, name) == IF Grants(db, c, name, "see") THEN OK ELSE EPERM

PolicyCheckOwn(db, c, name) == IF Grants(db, c, name, "own") THEN OK ELSE EPERM

(* TALK is granted through some name the destination owns. *)
PolicyCheckTalk(db, src, dst) ==
  IF \E n \in NamesOf(dst) : Grants(db, src, n, "talk") THEN OK ELSE EPERM

(* PolicySet without validating the batch.                                *)
PolicySetNoValidate(db, batch) == db \cup batch

(* kdbus_policy_set: the batch is appended, or rejected whole if any entry *)
(* is malformed.                                                           *)
PolicySet(db, batch) ==
  IF \A e \in batch : WellFormed(e) THEN db \cup batch ELSE db

(***************************************************************************)
(* Endpoint decisions (endpoint.c).                                        *)
(***************************************************************************)

(* The SEE check without the -EPERM to -ENOENT remap.                     *)
EpCheckSeeUnlockedNoRemap(ep, c, name) ==
  IF ~HasPolicy(ep) THEN OK ELSE PolicyCheckSee(epDb, c, name)

(* A custom endpoint's SEE denial reads as "no such name". *)
EpCheckSeeUnlocked(ep, c, name) ==
  IF ~HasPolicy(ep) THEN OK
  ELSE IF PolicyCheckSee(epDb, c, name) = EPERM THEN ENOENT
  ELSE PolicyCheckSee(epDb, c, name)

(* The locked wrapper: the decision is taken atomically in this module.   *)
EpCheckSee(ep, c, name) == EpCheckSeeUnlocked(ep, c, name)

EpCheckNotification(ep, c, m) ==
  CASE ~HasPolicy(ep)              -> OK
    [] ~m.kernel                   -> OK
    [] m.type \in NameChangeTypes  -> EpCheckSee(ep, c, m.name)
    [] OTHER                       -> ENOENT

(* The names_list walk stops at the first name dst may see and otherwise  *)
(* returns the result of the last entry it checked; ret starts at         *)
(* -ENOENT, so a source that owns no name is denied.  The list order is   *)
(* not part of this module's state: the last entry is any owned name.     *)
EpCheckSrcNames(ep, src, dst) ==
  LET rs == {EpCheckSeeUnlocked(ep, dst, n) : n \in NamesOf(src)}
  IN  IF ~HasPolicy(ep) THEN OK
      ELSE IF OK \in rs THEN OK
      ELSE IF rs = {} THEN ENOENT
      ELSE CHOOSE r \in rs : TRUE

(* The TALK check returning the custom policy's grant without the rest.   *)
EpCheckTalkCustomFinal(ep, src, dst) ==
  IF HasPolicy(ep)
    THEN IF PolicyCheckTalk(epDb, src, dst) = EPERM THEN ENOENT ELSE OK
    ELSE CASE src \in Privileged        -> OK
           [] FsUid[src] = Uid[dst]     -> OK
           [] OTHER                     -> PolicyCheckTalk(busDb, src, dst)

(* Custom policy first (a denial, remapped, is returned at once), then the *)
(* implicit grants, then the bus's database.                              *)
EpCheckTalk(ep, src, dst) ==
  LET custom == IF ~HasPolicy(ep) THEN OK
                ELSE IF PolicyCheckTalk(epDb, src, dst) = EPERM THEN ENOENT
                ELSE OK
  IN  CASE custom # OK               -> custom
        [] src \in Privileged        -> OK
        [] FsUid[src] = Uid[dst]     -> OK
        [] OTHER                     -> PolicyCheckTalk(busDb, src, dst)

(* The OWN check testing privilege before the custom policy.             *)
EpCheckOwnPrivilegedFirst(ep, c, name) ==
  IF c \in Privileged THEN OK
  ELSE IF HasPolicy(ep) /\ PolicyCheckOwn(epDb, c, name) # OK
    THEN PolicyCheckOwn(epDb, c, name)
  ELSE PolicyCheckOwn(busDb, c, name)

EpCheckOwn(ep, c, name) ==
  LET custom == IF HasPolicy(ep) THEN PolicyCheckOwn(epDb, c, name) ELSE OK
  IN  CASE custom # OK         -> custom
        [] c \in Privileged    -> OK
        [] OTHER               -> PolicyCheckOwn(busDb, c, name)

(***************************************************************************)
(* Actions.                                                                *)
(***************************************************************************)

Batches == UNION {kSubset(k, Rules) : k \in 1..MaxBatch}

(* kdbus_ep_policy_set: an upload to the custom endpoint's database.       *)
EpPolicySet(batch) ==
  /\ epDb' = PolicySet(epDb, batch)
  /\ UNCHANGED <<busDb, owner>>

(* An upload to the bus's database (bus creation / bus owner).            *)
BusPolicySet(batch) ==
  /\ busDb' = PolicySet(busDb, batch)
  /\ UNCHANGED <<epDb, owner>>

(* The registry grants a free name after the endpoint's OWN decision.     *)
NameAcquire(c, n) ==
  /\ owner[n] = NoConn
  /\ EpCheckOwn(EpOf[c], c, n) = OK
  /\ owner' = [owner EXCEPT ![n] = c]
  /\ UNCHANGED <<epDb, busDb>>

NameRelease(c, n) ==
  /\ owner[n] = c
  /\ owner' = [owner EXCEPT ![n] = NoConn]
  /\ UNCHANGED <<epDb, busDb>>

Init ==
  /\ epDb = {}
  /\ busDb = {}
  /\ owner = [n \in Names |-> NoConn]

Next ==
  \/ \E b \in Batches : EpPolicySet(b)
  \/ \E b \in Batches : BusPolicySet(b)
  \/ \E c \in Conns, n \in Names : NameAcquire(c, n)
  \/ \E c \in Conns, n \in Names : NameRelease(c, n)

Spec == Init /\ [][Next]_vars

(***************************************************************************)
(* Properties.                                                             *)
(***************************************************************************)

(* Types; both databases hold only well-formed entries: an upload with a  *)
(* malformed entry is rejected whole, never applied in part.              *)
TypeOK ==
  /\ epDb \subseteq Rules /\ \A e \in epDb : WellFormed(e)
  /\ busDb \subseteq Rules /\ \A e \in busDb : WellFormed(e)
  /\ owner \in [Names -> Conns \cup {NoConn}]

(* A custom endpoint only restricts: whatever kdbus_ep_policy_check_talk_ *)
(* access and _own_access allow through the custom endpoint they also     *)
(* allow through the bus's default endpoint, so a custom policy can never *)
(* open a path the bus policy and the implicit grants keep closed.        *)
CustomOnlyRestricts ==
  /\ \A s, d \in Conns :
       EpCheckTalk("custom", s, d) = OK => EpCheckTalk("default", s, d) = OK
  /\ \A c \in Conns, n \in Names :
       EpCheckOwn("custom", c, n) = OK => EpCheckOwn("default", c, n) = OK

(* A custom endpoint never tells a connection "it exists but you may not": *)
(* SEE, source-name and notification checks deny only with -ENOENT, and   *)
(* a TALK check answers -EPERM only when the custom policy itself let the *)
(* source talk and the bus's database refused.                            *)
CustomDenialsHideExistence ==
  /\ \A c \in Conns, n \in Names : EpCheckSee("custom", c, n) \in {OK, ENOENT}
  /\ \A s, d \in Conns : EpCheckSrcNames("custom", s, d) \in {OK, ENOENT}
  /\ \A c \in Conns, m \in Msgs :
       EpCheckNotification("custom", c, m) \in {OK, ENOENT}
  /\ \A s, d \in Conns :
       EpCheckTalk("custom", s, d) = EPERM => PolicyCheckTalk(epDb, s, d) = OK

(* Every name held by a connection was granted along the full OWN layering*)
(* of its endpoint: by the custom database if it is bound to the custom   *)
(* endpoint, and by privilege or the bus's database in any case.  Uploads *)
(* append, so a grant used at acquisition is never withdrawn.             *)
OwnedNamesPermitted ==
  \A n \in Names : owner[n] # NoConn =>
    LET c == owner[n] IN
      /\ HasPolicy(EpOf[c]) => Grants(epDb, c, n, "own")
      /\ c \in Privileged \/ Grants(busDb, c, n, "own")

(* spec.md 4.3 and 8: a privileged source passes check_talk_access even   *)
(* where the custom policy denies it ("the implicit shortcuts are never   *)
(* revocable by custom policy").                                          *)
PrivilegedAlwaysTalks ==
  \A ep \in Endpoints, s \in Privileged, d \in Conns : EpCheckTalk(ep, s, d) = OK

=============================================================================
