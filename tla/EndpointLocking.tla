--------------------------- MODULE EndpointLocking ---------------------------
(***************************************************************************)
(* The locks around the readers of a connection's names_list and of the   *)
(* custom endpoint's policy database.                                     *)
(*                                                                         *)
(* Thread L runs kdbus_ep_policy_check_src_names(ep, Src, Dst) or         *)
(* kdbus_ep_policy_check_see_access(ep, Dst, name) (endpoint.c 289-406):  *)
(* down_read of the database's entries_rwlock, mutex_lock of a            *)
(* connection's lock, the decision (for src_names one step per entry of   *)
(* Src's names_list), unlock.  Thread M runs kdbus_meta_append_src_names  *)
(* for Src (metadata.c 130-170), which walks the same list twice under    *)
(* conn->names_lock: once to size the item, once to copy the names.       *)
(*                                                                         *)
(* Concurrently, kdbus_ep_policy_set appends to the database under the    *)
(* write side of the rwlock, and the name registry adds and removes Src's *)
(* names holding the locks WriterLocks (names.c is not under src/: which  *)
(* of conn->lock and conn->names_lock it takes is a parameter).           *)
(*                                                                         *)
(* The decisions themselves are those of EndpointPolicy, instantiated on  *)
(* this module's database and on the owners that names_list gives.       *)
(***************************************************************************)
EXTENDS Naturals, FiniteSets, Sequences, SequencesExt

CONSTANTS
  Conns, Names, Uid, Gid, FsUid, Privileged, EpOf, Rules, MaxBatch, NoConn,
  Src,          (* the connection whose names are read                      *)
  Dst,          (* the connection the decisions are taken for               *)
  NameLen,      (* [Names -> Nat]: strlen of each name                      *)
  WriterLocks   (* the locks of Src the registry holds while it edits the   *)
                (* list: a subset of {"conn_lock", "names_lock"}            *)

ASSUME Src \in Conns /\ Dst \in Conns
ASSUME WriterLocks \subseteq {"conn_lock", "names_lock"}

VARIABLES
  epDb,        (* the custom endpoint's policy_db entries                    *)
  namesList,   (* Src's conn->names_list, in list order                      *)
  held,        (* locks held by L and M: <<kind, conn>> pairs               *)
  lpc, lop, lep, lname, li, lret,   (* thread L: pc, which check, its       *)
                                    (* endpoint and name, cursor, ret       *)
  mpc, strsize, pos                 (* thread M: pc, the sized and the      *)
                                    (* copied byte counts                   *)

vars == <<epDb, namesList, held, lpc, lop, lep, lname, li, lret,
          mpc, strsize, pos>>

Pol == INSTANCE EndpointPolicy
         WITH busDb <- {},
              owner <- [n \in Names |-> IF n \in ToSet(namesList)
                                          THEN Src ELSE NoConn]

RwSem == <<"rwsem", NoConn>>
ConnLock(c) == <<"conn_lock", c>>
NamesLock(c) == <<"names_lock", c>>

(* Bytes the names of a list take as NUL-terminated strings.               *)
StrSize(s) == FoldLeft(LAMBDA acc, n : acc + NameLen[n] + 1, 0, s)

TypeOK ==
  /\ epDb \subseteq Rules
  /\ namesList \in Seq(Names) /\ IsInjective(namesList)
  /\ held \subseteq {RwSem} \cup {ConnLock(c) : c \in Conns}
                            \cup {NamesLock(c) : c \in Conns}
  /\ lpc \in {"idle", "rlock", "clock", "loop", "see", "unlock", "ret"}
  /\ lop \in {"src_names", "see"} /\ lep \in Pol!Endpoints /\ lname \in Names
  /\ li \in 1..Cardinality(Names) + 1
  /\ lret \in {Pol!OK, Pol!ENOENT}
  /\ mpc \in {"idle", "size", "copy", "unlock"}
  /\ strsize \in Nat /\ pos \in Nat

-----------------------------------------------------------------------------
(* Thread L: endpoint.c.                                                   *)

(* kdbus_ep_policy_check_src_names returns 0 on a default endpoint before *)
(* taking any lock, and starts with ret = -ENOENT; check_see_access locks *)
(* in every case and decides under the locks.                             *)
LCall ==
  /\ lpc = "idle"
  /\ \E op \in {"src_names", "see"}, ep \in Pol!Endpoints, n \in Names :
       /\ lop' = op /\ lep' = ep /\ lname' = n
       /\ IF op = "src_names" /\ ~Pol!HasPolicy(ep)
            THEN lpc' = "ret" /\ lret' = Pol!OK
            ELSE lpc' = "rlock" /\ lret' = Pol!ENOENT
  /\ li' = 1
  /\ UNCHANGED <<epDb, namesList, held, mpc, strsize, pos>>

LReadLockSkip ==
  /\ lpc = "rlock"
  /\ lpc' = "clock"
  /\ UNCHANGED <<epDb, namesList, held, lop, lep, lname, li, lret,
                 mpc, strsize, pos>>

(* down_read(&ep->policy_db.entries_rwlock): no writer holds it here, as  *)
(* uploads are single steps.                                              *)
LReadLock ==
  /\ lpc = "rlock"
  /\ held' = held \cup {RwSem}
  /\ lpc' = "clock"
  /\ UNCHANGED <<epDb, namesList, lop, lep, lname, li, lret,
                 mpc, strsize, pos>>

(* mutex_lock(&conn_src->lock) for src_names, mutex_lock(&conn->lock) of  *)
(* the asking connection for see_access.                                   *)
LConnLock ==
  /\ lpc = "clock"
  /\ LET c == IF lop = "src_names" THEN Src ELSE Dst
     IN  /\ ConnLock(c) \notin held
         /\ held' = held \cup {ConnLock(c)}
  /\ lpc' = IF lop = "src_names" THEN "loop" ELSE "see"
  /\ UNCHANGED <<epDb, namesList, lop, lep, lname, li, lret,
                 mpc, strsize, pos>>

LLoopNoRemap ==
  /\ lpc = "loop"
  /\ IF li > Len(namesList)
       THEN lpc' = "unlock" /\ UNCHANGED <<li, lret>>
       ELSE LET r == Pol!EpCheckSeeUnlockedNoRemap(lep, Dst, namesList[li])
            IN  /\ lret' = r
                /\ IF r = Pol!OK THEN lpc' = "unlock" /\ UNCHANGED li
                                 ELSE lpc' = "loop" /\ li' = li + 1
  /\ UNCHANGED <<epDb, namesList, held, lop, lep, lname, mpc, strsize, pos>>

(* One iteration of list_for_each_entry over conn_src->names_list: the    *)
(* first entry Dst may see ends the loop with 0; past the last entry the  *)
(* loop ends with the last ret.                                           *)
LLoop ==
  /\ lpc = "loop"
  /\ IF li > Len(namesList)
       THEN lpc' = "unlock" /\ UNCHANGED <<li, lret>>
       ELSE LET r == Pol!EpCheckSeeUnlocked(lep, Dst, namesList[li])
            IN  /\ lret' = r
                /\ IF r = Pol!OK THEN lpc' = "unlock" /\ UNCHANGED li
                                 ELSE lpc' = "loop" /\ li' = li + 1
  /\ UNCHANGED <<epDb, namesList, held, lop, lep, lname, mpc, strsize, pos>>

(* The decision of check_see_access under its locks.                       *)
LSee ==
  /\ lpc = "see"
  /\ lret' = Pol!EpCheckSeeUnlocked(lep, Dst, lname)
  /\ lpc' = "unlock"
  /\ UNCHANGED <<epDb, namesList, held, lop, lep, lname, li,
                 mpc, strsize, pos>>

(* mutex_unlock; up_read.                                                  *)
LUnlock ==
  /\ lpc = "unlock"
  /\ held' = held \ ({RwSem} \cup {ConnLock(c) : c \in Conns})
  /\ lpc' = "ret"
  /\ UNCHANGED <<epDb, namesList, lop, lep, lname, li, lret,
                 mpc, strsize, pos>>

LReturn ==
  /\ lpc = "ret"
  /\ lpc' = "idle"
  /\ UNCHANGED <<epDb, namesList, held, lop, lep, lname, li, lret,
                 mpc, strsize, pos>>

-----------------------------------------------------------------------------
(* Thread M: kdbus_meta_append_src_names (metadata.c).                     *)

MLockNone ==
  /\ mpc = "idle"
  /\ mpc' = "size"
  /\ UNCHANGED <<epDb, namesList, held, lpc, lop, lep, lname, li, lret,
                 strsize, pos>>

(* mutex_lock(&conn->names_lock).                                          *)
MLock ==
  /\ mpc = "idle"
  /\ NamesLock(Src) \notin held
  /\ held' = held \cup {NamesLock(Src)}
  /\ mpc' = "size"
  /\ UNCHANGED <<epDb, namesList, lpc, lop, lep, lname, li, lret,
                 strsize, pos>>

(* The sizing loop; no names, or a failed kdbus_meta_append_item, goes to *)
(* exit_unlock.                                                            *)
MSize ==
  /\ mpc = "size"
  /\ strsize' = StrSize(namesList)
  /\ pos' = 0
  /\ \E allocOk \in BOOLEAN :
       mpc' = IF StrSize(namesList) = 0 \/ ~allocOk THEN "unlock" ELSE "copy"
  /\ UNCHANGED <<epDb, namesList, held, lpc, lop, lep, lname, li, lret>>

(* The copy loop: strcpy of every entry into the item sized above.        *)
MCopy ==
  /\ mpc = "copy"
  /\ pos' = StrSize(namesList)
  /\ mpc' = "unlock"
  /\ UNCHANGED <<epDb, namesList, held, lpc, lop, lep, lname, li, lret,
                 strsize>>

(* exit_unlock: mutex_unlock(&conn->names_lock).                           *)
MUnlock ==
  /\ mpc = "unlock"
  /\ held' = held \ {NamesLock(Src)}
  /\ mpc' = "idle"
  /\ UNCHANGED <<epDb, namesList, lpc, lop, lep, lname, li, lret,
                 strsize, pos>>

-----------------------------------------------------------------------------
(* Writers.                                                                *)

(* kdbus_ep_policy_set: kdbus_policy_set under down_write, excluded by    *)
(* every reader of the rwlock.                                             *)
PolicyUpload(batch) ==
  /\ RwSem \notin held
  /\ epDb' = Pol!PolicySet(epDb, batch)
  /\ UNCHANGED <<namesList, held, lpc, lop, lep, lname, li, lret,
                 mpc, strsize, pos>>

WriterFree ==
  /\ "conn_lock" \in WriterLocks => ConnLock(Src) \notin held
  /\ "names_lock" \in WriterLocks => NamesLock(Src) \notin held

(* The registry adds a name to Src's list, or removes one, under its locks.*)
NameAdd(n) ==
  /\ WriterFree
  /\ n \notin ToSet(namesList)
  /\ namesList' = Append(namesList, n)
  /\ UNCHANGED <<epDb, held, lpc, lop, lep, lname, li, lret, mpc, strsize, pos>>

NameRemove(n) ==
  /\ WriterFree
  /\ n \in ToSet(namesList)
  /\ namesList' = Remove(namesList, n)
  /\ UNCHANGED <<epDb, held, lpc, lop, lep, lname, li, lret, mpc, strsize, pos>>

-----------------------------------------------------------------------------
Init ==
  /\ epDb = {}
  /\ namesList = <<>>
  /\ held = {}
  /\ lpc = "idle" /\ lop = "src_names" /\ lep = "custom"
  /\ lname \in Names /\ li = 1 /\ lret = Pol!ENOENT
  /\ mpc = "idle" /\ strsize = 0 /\ pos = 0

Next ==
  \/ LCall \/ LReadLock \/ LConnLock \/ LLoop \/ LSee \/ LUnlock \/ LReturn
  \/ MLock \/ MSize \/ MCopy \/ MUnlock
  \/ \E b \in Pol!Batches : PolicyUpload(b)
  \/ \E n \in Names : NameAdd(n) \/ NameRemove(n)

Spec == Init /\ [][Next]_vars

-----------------------------------------------------------------------------
(* Properties.                                                             *)

(* The locked checks are atomic: when L is about to unlock, its result is *)
(* the decision EndpointPolicy takes on the database and names_list as    *)
(* they are now, so no upload or name change slipped in while the loop    *)
(* walked the list (a source would otherwise be hidden, or shown, on a    *)
(* mix of two databases or two lists that never existed together).        *)
LockedChecksAtomic ==
  lpc = "unlock" =>
    lret = IF lop = "src_names" THEN Pol!EpCheckSrcNames(lep, Src, Dst)
                                ELSE Pol!EpCheckSee(lep, Dst, lname)

(* The names copied into the NAMES item fit the item sized for them: the  *)
(* list did not grow between the sizing and the copying loop of           *)
(* kdbus_meta_append_src_names (a longer list overflows the item).         *)
SrcNamesCopyFits == mpc = "unlock" => pos <= strsize
=============================================================================
