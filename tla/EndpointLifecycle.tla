-------------------------- MODULE EndpointLifecycle --------------------------
(***************************************************************************)
(* The life of one kdbus endpoint (src/endpoint.c lines 33-215): creation  *)
(* with its error path, activation, deactivation with the release drain,  *)
(* reference counting and free, against connection threads that attach    *)
(* to the endpoint and disconnect themselves concurrently.                *)
(*                                                                         *)
(* The endpoint's thread EP runs kdbus_ep_new, then kdbus_ep_activate and *)
(* kdbus_ep_deactivate, and finally drops its reference.  Each connection *)
(* thread attaches (inside an active reference on the node, as the        *)
(* handle ioctl path does), later closes its handle, and drops its        *)
(* reference.  Every thread runs the lock/peek/unlock steps of the code   *)
(* as separate steps; ep->lock is the variable epLock.                    *)
(*                                                                         *)
(* The node primitive (node.c) and kdbus_conn_disconnect (connection.c)   *)
(* are not under src/: they are modelled from spec.md.                    *)
(***************************************************************************)
EXTENDS Naturals, Sequences, SequencesExt

CONSTANTS
  Conns,        (* connection threads and their kdbus_conn objects          *)
  EP,           (* the thread that creates, activates and tears down        *)
  NoThread,     (* holder of an unlocked mutex; drain target when idle      *)
  MaxActivate   (* most kdbus_ep_activate calls the owner makes             *)

ASSUME EP \notin Conns /\ NoThread \notin Conns \cup {EP}
ASSUME MaxActivate \in Nat

Threads == Conns \cup {EP}

VARIABLES
  state,       (* node state: none, new, active, deactivated, drained, freed *)
  wasActive,   (* the node was activated: release_cb's was_active          *)
  refs,        (* node reference count (kdbus_ep_ref / kdbus_ep_unref)     *)
  activeRefs,  (* active references taken by kdbus_node_acquire            *)
  custom,      (* the is_custom argument of kdbus_ep_new                    *)
  res,         (* what the endpoint holds: e->bus reference, e->user      *)
  epLock,      (* holder of ep->lock                                       *)
  conn_list,   (* ep->conn_list, in list order                             *)
  pc,          (* program counter of each thread                           *)
  drainConn,   (* the conn the release loop is disconnecting               *)
  cobj,        (* kdbus_conn object: none, live or freed                   *)
  cref,        (* kdbus_conn reference count                               *)
  disc,        (* the conn has been disconnected                           *)
  actCalls     (* kdbus_ep_activate calls made                             *)

vars == <<state, wasActive, refs, activeRefs, custom, res, epLock, conn_list, pc,
          drainConn, cobj, cref, disc, actCalls>>

EpPcs == {"new", "link", "user", "exit_unref", "ready", "wait_active",
          "drain_lock", "drain_peek", "drain_unref", "unref", "done"}
ConnPcs == {"idle", "link_lock", "link_add", "release_active", "attached",
            "put", "done"}
DiscPcs == {"disc_begin", "disc_lock", "disc_del"}

(* The conn a thread's kdbus_conn_disconnect works on, and where it       *)
(* returns to: the release loop disconnects drainConn, a connection's     *)
(* handle release disconnects itself.                                     *)
Target(t) == IF t = EP THEN drainConn ELSE t
After(t) == IF t = EP THEN "drain_unref" ELSE "put"

TypeOK ==
  /\ state \in {"none", "new", "active", "deactivated", "drained", "freed"}
  /\ wasActive \in BOOLEAN /\ custom \in BOOLEAN
  /\ res \in [bus : BOOLEAN, user : {"null", "ref", "err"}]
  /\ refs \in Nat /\ activeRefs \in Nat
  /\ epLock \in Threads \cup {NoThread}
  /\ conn_list \in Seq(Conns) /\ IsInjective(conn_list)
  /\ pc[EP] \in EpPcs \cup DiscPcs
  /\ \A c \in Conns : pc[c] \in ConnPcs \cup DiscPcs
  /\ drainConn \in Conns \cup {NoThread}
  /\ cobj \in [Conns -> {"none", "live", "freed"}]
  /\ cref \in [Conns -> Nat] /\ disc \in [Conns -> BOOLEAN]
  /\ actCalls \in 0..MaxActivate

-----------------------------------------------------------------------------
(* The node primitive (node.c, from spec.md).                              *)

(* kdbus_node_activate: only a new node becomes active.                    *)
NodeActivate == state = "new"

(* kdbus_node_acquire: an active reference is granted only while active.   *)
NodeAcquire == state = "active"

(* kdbus_node_deactivate waits until no active reference is held before   *)
(* it calls release_cb.                                                    *)
ReleaseReady == activeRefs = 0

(* kdbus_node_deactivate: mark the node and wait for its active users.     *)
NodeDeactivate ==
  /\ state' = "deactivated"
  /\ pc' = [pc EXCEPT ![EP] = "wait_active"]

-----------------------------------------------------------------------------
(* Reference counting (endpoint.c).                                        *)

(* kdbus_ep_unref: dropping the last reference frees the endpoint          *)
(* (kdbus_ep_free, where BUG_ON(!list_empty(&ep->conn_list)) fires), which *)
(* unrefs e->bus and e->user.                                             *)
EpUnref ==
  /\ refs' = refs - 1
  /\ IF refs = 1
       THEN state' = "freed" /\ res' = [bus |-> FALSE, user |-> "null"]
       ELSE UNCHANGED <<state, res>>

EpRefNoop == refs' = refs

(* kdbus_ep_ref, taken by a connection for conn->ep.                       *)
EpRef == refs' = refs + 1

(* kdbus_conn_unref: the last reference frees the conn, which drops its   *)
(* reference on the endpoint.                                             *)
ConnPut(x) ==
  /\ cref' = [cref EXCEPT ![x] = @ - 1]
  /\ IF cref[x] = 1
       THEN cobj' = [cobj EXCEPT ![x] = "freed"] /\ EpUnref
       ELSE UNCHANGED <<cobj, refs, state, res>>

-----------------------------------------------------------------------------
(* The endpoint's thread.                                                  *)

(* kdbus_ep_new up to kdbus_node_link: a custom name with a wrong uid      *)
(* prefix or a failed kzalloc returns an error with nothing created;      *)
(* otherwise the node holds one reference.                                 *)
EpNewAlloc ==
  /\ pc[EP] = "new"
  /\ \/ /\ pc' = [pc EXCEPT ![EP] = "done"]
        /\ UNCHANGED <<state, refs, res>>
     \/ /\ state' = "new"
        /\ refs' = 1
        /\ res' = [bus |-> TRUE, user |-> "null"]
        /\ pc' = [pc EXCEPT ![EP] = "link"]
  /\ UNCHANGED <<wasActive, activeRefs, custom, epLock, conn_list, drainConn,
                 cobj, cref, disc, actCalls>>

(* kdbus_node_link: on failure goto exit_unref.                            *)
EpNewLink ==
  /\ pc[EP] = "link"
  /\ \E ok \in BOOLEAN :
       pc' = [pc EXCEPT ![EP] = IF ~ok THEN "exit_unref"
                                ELSE IF custom THEN "user" ELSE "ready"]
  /\ UNCHANGED <<state, wasActive, refs, activeRefs, custom, res, epLock, conn_list,
                 drainConn, cobj, cref, disc, actCalls>>

(* The custom endpoint's accounting user; its failure comes after the     *)
(* node was linked.                                                        *)
EpNewUserKeepErr ==
  /\ pc[EP] = "user"
  /\ \E ok \in BOOLEAN :
       /\ pc' = [pc EXCEPT ![EP] = IF ok THEN "ready" ELSE "exit_unref"]
       /\ res' = [res EXCEPT !.user = IF ok THEN "ref" ELSE "err"]
  /\ UNCHANGED <<state, wasActive, refs, activeRefs, custom, epLock, conn_list,
                 drainConn, cobj, cref, disc, actCalls>>

(* kdbus_domain_get_user; on an error pointer e->user is reset to NULL     *)
(* before goto exit_unref.                                                 *)
EpNewUser ==
  /\ pc[EP] = "user"
  /\ \E ok \in BOOLEAN :
       /\ pc' = [pc EXCEPT ![EP] = IF ok THEN "ready" ELSE "exit_unref"]
       /\ res' = [res EXCEPT !.user = IF ok THEN "ref" ELSE "null"]
  /\ UNCHANGED <<state, wasActive, refs, activeRefs, custom, epLock, conn_list,
                 drainConn, cobj, cref, disc, actCalls>>

ExitUnrefNoDeactivate ==
  /\ pc[EP] = "exit_unref"
  /\ pc' = [pc EXCEPT ![EP] = "unref"]
  /\ UNCHANGED <<state, wasActive, refs, activeRefs, custom, res, epLock,
                 conn_list, drainConn, cobj, cref, disc, actCalls>>

(* exit_unref: kdbus_node_deactivate, then kdbus_node_unref ("unref").     *)
ExitUnref ==
  /\ pc[EP] = "exit_unref"
  /\ NodeDeactivate
  /\ UNCHANGED <<wasActive, refs, activeRefs, custom, res, epLock, conn_list,
                 drainConn, cobj, cref, disc, actCalls>>

(* kdbus_ep_activate: -ESHUTDOWN unless kdbus_node_activate activated it.  *)
EpActivate ==
  /\ pc[EP] = "ready"
  /\ actCalls < MaxActivate
  /\ actCalls' = actCalls + 1
  /\ IF NodeActivate
       THEN state' = "active" /\ wasActive' = TRUE
       ELSE UNCHANGED <<state, wasActive>>
  /\ UNCHANGED <<refs, activeRefs, custom, res, epLock, conn_list, pc, drainConn,
                 cobj, cref, disc>>

(* kdbus_ep_deactivate.                                                    *)
EpDeactivate ==
  /\ pc[EP] = "ready"
  /\ NodeDeactivate
  /\ UNCHANGED <<wasActive, refs, activeRefs, custom, res, epLock, conn_list,
                 drainConn, cobj, cref, disc, actCalls>>

(* The node calls kdbus_ep_release once no active reference is left.      *)
WaitActive ==
  /\ pc[EP] = "wait_active"
  /\ ReleaseReady
  /\ pc' = [pc EXCEPT ![EP] = "drain_lock"]
  /\ UNCHANGED <<state, wasActive, refs, activeRefs, custom, res, epLock, conn_list,
                 drainConn, cobj, cref, disc, actCalls>>

(* kdbus_ep_release: mutex_lock(&ep->lock).                                *)
DrainLock ==
  /\ pc[EP] = "drain_lock"
  /\ epLock = NoThread
  /\ epLock' = EP
  /\ pc' = [pc EXCEPT ![EP] = "drain_peek"]
  /\ UNCHANGED <<state, wasActive, refs, activeRefs, custom, res, conn_list,
                 drainConn, cobj, cref, disc, actCalls>>

DrainTakeHoldLock(x) ==
  /\ drainConn' = x
  /\ cref' = [cref EXCEPT ![x] = @ + 1]
  /\ pc' = [pc EXCEPT ![EP] = "disc_begin"]
  /\ UNCHANGED epLock

DrainTakeNoRef(x) ==
  /\ drainConn' = x
  /\ epLock' = NoThread
  /\ pc' = [pc EXCEPT ![EP] = "disc_begin"]
  /\ UNCHANGED cref

(* kdbus_conn_ref(conn); mutex_unlock(&ep->lock); then disconnect it.      *)
DrainTake(x) ==
  /\ drainConn' = x
  /\ cref' = [cref EXCEPT ![x] = @ + 1]
  /\ epLock' = NoThread
  /\ pc' = [pc EXCEPT ![EP] = "disc_begin"]

(* list_first_entry_or_null: none left ends the loop (and release_cb, so  *)
(* the node is drained), otherwise the first entry is taken.              *)
DrainPeek ==
  /\ pc[EP] = "drain_peek"
  /\ IF conn_list = <<>>
       THEN /\ epLock' = NoThread
            /\ state' = "drained"
            /\ pc' = [pc EXCEPT ![EP] = "unref"]
            /\ UNCHANGED <<drainConn, cref>>
       ELSE DrainTake(Head(conn_list)) /\ UNCHANGED state
  /\ UNCHANGED <<wasActive, refs, activeRefs, custom, res, conn_list, cobj, disc,
                 actCalls>>

(* kdbus_conn_unref(conn) after the disconnect; then the next iteration.   *)
DrainUnref ==
  /\ pc[EP] = "drain_unref"
  /\ ConnPut(drainConn)
  /\ drainConn' = NoThread
  /\ pc' = [pc EXCEPT ![EP] = "drain_lock"]
  /\ UNCHANGED <<wasActive, activeRefs, custom, epLock, conn_list, disc,
                 actCalls>>

(* The owner's kdbus_node_unref / kdbus_ep_unref.                          *)
EpPut ==
  /\ pc[EP] = "unref"
  /\ EpUnref
  /\ pc' = [pc EXCEPT ![EP] = "done"]
  /\ UNCHANGED <<wasActive, activeRefs, custom, epLock, conn_list, drainConn,
                 cobj, cref, disc, actCalls>>
-----------------------------------------------------------------------------
(* Connection threads (connection.c and the handle ioctl path, from       *)
(* spec.md).  A connection is created inside an active reference on the   *)
(* endpoint node, takes conn->ep = kdbus_ep_ref(ep) and links itself      *)
(* into ep->conn_list under ep->lock.                                     *)

ConnAcquire(c) ==
  /\ pc[c] = "idle"
  /\ IF NodeAcquire
       THEN /\ activeRefs' = activeRefs + 1
            /\ EpRef
            /\ cobj' = [cobj EXCEPT ![c] = "live"]
            /\ cref' = [cref EXCEPT ![c] = 1]
            /\ pc' = [pc EXCEPT ![c] = "link_lock"]
       ELSE /\ pc' = [pc EXCEPT ![c] = "done"]
            /\ UNCHANGED <<activeRefs, refs, cobj, cref>>
  /\ UNCHANGED <<state, wasActive, custom, res, epLock, conn_list, drainConn, disc,
                 actCalls>>

ConnLinkLock(c) ==
  /\ pc[c] = "link_lock"
  /\ epLock = NoThread
  /\ epLock' = c
  /\ pc' = [pc EXCEPT ![c] = "link_add"]
  /\ UNCHANGED <<state, wasActive, refs, activeRefs, custom, res, conn_list,
                 drainConn, cobj, cref, disc, actCalls>>

ConnLinkAdd(c) ==
  /\ pc[c] = "link_add"
  /\ conn_list' = Append(conn_list, c)
  /\ epLock' = NoThread
  /\ pc' = [pc EXCEPT ![c] = "release_active"]
  /\ UNCHANGED <<state, wasActive, refs, activeRefs, custom, res, drainConn, cobj,
                 cref, disc, actCalls>>

ConnReleaseActive(c) ==
  /\ pc[c] = "release_active"
  /\ activeRefs' = activeRefs - 1
  /\ pc' = [pc EXCEPT ![c] = "attached"]
  /\ UNCHANGED <<state, wasActive, refs, custom, res, epLock, conn_list, drainConn,
                 cobj, cref, disc, actCalls>>

(* The handle is closed: kdbus_conn_disconnect(conn), then unref.         *)
ConnClose(c) ==
  /\ pc[c] = "attached"
  /\ pc' = [pc EXCEPT ![c] = "disc_begin"]
  /\ UNCHANGED <<state, wasActive, refs, activeRefs, custom, res, epLock, conn_list,
                 drainConn, cobj, cref, disc, actCalls>>

ConnPutSelf(c) ==
  /\ pc[c] = "put"
  /\ ConnPut(c)
  /\ pc' = [pc EXCEPT ![c] = "done"]
  /\ UNCHANGED <<wasActive, activeRefs, custom, epLock, conn_list, drainConn,
                 disc, actCalls>>

(* kdbus_conn_disconnect, run by the release loop or by the connection    *)
(* itself: an already disconnected conn returns -EALREADY; otherwise it   *)
(* is marked, and unlinked from ep->conn_list under ep->lock.             *)
DiscBegin(t) ==
  /\ pc[t] = "disc_begin"
  /\ IF disc[Target(t)]
       THEN pc' = [pc EXCEPT ![t] = After(t)] /\ UNCHANGED disc
       ELSE /\ disc' = [disc EXCEPT ![Target(t)] = TRUE]
            /\ pc' = [pc EXCEPT ![t] = "disc_lock"]
  /\ UNCHANGED <<state, wasActive, refs, activeRefs, custom, res, epLock, conn_list,
                 drainConn, cobj, cref, actCalls>>

DiscLock(t) ==
  /\ pc[t] = "disc_lock"
  /\ epLock = NoThread
  /\ epLock' = t
  /\ pc' = [pc EXCEPT ![t] = "disc_del"]
  /\ UNCHANGED <<state, wasActive, refs, activeRefs, custom, res, conn_list,
                 drainConn, cobj, cref, disc, actCalls>>

DiscDel(t) ==
  /\ pc[t] = "disc_del"
  /\ conn_list' = Remove(conn_list, Target(t))
  /\ epLock' = NoThread
  /\ pc' = [pc EXCEPT ![t] = After(t)]
  /\ UNCHANGED <<state, wasActive, refs, activeRefs, custom, res, drainConn, cobj,
                 cref, disc, actCalls>>

-----------------------------------------------------------------------------
Init ==
  /\ state = "none"
  /\ wasActive = FALSE
  /\ refs = 0
  /\ activeRefs = 0
  /\ custom \in BOOLEAN
  /\ res = [bus |-> FALSE, user |-> "null"]
  /\ epLock = NoThread
  /\ conn_list = <<>>
  /\ pc = [t \in Threads |-> IF t = EP THEN "new" ELSE "idle"]
  /\ drainConn = NoThread
  /\ cobj = [c \in Conns |-> "none"]
  /\ cref = [c \in Conns |-> 0]
  /\ disc = [c \in Conns |-> FALSE]
  /\ actCalls = 0

(* Every thread has returned; the system stops here.                      *)
Terminated ==
  /\ \A t \in Threads : pc[t] = "done"
  /\ UNCHANGED vars

(* The steps a thread takes once it is inside a call, and the ones that   *)
(* wait for ep->lock.                                                      *)
EpProgress ==
  \/ EpNewLink \/ EpNewUser \/ ExitUnref \/ WaitActive
  \/ DrainPeek \/ DrainUnref \/ EpPut \/ DiscBegin(EP) \/ DiscDel(EP)
ConnProgress(c) ==
  \/ ConnLinkAdd(c) \/ ConnReleaseActive(c) \/ ConnPutSelf(c)
  \/ DiscBegin(c) \/ DiscDel(c)
LockStep(t) ==
  \/ t = EP /\ (DrainLock \/ DiscLock(EP))
  \/ t \in Conns /\ (ConnLinkLock(t) \/ DiscLock(t))

Next ==
  \/ EpNewAlloc \/ EpProgress \/ EpActivate \/ EpDeactivate
  \/ \E c \in Conns : ConnAcquire(c) \/ ConnClose(c) \/ ConnProgress(c)
  \/ \E t \in Threads : LockStep(t)
  \/ Terminated

(* A call, once made, runs to completion: every step of it is weakly fair *)
(* and the kernel mutex hands ep->lock over to a waiter, so taking a lock *)
(* that is free infinitely often is strongly fair.  Starting a call       *)
(* (creating the endpoint, connecting, closing a handle, activating,     *)
(* deactivating) is not.                                                   *)
Fairness ==
  /\ WF_vars(EpProgress)
  /\ \A c \in Conns : WF_vars(ConnProgress(c))
  /\ \A t \in Threads : SF_vars(LockStep(t))

Spec == Init /\ [][Next]_vars /\ Fairness

-----------------------------------------------------------------------------
(* Properties.                                                             *)

(* The release loop and a connection's own disconnect race on the same    *)
(* conn: whichever thread runs kdbus_conn_disconnect or kdbus_conn_unref   *)
(* on a conn, that conn has not been freed (the loop's kdbus_conn_ref      *)
(* keeps it alive after ep->lock is dropped).                              *)
NoConnUseAfterFree ==
  \A t \in Threads :
    pc[t] \in DiscPcs \cup (IF t = EP THEN {"drain_unref"} ELSE {"put"})
      => cobj[Target(t)] = "live"

(* While a connection object lives, the endpoint it points to (conn->ep)  *)
(* has not been freed: the reference taken with kdbus_ep_ref outlives     *)
(* every use of it.                                                        *)
EndpointOutlivesConns ==
  state = "freed" => \A c \in Conns : cobj[c] # "live"

(* Once deactivation has started, the release loop finishes: every        *)
(* connection is disconnected and the node is drained, although           *)
(* connections disconnect themselves concurrently and the loop cannot     *)
(* hold ep->lock across kdbus_conn_disconnect.                            *)
DrainTerminates == state = "deactivated" ~> state \in {"drained", "freed"}

(* kdbus_ep_free releases exactly what kdbus_ep_new took, on every path   *)
(* to it: the bus reference, and e->user only if it is a user object      *)
(* (NULL for a default endpoint and after a failed kdbus_domain_get_user, *)
(* never the error pointer).                                               *)
FreeReleasesValidRefs ==
  [][state # "freed" /\ state' = "freed" =>
       res.bus /\ res.user # "err" /\ (res.user = "ref" => custom)]_vars

(* The refinement mapping: the abstract endpoint is active until the      *)
(* node's active references are gone and kdbus_ep_release starts; its     *)
(* attached connections are those on ep->conn_list.                       *)
AbsLifecycle ==
  CASE state = "none" -> "none"
    [] state = "new" -> "created"
    [] state = "active" -> "active"
    [] state = "deactivated" /\ pc[EP] = "wait_active" ->
         IF wasActive THEN "active" ELSE "created"
    [] state \in {"deactivated", "drained"} -> "deactivated"
    [] state = "freed" -> "freed"

Abs == INSTANCE EndpointStates WITH lifecycle <- AbsLifecycle,
                                    attached <- ToSet(conn_list)

(* The endpoint implements its promised lifecycle: activated at most once *)
(* and only when new, connections linked only while it is active, freed   *)
(* only after deactivation with an empty conn_list (kdbus_ep_free's       *)
(* BUG_ON), on the normal path and on kdbus_ep_new's error path alike.    *)
LifecycleRefinement == Abs!Spec
=============================================================================
