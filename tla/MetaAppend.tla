----------------------------- MODULE MetaAppend -----------------------------
(***************************************************************************)
(* The metadata snapshot of src/metadata.c: kdbus_meta_append() growing    *)
(* one struct kdbus_meta by the categories a caller requests.             *)
(*                                                                         *)
(* The buffer is kept at byte precision where it matters: its allocated    *)
(* size, its logical size, the records in it (type, offset, declared       *)
(* size) and the byte ranges that hold uninitialised memory.  What a       *)
(* producer reads from the task (credentials, paths, labels) is abstracted *)
(* to the length of what it writes, chosen from small sets.  A call runs   *)
(* in steps (one per category, one per record) so that the failure of any  *)
(* one allocation can end it where the code's "goto exit" does.            *)
(***************************************************************************)
EXTENDS Naturals, Sequences

CONSTANTS
  NamesLens,     (* strsize of the names a connection owns (0: none)       *)
  CommLens,      (* strlen(comm) + 1, at most TASK_COMM_LEN                *)
  ExeLens,       (* length of a resolved executable path                  *)
  CmdlineLens,   (* arg_end - arg_start                                    *)
  CgroupLens,    (* strlen(cgroup path) + 1                                *)
  SeclabelLens,  (* length of a security label                            *)
  Masks,         (* attach masks the callers request                      *)
  MayFail,       (* whether allocations and producers may fail            *)
  MaxCalls       (* calls of kdbus_meta_append on one snapshot            *)

(* Sizes from kdbus.h and the kernel. *)
HeaderSize == 16       (* KDBUS_ITEM_HEADER_SIZE: size and type, u64 each *)
PreAlloc == 256
PageSize == 4096
TimestampSize == 16    (* monotonic_ns, realtime_ns                       *)
CredsSize == 40        (* uid, gid, pid, tid, starttime                   *)
CapsSize == 32         (* 4 sets of _KERNEL_CAPABILITY_U32S (2) u32       *)
AuditSize == 16        (* loginuid, sessionid                             *)

(* The categories in the order kdbus_meta_append() visits them. *)
Order == <<"timestamp", "creds", "names", "comm", "exe", "cmdline", "caps",
           "cgroup", "audit", "seclabel">>
Cats == {Order[i] : i \in 1..Len(Order)}

ASSUME Masks \subseteq SUBSET Cats
ASSUME MayFail \in BOOLEAN

VARIABLES
  alloc,     (* meta->allocated_size; 0 while meta->data is NULL          *)
  size,      (* meta->size                                                *)
  gen,       (* buffers allocated so far; the current one is number gen   *)
  items,     (* records in the buffer: [type, off, size]                  *)
  undef,     (* ranges <<lo, hi>> of uninitialised bytes in the buffer    *)
  attached,  (* meta->attached                                             *)
  srcNames,  (* meta->src_names as [gen, off]; gen 0 while unset           *)
  pc,        (* "idle", or where the current call is: "produce", "append" *)
  pending,   (* categories the current call still has to visit            *)
  queue,     (* records the current category still has to append          *)
  ret,       (* ret of the current or the last call                       *)
  shortRead, (* a cmdline read came back short during the current call    *)
  calls      (* calls made so far                                         *)

vars == <<alloc, size, gen, items, undef, attached, srcNames, pc, pending,
          queue, ret, shortRead, calls>>

OK == "0"
ENOMEM == "-ENOMEM"
EPROD == "-EPRODUCER"  (* an error of the task-side producer              *)
POS == "positive"      (* copy_from_user's count of bytes not copied      *)

NoRef == [gen |-> 0, off |-> 0]

(***************************************************************************)
(* Arithmetic of the layout.                                              *)
(***************************************************************************)

Align8(l) == ((l + 7) \div 8) * 8

ItemSize(len) == Align8(len + HeaderSize)

RECURSIVE Pow2From(_, _)
Pow2From(p, x) == IF p >= x THEN p ELSE Pow2From(2 * p, x)

RoundupPowOfTwo(x) == Pow2From(1, x)

Lo(a, b) == IF a < b THEN a ELSE b
Hi(a, b) == IF a < b THEN b ELSE a

(* The ranges of U below hi, cut at hi. *)
ClipRanges(U, hi) == {<<r[1], Lo(r[2], hi)>> : r \in {r \in U : r[1] < hi}}

(* The ranges of U with [lo, hi) written. *)
PunchRange(U, lo, hi) ==
  {r \in UNION {{<<r[1], Lo(r[2], lo)>>, <<Hi(r[1], hi), r[2]>>} : r \in U} :
     r[1] < r[2]}

(***************************************************************************)
(* Producers: the records each category appends, or how it fails.         *)
(***************************************************************************)

Rec(type, len) == [type |-> type, len |-> len]

Ok(recs) == [err |-> OK, recs |-> recs]
Fail(e) == [err |-> e, recs |-> <<>>]

(* kdbus_meta_append_data: nothing for an empty payload. *)
MetaAppendData(type, len) == IF len = 0 THEN <<>> ELSE <<Rec(type, len)>>

AppendTimestamp == {Ok(<<Rec("timestamp", TimestampSize)>>)}

AppendCred == {Ok(<<Rec("creds", CredsSize)>>)}

(* Names read under conn->names_lock; none owned: no record. *)
AppendSrcNames == {Ok(MetaAppendData("names", l)) : l \in NamesLens}

(* Two strings: the group leader's comm, then the thread's. *)
AppendComm ==
  {Ok(<<Rec("tid_comm", a), Rec("pid_comm", b)>>) : a, b \in CommLens}

(* No mm or exe_file, or d_path failing: no record; no page: -ENOMEM. *)
AppendExe ==
  {Ok(<<>>)} \cup {Ok(MetaAppendData("exe", l)) : l \in ExeLens}
    \cup (IF MayFail THEN {Fail(ENOMEM)} ELSE {})

(* The argument area capped to a page; a short copy_from_user returns the *)
(* positive count of bytes not copied, which is not < 0.                  *)
AppendCmdline ==
  {Ok(<<>>)} \cup {Ok(MetaAppendData("cmdline", Lo(l, PageSize))) : l \in CmdlineLens}
    \cup (IF MayFail THEN {Fail(ENOMEM), Fail(POS)} ELSE {})

AppendCaps == {Ok(<<Rec("caps", CapsSize)>>)}

(* No page: -ENOMEM; task_cgroup_path failing: its error. *)
AppendCgroup ==
  {Ok(<<Rec("cgroup", l)>>) : l \in CgroupLens}
    \cup (IF MayFail THEN {Fail(ENOMEM), Fail(EPROD)} ELSE {})

AppendAudit == {Ok(<<Rec("audit", AuditSize)>>)}

(* -EOPNOTSUPP or an empty label: no record; another error: returned. *)
AppendSeclabel ==
  {Ok(<<>>)} \cup {Ok(MetaAppendData("seclabel", l)) : l \in SeclabelLens}
    \cup (IF MayFail THEN {Fail(EPROD)} ELSE {})

Produce(c) ==
  CASE c = "timestamp" -> AppendTimestamp
    [] c = "creds"     -> AppendCred
    [] c = "names"     -> AppendSrcNames
    [] c = "comm"      -> AppendComm
    [] c = "exe"       -> AppendExe
    [] c = "cmdline"   -> AppendCmdline
    [] c = "caps"      -> AppendCaps
    [] c = "cgroup"    -> AppendCgroup
    [] c = "audit"     -> AppendAudit
    [] c = "seclabel"  -> AppendSeclabel

(***************************************************************************)
(* The buffer: kdbus_meta_append_item.                                    *)
(***************************************************************************)

(* The first buffer: 256 bytes plus the first record, rounded up to a     *)
(* power of two.                                                          *)
FirstAlloc(slot) == RoundupPowOfTwo(PreAlloc + slot)

(* Uninitialised bytes of a fresh first buffer of a bytes: none, kzalloc. *)
FreshBufferUndefKmalloc(a) == {<<0, a>>}
FreshBufferUndef(a) == {}

(* The growth test: the record does not fit in a bytes.                   *)
MustGrowOnSize(slot, a) == size > a
MustGrow(slot, a) == size + slot > a

(* The capacity a growth allocates for need bytes.                        *)
GrowToExact(need) == need
GrowTo(need) == RoundupPowOfTwo(need)

(* Where the new record starts: meta->size before it is advanced.         *)
RecordOffsetAfterAdvance(slot) == size + slot
RecordOffset(slot) == size

(* Whether reserving slot bytes allocates (first buffer or growth).       *)
NeedsAlloc(slot) == alloc = 0 \/ MustGrow(slot, alloc)

(* Reserve a record.  Growing copies the first meta->size bytes (kmalloc  *)
(* leaves the rest of the old capacity uninitialised), zeroes the bytes   *)
(* past the old capacity and frees the old buffer.  The record's header   *)
(* and payload are then written; its padding up to 8 bytes is not.        *)
MetaAppendItem(rec) ==
  LET slot == ItemSize(rec.len)
      a1 == IF alloc = 0 THEN FirstAlloc(slot) ELSE alloc
      u1 == IF alloc = 0 THEN FreshBufferUndef(a1) ELSE undef
      g1 == IF alloc = 0 THEN gen + 1 ELSE gen
      grow == MustGrow(slot, a1)
      a2 == IF grow THEN GrowTo(size + slot) ELSE a1
      u2 == IF grow
              THEN ClipRanges(u1, size) \cup (IF size < a1 THEN {<<size, a1>>} ELSE {})
              ELSE u1
      off == RecordOffset(slot)
  IN  /\ alloc' = a2
      /\ gen' = IF grow THEN g1 + 1 ELSE g1
      /\ size' = size + slot
      /\ items' = Append(items, [type |-> rec.type, off |-> off,
                                 size |-> HeaderSize + rec.len])
      /\ undef' = PunchRange(u2, off, off + HeaderSize + rec.len)

(***************************************************************************)
(* kdbus_meta_append, one step at a time.                                 *)
(***************************************************************************)

(* A call from a connection (kernel messages, conn == NULL, return at     *)
(* once).  If every requested category is attached it returns 0.         *)
Begin(which) ==
  /\ pc = "idle"
  /\ calls < MaxCalls
  /\ calls' = calls + 1
  /\ ret' = OK
  /\ shortRead' = FALSE
  /\ IF which \subseteq attached
       THEN UNCHANGED <<pc, pending>>
       ELSE /\ pc' = "produce"
            /\ pending' = SelectSeq(Order, LAMBDA c : c \in which)
  /\ UNCHANGED <<alloc, size, gen, items, undef, attached, srcNames, queue>>

(* A requested category already attached is passed over.                  *)
Skip ==
  /\ pc = "produce"
  /\ pending # <<>>
  /\ Head(pending) \in attached
  /\ pending' = Tail(pending)
  /\ UNCHANGED <<alloc, size, gen, items, undef, attached, srcNames, pc,
                 queue, ret, shortRead, calls>>

(* ProduceStep without the !(meta->attached & X) test.                    *)
ProduceStepNoMemo ==
  /\ pc = "produce"
  /\ pending # <<>>
  /\ \E o \in Produce(Head(pending)) :
       /\ ret' = o.err
       /\ IF o.err \in {ENOMEM, EPROD}
            THEN /\ pc' = "idle"
                 /\ pending' = <<>>
                 /\ UNCHANGED <<queue, shortRead>>
            ELSE /\ pc' = "append"
                 /\ queue' = o.recs
                 /\ shortRead' = (shortRead \/ o.err = POS)
                 /\ UNCHANGED pending
  /\ UNCHANGED <<alloc, size, gen, items, undef, attached, srcNames, calls>>

(* The category's producer runs; a negative result ends the call.         *)
ProduceStep ==
  /\ pc = "produce"
  /\ pending # <<>>
  /\ Head(pending) \notin attached
  /\ \E o \in Produce(Head(pending)) :
       /\ ret' = o.err
       /\ IF o.err \in {ENOMEM, EPROD}
            THEN /\ pc' = "idle"
                 /\ pending' = <<>>
                 /\ UNCHANGED <<queue, shortRead>>
            ELSE /\ pc' = "append"
                 /\ queue' = o.recs
                 /\ shortRead' = (shortRead \/ o.err = POS)
                 /\ UNCHANGED pending
  /\ UNCHANGED <<alloc, size, gen, items, undef, attached, srcNames, calls>>

(* One record is appended; the names record is cached in meta->src_names.*)
AppendStep ==
  /\ pc = "append"
  /\ queue # <<>>
  /\ MetaAppendItem(Head(queue))
  /\ srcNames' = IF Head(queue).type = "names"
                   THEN [gen |-> gen', off |-> size + HeaderSize]
                   ELSE srcNames
  /\ queue' = Tail(queue)
  /\ ret' = OK
  /\ UNCHANGED <<attached, pc, pending, shortRead, calls>>

(* kzalloc or kmalloc fails: -ENOMEM ends the call, the buffer untouched. *)
AppendFail ==
  /\ pc = "append"
  /\ queue # <<>>
  /\ MayFail
  /\ NeedsAlloc(ItemSize(Head(queue).len))
  /\ pc' = "idle"
  /\ ret' = ENOMEM
  /\ queue' = <<>>
  /\ pending' = <<>>
  /\ UNCHANGED <<alloc, size, gen, items, undef, attached, srcNames,
                 shortRead, calls>>

(* All of the category's records written: its bit is set.                 *)
Attach ==
  /\ pc = "append"
  /\ queue = <<>>
  /\ attached' = attached \cup {Head(pending)}
  /\ pending' = Tail(pending)
  /\ pc' = "produce"
  /\ UNCHANGED <<alloc, size, gen, items, undef, srcNames, queue, ret,
                 shortRead, calls>>

Return ==
  /\ pc = "produce"
  /\ pending = <<>>
  /\ pc' = "idle"
  /\ UNCHANGED <<alloc, size, gen, items, undef, attached, srcNames, pending,
                 queue, ret, shortRead, calls>>

Init ==
  /\ alloc = 0
  /\ size = 0
  /\ gen = 0
  /\ items = <<>>
  /\ undef = {}
  /\ attached = {}
  /\ srcNames = NoRef
  /\ pc = "idle"
  /\ pending = <<>>
  /\ queue = <<>>
  /\ ret = OK
  /\ shortRead = FALSE
  /\ calls = 0

(* kdbus_meta_free: the message is built and its snapshot discarded; the  *)
(* next message starts from an empty one.                                 *)
MetaFree ==
  /\ pc = "idle"
  /\ calls > 0
  /\ alloc' = 0 /\ size' = 0 /\ items' = <<>> /\ undef' = {}
  /\ attached' = {} /\ srcNames' = NoRef /\ ret' = OK /\ calls' = 0
  /\ gen' = 0
  /\ UNCHANGED <<pc, pending, queue, shortRead>>

Next ==
  \/ \E which \in Masks : Begin(which)
  \/ Skip
  \/ ProduceStep
  \/ AppendStep
  \/ AppendFail
  \/ Attach
  \/ Return
  \/ MetaFree

Spec == Init /\ [][Next]_vars

(***************************************************************************)
(* Properties.                                                             *)
(***************************************************************************)

ItemTypes == {"timestamp", "creds", "names", "tid_comm", "pid_comm", "exe",
              "cmdline", "caps", "cgroup", "audit", "seclabel"}

(* Types; meta->allocated_size is 0 before the first append and a power   *)
(* of two (at least 512) after it.                                        *)
TypeOK ==
  /\ alloc \in {0} \cup {2^k : k \in 9..16}
  /\ size \in Nat /\ gen \in Nat
  /\ items \in Seq([type : ItemTypes, off : Nat, size : Nat])
  /\ undef \subseteq (Nat \X Nat)
  /\ attached \subseteq Cats
  /\ srcNames \in [gen : Nat, off : Nat]
  /\ pc \in {"idle", "produce", "append"}
  /\ pending \in Seq(Cats)
  /\ queue \in Seq([type : ItemTypes, len : Nat])
  /\ ret \in {OK, ENOMEM, EPROD, POS}
  /\ shortRead \in BOOLEAN
  /\ calls \in 0..MaxCalls

(* Every record lies inside the used part of the buffer, which lies       *)
(* inside the allocation: no append, first or after a growth, writes past *)
(* meta->allocated_size.                                                   *)
RecordsInsideBuffer ==
  /\ size <= alloc
  /\ \A i \in 1..Len(items) : items[i].off + Align8(items[i].size) <= size

(* The records a reader finds by walking the blob from offset 0, adding   *)
(* KDBUS_ALIGN8(item->size) each time, up to meta->size.                  *)
RECURSIVE WalkFrom(_)
WalkFrom(off) ==
  IF off >= size THEN <<>>
  ELSE IF \E i \in 1..Len(items) : items[i].off = off
    THEN LET i == CHOOSE i \in 1..Len(items) : items[i].off = off
         IN  <<off>> \o WalkFrom(off + Align8(items[i].size))
    ELSE <<off>>

(* KDBUS_ITEM_FOREACH over the blob meets exactly the records appended, in*)
(* order, each 8-byte aligned, and stops exactly at meta->size.           *)
ItemChainWalkable ==
  /\ WalkFrom(0) = [i \in 1..Len(items) |-> items[i].off]
  /\ \A i \in 1..Len(items) : items[i].off % 8 = 0
  /\ size = IF items = <<>> THEN 0
            ELSE items[Len(items)].off + Align8(items[Len(items)].size)

(* No byte below meta->size is uninitialised: neither record padding nor  *)
(* the part of the old capacity that a growth does not copy can leak      *)
(* kernel memory into a blob handed to receivers.                         *)
NoUninitialisedBytes == \A r \in undef : r[1] >= size

(* Appending a category twice, by the same or a later call, never adds a  *)
(* second record of a type (spec.md 8, idempotence; 4.2, a failed call    *)
(* "may be safely retried and will skip what already succeeded").         *)
NoDuplicateRecords ==
  \A i, j \in 1..Len(items) : i # j => items[i].type # items[j].type

(* A category the sender has nothing to report for is not marked         *)
(* attached: spec.md 8, NAMES for a connection that owns no name leaves   *)
(* "the NAMES bit ... unset"; spec.md 7(d), an absent security module     *)
(* (-EOPNOTSUPP from security_secid_to_secctx) is "success with the       *)
(* category simply not attached".  Read by kdbus_meta_export's receivers,  *)
(* a bit with no record is a claim no item backs.                         *)
EmptyCategoriesUnattached ==
  \A c \in {"names", "seclabel"} \cap attached :
    \E i \in 1..Len(items) : items[i].type = c

(* meta->src_names always points into the current buffer.                 *)
SrcNamesInCurrentBuffer == srcNames # NoRef => srcNames.gen = gen

(* spec.md 4.2: a producer failure, a truncated read included, aborts the *)
(* whole append: the category is not marked attached and the call fails. *)
TruncatedReadAborts ==
  shortRead => "cmdline" \notin attached

=============================================================================
