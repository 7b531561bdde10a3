# TLA+ models of the kdbus endpoint policy and metadata code

The models cover `src/endpoint.c` (endpoints and their access decisions),
`src/metadata.c` (the credential snapshot attached to messages) and the item
macros of `src/test/kdbus-util.h`. `spec.md` describes the subsystem. Every
definition is translated from the source. The exceptions come from files of
the repository that are not under `src/` (`policy.c`, `names.c`, `bus.c`,
`node.c`, `connection.c`): those definitions are modelled from `spec.md` and
marked `spec_modelled` in `PROJECT.json`.

## 1. Inventory

| Component | State | Operations | Interacts with |
|---|---|---|---|
| PolicyDatabase (`policy.c`, not in src/) | name → entries {subject kind, id, access}, under an rwlock | check_see, check_talk, check_own, set | read by the endpoint checks; written by uploads |
| PolicyEngine (`endpoint.c` 233-478) | none of its own; reads `ep->has_policy`, `ep->policy_db`, `bus->policy_db`, conn creds, privilege, names | check_see_access(_unlocked), check_notification, check_src_names, check_talk_access, check_own_access, ep_policy_set | called by the send, broadcast, name-listing and name-acquire paths |
| Endpoint lifecycle (`endpoint.c` 33-214) | node state, refcount, `conn_list` under `ep->lock`, `policy_db`, `user`, `id` | ep_new, ep_ref/unref, activate, deactivate, release (drain), free | the node primitive calls release/free; connections join and leave `conn_list` |
| MetadataSnapshot + ItemWriter (`metadata.c`) | `data`, `size`, `allocated_size`, `attached`, `src_names` | meta_append (ten producers), meta_append_item (growth), meta_free | reads the sender's `names_list` under `names_lock` and the current task's credentials |
| Name registry (`names.c`, not in src/) | owner of each name | acquire (after the OWN check), release | read by TALK/src-names/NAMES |
| Test utilities (`src/test/kdbus-util.h`) | none: macros over a reply buffer | `KDBUS_ITEM_NEXT/FOREACH`, `KDBUS_NAME_SIZE/NEXT/FOREACH` | walk the metadata blob and the name-list replies the kernel writes |

Hard behaviours:
- **Layered decisions.** TALK and OWN run the custom policy first, then the
  implicit grants, then the bus policy. The order and the early returns decide
  what a custom endpoint can reveal or allow.
- **Confidentiality remapping.** On a custom endpoint a SEE/TALK denial must
  read as `-ENOENT`.
- **Byte-level buffer growth.** Records are 8-byte aligned. Growth copies only
  `meta->size` bytes into a `kmalloc` buffer and zeroes only the bytes past the
  old capacity. Padding is never written.
- **Partial failure.** Any allocation or producer can fail in the middle of a
  call. The categories that succeeded stay attached, and the call may be
  retried.
- **Concurrency.** The checks take the policy rwlock and then a connection
  lock. Name changes and uploads run concurrently. The endpoint drain loop
  locks, peeks, unlocks and disconnects, while connections disconnect
  themselves.

What makes each component correct:
- **PolicyEngine:** a custom endpoint only restricts the default endpoint. It
  never reveals hidden names. Held names were granted through the full OWN
  layering.
- **MetadataSnapshot:**
  - records stay inside the allocation;
  - the blob can be walked by its declared sizes;
  - no uninitialised byte reaches a receiver;
  - a retry never duplicates a record;
  - attached bits mean records;
  - the cached `src_names` stays valid.
- **Lifecycle:** no connection or endpoint is used after it is freed. The drain terminates and does not
  deadlock. Free sees an empty connection list.

## 2. Modules

### EndpointPolicy (`EndpointPolicy.tla`, `MC_EndpointPolicy.tla`)

- **State.** `epDb` is the custom endpoint's `policy_db`. `busDb` is the bus
  database. `owner` is the name registry.
- **Decisions.** `EpCheckSeeUnlocked`, `EpCheckSee`, `EpCheckNotification`,
  `EpCheckSrcNames`, `EpCheckTalk` and `EpCheckOwn` are operators translated
  line by line from `endpoint.c`, including each early return and the
  `-EPERM`→`-ENOENT` remaps. `EpCheckSrcNames` returns 0 as soon as one of
  the source's names is visible, and otherwise the SEE result of the last
  name it checked. That result is `-ENOENT` only because of the remap, so
  `CustomDenialsHideExistence` fails if the remap is dropped. A source that
  owns no name gets the initial `-ENOENT`. The list order is not modelled:
  the last name is any owned name. The locks are abstracted: in this module
  each decision is atomic.
- **Actions.**
  - `EpPolicySet` (`kdbus_ep_policy_set`) and `BusPolicySet` append a batch,
    or reject the whole batch if any entry is malformed.
  - `NameAcquire` is guarded by `EpCheckOwn` on the connection's endpoint.
  - `NameRelease` drops a name.
- **Instance.** Three connections:
  - c1: uid 1, gid 100, on the custom endpoint;
  - c2: uid 2, fsuid 1, on the default endpoint, so the fsuid shortcut
    towards c1 fires;
  - c3: privileged, on the custom endpoint.

  There are two names. The rules cover every subject and access kind, plus one
  malformed entry. Batches hold at most 2 entries. The model has 2880 states,
  and the search is exhaustive.

### MetaAppend (`MetaAppend.tla`, `MC_MetaAppend.tla`)

- **State.** The model tracks:
  - `alloc` (`allocated_size`, 0 while `data` is NULL);
  - `size`;
  - `gen`, the number of the current buffer, so that pointers into freed
    buffers can be told apart;
  - `items`, the records with type, offset and declared size;
  - `undef`, the byte ranges of uninitialised memory;
  - `attached`;
  - `srcNames`;
  - the progress of the current call (`pc`, `pending`, `queue`, `ret`).
- **Steps.** One call of `kdbus_meta_append` is a sequence of steps:
  - `Begin` applies the early returns;
  - `Skip` passes over a category whose attached bit is set;
  - `ProduceStep` runs one producer, and a negative result is `goto exit`;
  - `AppendStep` or `AppendFail` handles one `kdbus_meta_append_item`;
  - `Attach` sets the bit;
  - `Return` ends the call.

  Nothing else runs between the steps of a call. The snapshot is built by one
  thread, so the steps only mark where a failure can end the call.
- **Producers.** A producer is the set of outcomes its code can produce. For
  example, the cmdline producer can attach nothing, attach the capped arguments,
  fail with `-ENOMEM`, or make a short `copy_from_user` that returns a positive
  count. Task data is reduced to lengths.
- **Growth.** `MetaAppendItem` is the growth code at byte precision. Its
  pieces are named helpers: `FirstAlloc`, `FreshBufferUndef`, `MustGrow`,
  `GrowTo` and `RecordOffset`.
- **Reset.** `MetaFree` discards the snapshot, and the next message starts a
  fresh one.
- **Sizes.** The real sizes are used: header 16, pre-allocation 256, page 4096,
  and the kdbus struct sizes.
- **Lengths.** The payload lengths are chosen so that:
  - padding occurs;
  - names can be absent, or fill the first 512-byte buffer so that the second
    COMM string needs a growth;
  - the command line can overflow the buffer by a little (a growth of less
    than double) or by a lot (capped at a page).
- **Bounds.** Masks are {timestamp, names}, {comm, cmdline} and all ten
  categories. The passing runs allow 3 calls per snapshot: a call can fail,
  its retry can fail at a later point, and a third call can complete. Or the
  calls can append, grow, and grow again. The runs have 11492 states without
  failures and 41836 with them. The violation runs keep 2 calls, which is
  enough to reach their traces.

### EndpointLifecycle (`EndpointLifecycle.tla`, `MC_EndpointLifecycle.tla`)

- **State.**
  - `state`, `refs`, `activeRefs` and `wasActive` are the node (node.c, from
    the spec): its state, its reference count, the active references taken by
    `kdbus_node_acquire`, and release_cb's `was_active`.
  - `res` is what the endpoint holds: its `e->bus` reference and `e->user`
    (NULL, a reference, or an error pointer).
  - `epLock` is the holder of `ep->lock`, and `conn_list` is `ep->conn_list`.
  - Per connection: `cobj` (none, live or freed), `cref` and `disc`.
  - `pc` is the program counter of each thread. `drainConn` is the connection
    the release loop works on.
- **Threads.** The endpoint's thread `EP` runs:
  - `kdbus_ep_new`: `EpNewAlloc`, `EpNewLink`, `EpNewUser`, and `ExitUnref` on
    its error path;
  - `kdbus_ep_activate` (`EpActivate`, at most `MaxActivate` calls);
  - `kdbus_ep_deactivate` (`EpDeactivate`, `WaitActive`);
  - the release loop of `kdbus_ep_release`: `DrainLock`, `DrainPeek` and
    `DrainTake` (lock, peek, `kdbus_conn_ref`, unlock), the disconnect, then
    `DrainUnref`;
  - its final `kdbus_ep_unref` (`EpPut`).

  Each connection thread attaches inside a node active reference
  (`ConnAcquire`, `ConnLinkLock`, `ConnLinkAdd`, `ConnReleaseActive`). It
  later closes its handle (`ConnClose`, a disconnect) and drops its reference
  (`ConnPutSelf`). `kdbus_conn_disconnect` (connection.c, from the spec) is
  `DiscBegin`/`DiscLock`/`DiscDel`. It returns `-EALREADY` to the second
  caller, so the loop and a connection can race to disconnect the same
  connection.
- **Fairness.** Weak fairness applies to each thread's in-call steps: a
  kernel thread that is running a call keeps running. Strong fairness applies
  to taking `ep->lock`, because a Linux mutex hands the lock to a waiter, so a
  waiter that is repeatedly enabled gets it. Starting a call (`EpNewAlloc`, which is
  outside `EpProgress`, activation, deactivation, a connection's attach or
  close) is not fair: a caller may never make it.
- **Refinement.** `EndpointStates.tla` is what the endpoint promises:
  - it is created;
  - it is active at most once;
  - it is deactivated;
  - connections attach only while it is active;
  - it is freed only when none is attached.

  `AbsLifecycle` maps node states onto these. `ToSet(conn_list)` is the
  attached set. The `lifecycle` run checks `Abs!Spec` as a property.
- **Instance.** Three connections and two activation attempts:
  - the loop can meet, at the head of `conn_list`, a connection that is
    disconnecting itself while another waits behind it;
  - a connection can link while another is drained;
  - a second activation can be refused.

  55176 states. Liveness and the refinement are checked on the same instance,
  so no symmetry reduction is used.

### EndpointLocking (`EndpointLocking.tla`, `MC_EndpointLocking.tla`)

- **Composition.** The module instantiates EndpointPolicy. Its `busDb` is
  empty, and `owner` is derived from `namesList`, Src's `names_list` in list
  order.
- **Threads.**
  - Thread L runs `check_src_names` or `check_see_access`: `LCall` (with the
    default-endpoint early return), `LReadLock` (`down_read`), `LConnLock`,
    one `LLoop` step per list entry or `LSee`, `LUnlock`, and `LReturn`.
  - Thread M runs `kdbus_meta_append_src_names`: `MLock` (`names_lock`),
    `MSize` (sizing, where the allocation may fail), `MCopy` and `MUnlock`.
- **Writers.** `PolicyUpload` is the write side of the rwlock. `NameAdd` and
  `NameRemove` edit the list while holding the locks in `WriterLocks`.
  `names.c` is not under `src/`, so which locks the registry takes is a
  parameter. The passing run assumes both locks. Each single-lock choice
  fails, and neither has a run of its own (the project keeps at most twelve).
  To reproduce them, set `WriterLocks` in `MC_EndpointLocking.cfg`:
  - `{"names_lock"}`, the lock metadata.c reads under: `LockedChecksAtomic`
    fails, because the list changes under the src-names loop, which holds
    `conn->lock` (endpoint.c:387);
  - `{"conn_lock"}`, the lock endpoint.c reads under: `SrcNamesCopyFits`
    fails, because the list grows between the sizing and the copy in
    metadata.c (141-158).

  The two readers of one list take different locks, so no writer that takes
  only one lock is safe for both.
- **Instance.** Src owns up to two names of different lengths. Dst sees one
  name through a world rule and the other through a user rule. 18932 states.

### NameListWalk (`NameListWalk.tla`)

- **What it models.** The name-list macros of `src/test/kdbus-util.h`:
  - `NameSize` is `KDBUS_NAME_SIZE`;
  - `NameNext` is `KDBUS_NAME_NEXT`;
  - `NameForeachFrom` is `KDBUS_NAME_FOREACH`, a recursive operator returning
    the offsets the loop body runs for.
- **Reference.** The walk is checked against the entries' offsets, as
  `KDBUS_ITEM_FOREACH` would find them. In `MetaAppend`, `WalkFrom` models
  that macro as the reader of the metadata blob.
- **State.** `entries`, the names of a reply in order. The reply is built by
  `names.c`, which is not under src/, so it grows one name at a time.
- **Constants.** `kdbus.h` is not in the repository, so the header sizes are
  constants. The instance uses a list header of 8, an entry header of 16,
  name lengths 1 and 20, and up to 3 names.
- **Why the result does not depend on the header sizes.** Two equal-length
  names show the bug whatever the headers are: the second entry lies at list
  header + the first entry's size, which is not below its own size.

### MetaExe (`MetaExe.tla`)

- **What it models.** `kdbus_meta_append_exe` (metadata.c 196-235), one step
  per point where another thread can run:
  - `ExeGetMm`: `get_task_mm` and `down_read`;
  - `ExeRead`: `path_get` and keeping `exe_path`;
  - `ExeUnlock`: `up_read` and `mmput`;
  - `ExePage`: the page allocation, with `path_put` on its failure;
  - `ExeDPath`: `d_path`;
  - `ExePut`: `free_page` and `path_put`.
- **The other thread.** The kernel paths it runs are not part of the
  repository, so they are modelled from their documented effect:
  - `Munmap` unmaps the executable and drops the mapping's file reference;
  - `SetExeFile` is `prctl(PR_SET_MM_EXE_FILE)`. It is refused while the old
    file is still mapped. Otherwise it references the new file and `fput`s the
    old one.

  Each runs under `mmap_sem` for writing, as a single step. spec.md §5 (fully
  parallel execution) is what lets them run between the producer's steps.
- **State.** The model tracks:
  - `exeFile`, the process's `mm->exe_file`;
  - `fref` and `freed`, the struct file reference counts and the files freed;
  - `mapped`;
  - `readers`, the `mmap_sem` readers;
  - the two threads' steps.
- **Scope.** What `d_path` writes is left to MetaAppend.

## 3. Runs

| Run | Expect | What it shows |
|---|---|---|
| `policy` | pass | 3 properties (below) over all uploads and name changes |
| `policy_privileged` | violation | spec §8 "privileged source still talks" is false: the custom denial at endpoint.c:431-434 returns first (initial state, c3 on the custom endpoint) |
| `meta` | pass | without failures, `NoDuplicateRecords`: no call, first or later, appends a second record of a category |
| `meta_fail` | pass | `RecordsInsideBuffer`, `ItemChainWalkable`, `NoUninitialisedBytes`: the buffer properties hold with every allocation and producer failure and retries |
| `meta_names` | violation | `EmptyCategoriesUnattached`: a category with nothing to report is still marked attached. The trace shows NAMES for a sender owning no name (metadata.c:385-391; spec §8 says the bit stays unset). With empty names excluded from `NamesLens`, the same property fails for SECLABEL when the LSM answers `-EOPNOTSUPP` (metadata.c:340, 469; spec §7(d)) |
| `meta_srcnames` | violation | `meta->src_names` dangles after a growth frees the buffer it points into (metadata.c:164 vs 68) |
| `meta_retry` | violation | a retry after the second COMM allocation failed appends TID_COMM twice (metadata.c:398-406) |
| `meta_cmdline` | violation | a short `copy_from_user` marks CMDLINE attached and does not abort (metadata.c:253-256, 423-427) |
| `lifecycle` | pass | `NoConnUseAfterFree`, `EndpointOutlivesConns`, `DrainTerminates` (liveness), `FreeReleasesValidRefs` (action) and `LifecycleRefinement` |
| `locking` | pass | `LockedChecksAtomic` (a locked decision equals the atomic EndpointPolicy decision on the current state) and `SrcNamesCopyFits` (the copy never exceeds the sized buffer), with writers taking both locks |
| `meta_exe` | violation | `kdbus_meta_append_exe` keeps `&mm->exe_file->f_path` after dropping `mmap_sem` and the mm (metadata.c:204-209). Another thread of the sender unmaps the executable and replaces `exe_file` with `prctl(PR_SET_MM_EXE_FILE)`. Its `fput` frees the file, and `d_path`/`path_put` then read freed memory |
| `name_foreach` | violation | `KDBUS_NAME_FOREACH` (kdbus-util.h:33-36) bounds its walk by the current entry's `name->size` instead of the list's `names->size`. The second entry sits at offset 8 + the first entry's size, and it is visited only if its own size is larger than that, i.e. only if its name is long. TLC's trace is a reply of two one-character names (`<<1, 1>>`, entries of 24 bytes each): the second entry at offset 32 is never visited. Other shortest traces, such as a 20-character name followed by a one-character one, fail the same way |

Properties of `policy`:
- `CustomOnlyRestricts`: whatever TALK/OWN allow through the custom endpoint,
  they allow through the default endpoint.
- `CustomDenialsHideExistence`: SEE, src-names and notification denials are
  `-ENOENT`. A TALK `-EPERM` only comes from the bus tier.
- `OwnedNamesPermitted`: every held name was granted by the custom database
  and by privilege or the bus database.

Every property of a passing run has a mutant in `PROJECT.json`: a plausible
bug that TLC shows the property catches. Examples:
- privilege tested before the custom OWN policy;
- `kmalloc` in place of `kzalloc`;
- a growth test on `size` alone;
- growth without rounding up;
- a record written after `size` was advanced;
- a dropped attached-bit test.

Lifecycle properties:
- `NoConnUseAfterFree`: the drain loop never works on a freed connection. Its
  `kdbus_conn_ref` under `ep->lock` keeps the connection alive.
- `EndpointOutlivesConns`: every live connection holds a reference on a
  not-yet-freed endpoint.
- `DrainTerminates`: a deactivated endpoint is eventually drained or freed,
  under the fairness described above.
- `FreeReleasesValidRefs`: when the endpoint is freed it holds its bus
  reference, and `e->user` is NULL or a real reference, never the error
  pointer of a failed `kdbus_domain_get_user` (endpoint.c:145).
- `LifecycleRefinement`: EndpointLifecycle implements EndpointStates.

The policy and metadata modules assume no fairness and state only safety
properties.

## 4. Not modelled (yet) and why

- **Connection internals** (`connection.c`, not in src/): only what the
  endpoint sees is modelled, namely the reference, the list link and the
  two-step disconnect.
- **The name registry's own locking** (`names.c`, not in src/): this is the
  `WriterLocks` parameter. The passing run assumes both locks.
- **Task-side values** (uids, paths, labels, time): reduced to lengths. Their
  contents are not what any property is about.
- **`CONFIG_*` switches:** the model assumes all of them are enabled.
- **`conn == NULL` in `kdbus_meta_append`** (kernel messages): an immediate
  return that changes nothing. It is left out of the model.
- **The rest of `src/test/kdbus-util.h`:** it declares userspace test
  helpers whose bodies are not under src/.
- **The memory past a name-list reply:** the loop test of
  `KDBUS_NAME_FOREACH` reads it. Its content is whatever the pool holds, so
  the walk is followed only while it stays on entries. The out-of-bounds read
  is listed as a hazard without a property.

## 5. Plan

1. Done:
   - **EndpointPolicy**;
   - **MetaAppend**;
   - **EndpointLifecycle** with its refinement of **EndpointStates**;
   - **EndpointLocking**;
   - **NameListWalk**;
   - **MetaExe**.
2. **MetaAbstract**: an abstract snapshot (a set of attached categories, each
   appended at most once), with MetaAppend shown to refine it. Most of what
   it would say is already checked by `NoDuplicateRecords` and the
   bit-means-record invariants.
3. Done: three connections in the lifecycle, and three calls per snapshot in
   the passing metadata runs.
