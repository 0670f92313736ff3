# TLA+ models of LibPM

LibPM (`src/src/`) is a persistent heap for C programs. A *container* is
backed by a file. Objects are allocated in it with `pmalloc` (`slab_palloc`).
Stores go to memory that is mapped read-only. The first store to a page
faults, and the SIGSEGV handler copies the page (copy-on-write) before the
store completes. `container_cpoint` writes a consistent image, and after a
crash `container_restore` is supposed to bring back the last complete
checkpoint.

## Parts of the system and how they interact

| part | source | role |
|---|---|---|
| container | `cont.c`, `cont.h` | library constructor (registers the fault handler), `container_init`, checkpoint entry point, `container_restore` |
| slab allocator | `alloc.c`, `slab.c`, `slabInt.h` | hierarchy container → dir → outer → inner → bucket → entry → objects; every slot holds a *current* and a *snapshot* pointer; size-class lists of entries with free objects |
| snapshots | `snapshot.c`, `sfhandler.c` | the fault handler finds the faulting page's entry (`handle_memory_update`), copies the data page (`slab_entry_snapshot`), and the entry's bucket and inner node if this epoch has no copy of them yet; with the non-linear mapper the copy is swapped under the old address instead (`*_copynswap`) |
| checkpoint | `checkpoint.c` | bottom-up reconciliation: it frees stale snapshot copies, makes snapshot = current, re-protects pages read-only and clears `sb_has_snapshot` |
| restore | `restore.c` | `slab_map` walks the file image; for a complete checkpoint it uses the snapshot side and asserts current = snapshot for each entry |
| page allocator | `page_alloc.c`, `fixmapper.c`, `nlmapper.c` | fixed mapper: a file of pages with a FIFO free list; the file doubles when the list is empty and is remapped with each page's recorded protection. The non-linear mapper (`PMLIB_USE_NLMAPPER=1`) also keeps, per address, the file page it shows, and can swap the file pages of two addresses with `remap_file_pages` |
| pointers | `fixptr.c`, `closure.c`, `htable.c`, `hash.c` | persistent pointer pages and the closure that moves volatile objects into the heap at checkpoint |
| root codec | `slab.c` (`slab_setroot`/`getroot`) | packs the root object as (entry id, offset) |
| utilities | `utils/`, `atomics.c`, `out.c`, `stats.c`, `debug.c` | macros, logging, statistics |
| clients | `benchmarks/`, `sqlite/`, `tests/` | drivers and tests |

The parts interact like this. Every store by the client may enter the
snapshot component through the fault handler. That component allocates pages
from the mapper, and the mapper may grow and remap the file. The checkpoint
returns pages to the mapper and changes protections. Restore reads what the
file holds.

## Module `Slab` (with `MC_Slab`)

`Slab.tla` models one container with the fixed mapper in one process. The
file and the process's volatile state are separate variables:

- **Persistent (the file):**
  - `mem`: pages, each a record that covers every node kind;
  - `cflag`: the `CPOINT_INCOMPLETE` flag.
- **Volatile (lost on a crash):**
  - `fileSize`, `freeList`, `recProt` (the mapper's `prot_flags`), `prot` (the actual mapping);
  - `sdFree` and `esHead` (the free list and the size-class list heads), `used`, `nextSbId`.
- **Control:** `pc` is run, cp or down; `cpi` is the inner-node loop index of a checkpoint.
- **History, kept for properties:**
  - `committed`: the heap at the last checkpoint;
  - `returned`: a bag of every address `slab_palloc` returned;
  - `ret`: the last address returned.

Data is abstracted to what the properties tell apart. An object is an
(entry, slot) pair with a value from `Vals`. A page is a page number. Sizes
come from `Sizes`; one value below and one above `SLAB_LARGE_ALLOC` exercise
both bitmap placements.

| action | code |
|---|---|
| `Init` | `container_init` → `slab_dir_init` (5 pages from a fresh 2-page file) |
| `slab_palloc(size)` | `slab_palloc` with `get_free_slab_entry`, `slab_entry_init`, `slab_entry_alloc_mem` and the faults its stores take |
| `Store(a, v)` | a client store to an allocated object, including the copy-on-write fault (`handle_memory_update` → `slab_entry_snapshot` / `slab_bucket_snapshot` / `slab_inner_snapshot`) |
| `CpBegin` | `container_cpoint_aux` up to the call of `slab_cpoint` (sets the flag) |
| `slab_inner_cpoint` | one iteration of its loop: `slab_bucket_cpoint` and the reconciliation of one slot |
| `CpEnd` | the end of `slab_inner_cpoint`, then `slab_outer_cpoint`, `slab_dir_cpoint` and clearing the flag |

Every page a checkpoint frees goes through `FreePages`, which applies `fixed_mapper_freepages` to each page in order: the page is appended at the tail of the free list, and nothing checks whether it is already there. `FreePagesUnowned` is the property that catches a double free.
| `Crash` | process kill: the file survives |
| `Restore` | `container_restore` up to the point where it dies |

A fault the handler cannot serve (`handle_error`) aborts the process
(`Abort`), and the model then behaves as after a crash. `Recover(m, flag)` is
`slab_map` as a function of the file: it gives the heap restored, or fails
where the code's checks and assertions do. It is evaluated in every state, so
restore is checked at every crash point, even though `container_restore`
itself never reaches `slab_map`.

### Runs

| run | cfg | result | what it shows |
|---|---|---|---|
| slab_safety_large | `MC_Slab_large.cfg` | pass, 403k states | objects of 600 bytes, whose bitmap is in the entry: no referenced page is ever on the free list (`FreePagesUnowned`), no object is returned twice while allocated (`AllocFresh`), and allocated objects stay reachable in the current heap (`AllocationsStayLive`), across allocation, faults, file growth, checkpoints and crashes; the running heap implements `PersistentHeap` (`ImplementsHeap`) |
| slab_safety_small | `MC_Slab_small.cfg` | pass, 282k states | the same properties for 8-byte objects, whose bitmap is in the data page, so that `bit_set` inside `slab_palloc` may take a copy-on-write fault |
| durable_alloc_only | `MC_Slab_durable_alloc.cfg` | violation | two allocations in one bucket, then a checkpoint: the restored heap lacks them (`alloc.c:151` overwrites `sb_has_snapshot`) |
| bucket_growth_ownership | `MC_Slab_growth.cfg` | violation | a second bucket is snapshotted into slot 0 (`snapshot.c:118`), and the checkpoint frees the live bucket page |

Each property of the pass runs has a mutant in `PROJECT.json`: a plausible
bug in the mapped code that TLC finds under the same cfg.

### Bounds

The bounds of the pass runs are `NE = 2` entries per bucket, `Capacity = 2`
objects per entry, `NI = 1` inner slot, one value and at most 16 file pages.
Each pass run has one size class: one below `SLAB_LARGE_ALLOC` and one
above it. The two classes share no entries, so pairing them multiplies the
states (5.0M) without adding an interleaving.

These bounds are enough for the following cases to happen:

- an entry fills up and a second entry is taken from the free list;
- a freed entry page is reused;
- each bitmap placement occurs, in its own run;
- the file grows past the eight pages `container_init` leaves (8 → 16);
- copy-on-write copies the entry and bucket pages;
- a checkpoint frees stale copies;
- a crash happens at any point of a checkpoint.

`MC_Slab_growth.cfg` raises `NI` to 2 so that a second bucket exists; only
there does a new bucket make `slab_inner_snapshot` copy the inner page. A full
inner node, which would need a new inner/outer node and the outer/dir
snapshots, lies beyond `NI` and is not explored. The guard `FileRoom` keeps
every run inside `MaxPages`.

### Fairness

No run of `Slab` assumes fairness: every property is a safety property.
A liveness property that a restart brings the process back to running
would fail whatever the code does, because `Restore` models
`container_restore` only up to `cont.c:155`, where it dies (see the defects
below), and the model has no step back to `"run"`. A property that every
checkpoint which has begun terminates (`pc = "cp" ~> pc # "cp"`, under weak
fairness of `slab_inner_cpoint` and `CpEnd`) holds on the small instance,
but the liveness check on that graph does not finish within the time
budget of the project's runs, so it is not kept.


## Module `PersistentHeap` (abstract specification)

`PersistentHeap.tla` states what a container promises its caller, with no
pages, slabs or mappers in it. `heap` is a function from the allocated
objects to their values, `saved` is the heap of the last checkpoint, and
`up` says whether a process runs. The actions are:

- `Alloc(o, v)` adds one object with any value (malloc, not calloc);
- `Store(o, v)` changes one object;
- `Checkpoint` sets `saved` to `heap`;
- `Crash` ends the process and leaves its heap unconstrained;
- `Restart` gives back `saved`.

Two detailed modules are shown to implement it, each with an `INSTANCE ...
WITH` refinement mapping and `ImplementsHeap == Heap!Spec` as a PROPERTY:

- `Slab`, checked in `slab_safety_large`. An object is an (entry page,
  slot) pair and its value is what `CurHeap(mem)` reads through the
  current pointers of the file image. `saved` is `committed`, the history
  variable set at `CpBegin`. `up` is `pc # "down"`. The mutant swaps the
  arguments of `slab_entry_snapshot`'s copy, so the new page's old contents
  overwrite the object. Under the small cfg that mutant breaks
  `AllocationsStayLive` first, so the property is checked on the large
  cfg only.
- `CopySwap`, checked in `copyswap_safety` (see below).

Both mappings take `saved` from the model's history rather than from the
file, because the durability defects (`durable_alloc_only`,
`copyswap_durable`) mean the file does not hold the checkpoint. The
refinement therefore checks the running process: every step of a fault, a
copy, a swap, a file growth or a checkpoint leaves every object's value
unchanged, and an allocation or a store changes exactly one object. What a
restart gives back is checked separately, by `Durable` and
`SnapshotDurable`.

## Module `RootCodec` (with `MC_RootCodec`)

`slab_setroot` packs the root object into the 64-bit word `sd_cont_root`
as (entry id, offset in the entry's data page) with `PACK_CONT_ROOT`, and
`slab_getroot` unpacks it with `UNPACK_CONT_ROOT` and finds the entry by id.
A word is four 16-bit limbs, so the casts, the 16-bit shift and the two's
complement of a negative offset keep their width. The actions are
`slab_entry_init` (the next id), `slab_setroot(addr)` and `slab_getroot`.
`PackMatchesReference` compares the codec with `seid * 2^16 + offset` for
ids at the 16-bit and 31-bit boundaries. `RootRoundTrip` is violated:
`slab.c:338` packs `ROUND_DWNPG(maddr) - maddr`, which is negative for any
object not at the start of its page, and the OR of its 64-bit two's
complement overwrites the id.

`get_slab_entry_by_id` decodes an id the way `slab.c:211-228` does: the
entry index is `seid % SLAB_BUCKET_ENTRIES` and the bucket id is split into
inner, outer and directory slots by `SLAB_INNER_ENTRIES`,
`SLAB_OUTER_ENTRIES` and `SLAB_DIR_ENTRIES` (28, 127, 127 and 124 on LP64).
The code follows those slots with no check. The model has one bucket, so a
path past it reaches a NULL node: `GetRoot` then yields `Segv`, the fault
that the handler turns into `handle_error`. This is what the round trip of
a root inside a page meets, since its corrupted id is `0xFFFFFFFF`.

## Module `Closure` (with `MC_Closure`)

`Closure.tla` models the pointer closure that `container_cpoint` runs before
it commits (`cont.c compute_closure`, `closure.c`), with the per-entry
pointer records (`slab.c do_insert_pointer`) and the pointer pages they live
in. An object is a model value: a volatile address (`VAddrs`), a persistent
object (`PObjs`, one per slab entry) or a global. Only pointer fields are
kept. All entries share one bucket; the pointer pages come from the pool
`PtrPgs`.

The two hash tables, `ht_mallocat` and `ht_pointerat`, are sets of keys.
`htable_insert` of a key that is already present keeps its entry, so an
address that `malloc` reuses after a promotion stays registered from its
first use. Their walk order is one fixed order of the keys (`LocOrder`),
which stands for the bucket order of `hash.c`.

| action | code |
|---|---|
| `Malloc(a)` | `mallocat`: malloc plus registration in the volatile table |
| `container_palloc` | `container_palloc` → `slab_palloc` (the bucket copy flag, the entry's fresh `se_ptr`) |
| `pointerat(l)` | `pointerat`: registers a persistent pointer location |
| `Store(l, v)` | a client store, through the copy-on-write fault `Fault` (`slab_entry_snapshot`, including its pointer-page copy) |
| `Checkpoint` | `compute_closure` (`build_mallocat_tree`, `classify_pointers`, `move_volatile_allocations` with `persist_valloc` and `do_insert_pointer`, `fix_back_references`) then `slab_cpoint` (`SlabCpoint`: frees stale pointer pages, makes snapshot = current, re-protects) |

Operators act on a record `S` of the whole state (`Cur`, `Become`), so that a
checkpoint is one step chaining every call in the code's order. An
allocation that runs out of pointer pages (`err = "bound"`) is not taken.

## Module `NLMapper`

`NLMapper.tla` models `nlmapper.c`. The state is one record `nlm`: `size`
and `prev` (file sizes), `map` (the file page the kernel shows at each
address), `pgoff` (the file page each `nlm_page` records), `inuse` (the tree),
`free` (the FIFO free list), `prot`, and `nonlin`. The operators are the
library's calls: `nlm_init`, `nlm_grow_file` with `map_appending` and
`add_pages_to_free_list`, `nlm_alloc_page` (doubling the file when the free
list is empty), `nlm_free_pages`, `nlm_swap_pages` with
`update_swapped_pages`, and `mprotect`. The module has no specification of
its own: `CopySwap` calls the mapper the way the slab does. `NlmConsistent`
(checked in `CopySwap` as `MapperConsistent`) says that the bookkeeping
agrees with the kernel: `map = pgoff` on every address, the mapping is a
bijection on the file, and every page is exactly once on the free list or
in use.

## Module `CopySwap` (with `MC_CopySwap`)

`CopySwap.tla` composes `NLMapper` (`NL == INSTANCE NLMapper`, sharing `nlm`)
with the slab as `slab_init` configures it for `PMLIB_USE_NLMAPPER=1`: the
fault handler calls `slab_entry_copynswap` and `slab_palloc` calls
`slab_bucket_copynswap`. State: the entries of one bucket (`se`: current and
snapshot address and file page), the bucket (`bkt`), `bsnap`
(`sb_has_snapshot`), the contents of each file page (`data`), and as history
`stored` (the last value stored in each entry) and `committed` (`stored` at
the last checkpoint).

| action | code |
|---|---|
| `Init` | `container_init`: `nlm_init` and the five pages of `slab_dir_init` |
| `slab_palloc` | `slab_palloc`: `slab_bucket_copynswap`, then `slab_entry_init` |
| `Store(e, v)` | a client store; the fault runs `handle_memory_update` → `slab_entry_copynswap` and unprotects the page |
| `Checkpoint` | `container_cpoint` → `slab_cpoint` with `EntryCpoint` per entry (`slab_entry_cpoint`): free the old snapshot, snapshot = current, protect read-only |

`BucketMapped` holds: the bucket's current and snapshot file offsets stay the
file pages its addresses show. `SnapshotDurable` is violated:
`slab_entry_copynswap` overwrites `snapshot.maddr` with the new page before
passing it to `page_allocator_swap_mappings`, so the swap does nothing,
`current.laddr` names the copy while stores still reach the old file page,
and the checkpoint frees the page that then holds the committed value.

`ImplementsHeap` holds: the value an entry's current address shows is the
abstract object's value (`heap <- [e |-> data[nlm.map[se[e].cur]]]`,
`saved <- committed`, `up <- pc = "run"`). So the defect loses only the
checkpoint. The running process never sees a copy or a swap. Its mutant
moves `current.maddr` to the copy as well, which hides the first store
after a checkpoint.

### Runs of these modules

| run | cfg | result | what it shows |
|---|---|---|---|
| root_codec | `MC_RootCodec.cfg` | pass | the codec agrees with its arithmetic reference (`PackMatchesReference`) |
| root_roundtrip | `MC_RootCodec_roundtrip.cfg` | violation | `slab.c:338`: a root inside a page does not round-trip |
| closure_safety | `MC_Closure.cfg` | pass, 155k states | with one field per allocation: only write-protects live entries (`TypeOK`), only reachable allocations promoted (`PromotedOnlyIfReachable`, an action property), no pointer page free or shared while an entry names it (`PtrPagesOwned`) |
| closure_abort | `MC_Closure_abort.cfg` | violation | `closure.c:267`: with two fields, a self-pointer of an unpromoted allocation is rebased onto NULL (`0x8`); when a later checkpoint promotes it, `do_insert_pointer` calls `handle_error` (`CheckpointNeverAborts`) |
| closure_complete | `MC_Closure_complete.cfg` | violation | `closure.c:252`: fields of an allocation promoted in the second loop stay unresolved |
| ptr_laddr_owned | `MC_Closure_laddr.cfg` | violation | `snapshot.c:60`: `se_ptr.snapshot.laddr` names a freed page |
| copyswap_safety | `MC_CopySwap.cfg` | pass, 51k states | `MapperConsistent` and `BucketMapped` across allocations, faults, growth, checkpoint frees and page reuse; the heap the client sees implements `PersistentHeap` (`ImplementsHeap`) |
| copyswap_durable | `MC_CopySwap_durable.cfg` | violation | `snapshot.c:81`: a checkpointed value is lost |

### Bounds of these modules

- `Closure`: two volatile addresses, three persistent objects, one global,
  one field per object, three pointer pages, two checkpoints and six
  client operations (eight for the violation runs). `MC_Closure_abort.cfg`
  gives each object two fields, so that a field can point into its own
  allocation at a non-zero offset, and cuts the instance to one volatile
  address, two persistent objects and no global to keep the state space
  small. With one field a pointer into an unpromoted allocation is rebased
  to offset 0, which is NULL, so the abort needs two. This is enough for an
  allocation to be promoted through a second allocation, for an entry to
  fault twice across a checkpoint, and for the pointer-page pool to run out.
- `CopySwap`: three entries, two values, three checkpoints, seven client
  operations, 16 file pages. The file grows twice (the five initial pages
  already grow it from 2 to 8), a second allocation in one epoch finds the
  bucket copied, and an entry faults in two epochs.

Each model stops with `BoundsReached` (a stuttering step) once the client
and checkpoint bounds are used up, so that deadlock checking stays on for
every other state.

## Fairness

No specification assumes fairness. Every property of every module is a
safety property: an invariant or an action property
(`PromotedOnlyIfReachable`, `ClosureComplete`), so their specifications
assume none.

## Defects seen while modelling that no run keeps

The project keeps at most one violation run for each defect area. These
defects were seen in counterexamples while the models were built. They are
listed as hazards without a property:

- `snapshot.c:66` (`slab_entry_snapshot`): after allocate, checkpoint and
  store, the data copy is recorded in the bucket page shared by the current
  and snapshot views, and restore's assertion fails. The run
  `durable_alloc_only` checks the same `Durable` property.
- `cont.c:155` (`container_restore`): the file is mapped read-only and the
  restart then stores `cont->pg_allocator` into the container page; the
  store faults, `handle_memory_update` finds no slab entry for page 0 and
  calls `handle_error`. The spec and `test_crash_recovery` expect restore
  to rebuild the heap; it never returns. `Restore` models it up to this
  store.
- `closure.c:229`: a persistent pointer changed after its first checkpoint
  keeps its old record, so `do_fixptrs` would restore the old target.
- `checkpoint.c:31`: `slab_bucket_cpoint` never copies `se_ptr.current.idx`
  to `snapshot.idx`, so the first fault after a checkpoint drops the entry's
  pointer records (`snapshot.c:59`).

## Not modelled, and the plan

- **Persistent pointer directory (`fixptr.c`):** it is dead code. Its only
  callers, `create_list` and `restore_list` in `tests/test_pptr.c`, are
  inside `#if 0`; the library records pointers with `do_insert_pointer` in
  `slab.c`, modelled in `Closure`. `do_fixptrs`, which reads the records
  back, runs only after a restore and is not modelled: `container_restore`
  dies at `cont.c:155` before it.
- **`freeat` and `slab_pfree`:** `freeat` is `handle_error("not implemented
  yet")` and `slab_pfree` is declared but never defined, so no object is
  ever freed.
- **The non-linear mapper's unused paths:** `remap_entire_file` is never
  selected (`Func_map_file` is always `map_appending`), `nlm_alloc_pages` is
  unimplemented, `nlm_close` only unmaps, and the per-page `is_nonlinear`
  flag is never read. `nlm_get_address` is a linear sum used by restore.
- **The pointer-page copy in `slab_entry_copynswap`** starts with
  `assert(0)`: an entry with pointer records aborts in the nl configuration.
  `CopySwap` has no pointer records.
- **Pointer-record overflow** (`slab.c:301`, a record index past the page)
  needs more records than the bounds give an entry.
- **The size-class list after a bucket is copied (`alloc.c:160`):**
  `slab_palloc` leaves a full entry on `es_list` after the bucket's copy
  and swap. This is harmless. The list is read only through
  `STAILQ_FIRST`, the stale entries are full, and no object is ever freed.
- **Flushes (`atomics.c`):** `pmemcpy` is `memcpy` followed by cache-line
  flushes. The file is mapped `MAP_SHARED`, and the fault model is a
  process kill, not a power failure. So the flushes change nothing the
  models can see, and `pmemcpy` is a plain copy.
- **Logging, statistics, debug output, benchmarks, the SQLite driver and the
  tests:** pure I/O or clients.

Next steps, in order:

1. Restart after restore: ids restarting at 0 (`slab.c:16`) and a crash
   inside `slab_inner_cpoint`. Both wait on `container_restore` getting past
   `cont.c:155`. A restart that completes would also let `ImplementsHeap`
   take `saved` from the file rather than from history.
2. `CopySwap` with several buckets and the inner-node copy and swap.
