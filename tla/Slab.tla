-------------------------------- MODULE Slab --------------------------------
(***************************************************************************)
(* The slab allocator of LibPM on one container file: slab_palloc, the     *)
(* copy-on-write SIGSEGV handler, stores of the caller into allocated      *)
(* objects, the checkpoint (container_cpoint) and the restart path         *)
(* (container_restore), over the fixed mapper page allocator.             *)
(*                                                                         *)
(* Every page of the file is one record that carries the fields of each    *)
(* struct LibPM lays on a page: a data page (in-page bitmap, objects), a   *)
(* slab_bucket (sb_has_snapshot, sb_id, sb_entries) and a container, dir,  *)
(* outer or inner node (index and current/snapshot slots).  A page reused  *)
(* for another purpose keeps the fields it had: nothing is cleared that    *)
(* the code does not clear.  Page numbers are logical addresses (laddr);   *)
(* with the fixed mapper maddr = start_addr + laddr, so pointers compare   *)
(* as page numbers.  0 is NULL and also CONTAINER_LIMA_ADDRESS.            *)
(*                                                                         *)
(* A crash kills the process: the file keeps every store, the free list,   *)
(* page protections, the used/size trees and the entry free list are lost. *)
(***************************************************************************)
EXTENDS Integers, Sequences, FiniteSets, SequencesExt, Bags

CONSTANTS
    NE,         \* entries per slab bucket (SLAB_BUCKET_ENTRIES)
    NI,         \* slots per container/dir/outer/inner node (SLAB_INNER_ENTRIES)
    Capacity,   \* objects per data page (SLAB_ENTRY_CAPACITY)
    Sizes,      \* sizes callers pass to slab_palloc, in bytes
    Vals,       \* values callers store into an object (0 is zeroed memory)
    MaxPages    \* bound: the container file never grows past MaxPages pages

PAGE_SIZE == 4096
SLAB_LARGE_ALLOC == 512
FM_FILE_PAGES == 2            \* FM_FILE_SIZE / PAGE_SIZE
CONTAINER_LIMA_ADDRESS == 0

ROUND8(x) == ((x + 7) \div 8) * 8

ASSUME /\ NE \in Nat \ {0} /\ NI \in Nat \ {0} /\ Capacity \in Nat \ {0}
       /\ Sizes \subseteq 1..PAGE_SIZE      \* larger sizes hit handle_error
       /\ 0 \notin Vals
       /\ MaxPages \in {2^i : i \in 3..8}   \* the file grows 2, 4, 8, ...

Pages    == 0..MaxPages-1
Slots    == 0..Capacity-1
Ix       == 0..NI-1
Ents     == 0..NE-1
Pos      == Ix \X Ents          \* <<bucket slot in the inner node, entry>>
Classes  == {ROUND8(s) : s \in Sizes}
NoEntry  == <<-1, -1>>
NULL     == [pg |-> 0, off |-> -1]
Addr     == [pg : Pages, off : Slots]
Prot     == {"R", "RW"}

(* struct slab_entry: se_size (0 until slab_entry_init), se_data current   *)
(* and snapshot pages, and se_data.current.bitmap, used for large sizes.   *)
ZeroEntry == [size |-> 0, cur |-> 0, snap |-> 0, bm |-> {}]
EntryRec  == [size : {0} \cup Classes, cur : Pages, snap : Pages,
              bm : SUBSET Slots]

ZeroPage == [bm |-> {}, val |-> [j \in Slots |-> 0],
             has |-> FALSE, sbid |-> 0, ents |-> [k \in Ents |-> ZeroEntry],
             idx |-> 0, cur |-> [i \in Ix |-> 0], snap |-> [i \in Ix |-> 0]]
PageRec  == [bm : SUBSET Slots, val : [Slots -> Vals \cup {0}],
             has : BOOLEAN, sbid : Nat, ents : [Ents -> EntryRec],
             idx : 0..NI, cur : [Ix -> Pages], snap : [Ix -> Pages]]

VARIABLES
    mem,        \* contents of the container file, page by page
    cflag,      \* CFLAG_CPOINT_IN_PROGRESS in the container's flags
    fileSize,   \* fm->file_size, in pages
    freeList,   \* fm->free_list, oldest first
    recProt,    \* fm->index[p]->prot_flags
    prot,       \* the protection the process has on each page
    sdFree,     \* sd->sd_free_list: entries never handed to a size class
    esHead,     \* STAILQ_FIRST(&es->es_list) for each size class
    used,       \* the entries in sd->sd_maddr_root (the used tree)
    nextSbId,   \* NEXT_SLAB_BUCKET_ID
    pc,         \* "run", "cp" (in container_cpoint) or "down" (no process)
    cpi,        \* loop index of slab_inner_cpoint
    committed,  \* history: the heap at the last checkpoint's start
    returned,   \* history: the addresses slab_palloc returned, as a bag
    ret         \* history: what the last slab_palloc returned

vars == <<mem, cflag, fileSize, freeList, recProt, prot, sdFree, esHead,
          used, nextSbId, pc, cpi, committed, returned, ret>>

-----------------------------------------------------------------------------
(* Walking the hierarchy from the container page. *)
DirPg(m)         == m[CONTAINER_LIMA_ADDRESS].cur[0]
OuterPg(m)       == m[DirPg(m)].cur[0]
InnerPg(m)       == m[OuterPg(m)].cur[0]
BucketPg(m, i)   == m[InnerPg(m)].cur[i]
Entry(m, q)      == m[BucketPg(m, q[1])].ents[q[2]]
LivePos(m)       == {q \in Pos : q[1] < m[InnerPg(m)].idx}

SLAB_ENTRY_IS_INIT(e) == e.size # 0 \/ e.cur # 0

(* SLAB_ENTRY_CBITMAP: in the entry for large sizes, else in the page. *)
CBitmap(m, e) == IF e.size >= SLAB_LARGE_ALLOC THEN e.bm ELSE m[e.cur].bm

slab_entry_full(m, e) == CBitmap(m, e) = Slots

(* The objects of the heap read from buckets bpg[i] of an inner node with *)
(* n slots in use: object <<q, j>> is bit j of entry q, with its value.   *)
HeapOf(m, n, bpg) ==
    LET objs == {<<q, j>> \in Pos \X Slots :
                   /\ q[1] < n
                   /\ SLAB_ENTRY_IS_INIT(m[bpg[q[1]]].ents[q[2]])
                   /\ j \in CBitmap(m, m[bpg[q[1]]].ents[q[2]])}
    IN [o \in objs |-> m[m[bpg[o[1][1]]].ents[o[1][2]].cur].val[o[2]]]

(* The live heap of the running process. *)
CurHeap(m) == HeapOf(m, m[InnerPg(m)].idx, m[InnerPg(m)].cur)

-----------------------------------------------------------------------------
(* The fixed mapper.  An allocator state is [free, size, rec, prot]. *)
PA == [free |-> freeList, size |-> fileSize, rec |-> recProt, prot |-> prot]

(* Mutant: the new pages are numbered from one past the old end. *)
fixed_mapper_grow_file_skip(pa) ==
    [pa EXCEPT !.free = [i \in 1..pa.size |-> pa.size + i],
               !.size = 2 * pa.size,
               !.prot = pa.rec]

(* fixed_mapper_grow_file doubles the file, the new pages go on the free *)
(* list in order; map_file(fm, 1) maps it READ again and update_mapping_prot *)
(* re-applies every page's recorded prot_flags.                           *)
fixed_mapper_grow_file(pa) ==
    [pa EXCEPT !.free = [i \in 1..pa.size |-> pa.size + i - 1],
               !.size = 2 * pa.size,
               !.prot = pa.rec]

(* fixed_mapper_alloc_page: the page at the head of the free list; only *)
(* a writable request is mprotect'ed.                                     *)
fixed_mapper_alloc_page(pa, flags) ==
    LET g == IF pa.free = <<>> THEN fixed_mapper_grow_file(pa) ELSE pa
        p == Head(g.free)
    IN [pg |-> p,
        pa |-> [g EXCEPT !.free = Tail(g.free),
                         !.rec[p] = flags,
                         !.prot[p] = IF flags = "RW" THEN "RW" ELSE g.prot[p]]]

(* fixed_mapper_freepages: the page goes after free_list.last, at the  *)
(* tail; nothing checks that it is not already on the list.             *)
fixed_mapper_freepages(free, pg) == Append(free, pg)

\* page_allocator_freepages on each page of pgs, in order.
FreePages(free, pgs) == FoldLeft(fixed_mapper_freepages, free, pgs)

(* Bound: an operation that may take n pages runs only if the file can *)
(* supply them without growing past MaxPages.                            *)
FileRoom(n) == Len(freeList) >= n \/ 2 * fileSize <= MaxPages

(* The allocator at the start of the process (container_init on a new  *)
(* file): fixed_mapper_init grows the empty file to FM_FILE_SIZE and maps *)
(* it READ.                                                              *)
NewFilePA == [free |-> [i \in 1..FM_FILE_PAGES |-> i - 1],
              size |-> FM_FILE_PAGES,
              rec  |-> [p \in Pages |-> "R"],
              prot |-> [p \in Pages |-> "R"]]

-----------------------------------------------------------------------------
(* One operation's effect, threaded through the calls it makes: ok is   *)
(* FALSE once handle_error has killed the process.                       *)
St(m, pa) == [ok |-> TRUE, mem |-> m, pa |-> pa, taken |-> FALSE, addr |-> NULL]

(* Mutant: the copy becomes the entry's current page instead of its *)
(* snapshot.                                                         *)
slab_entry_snapshot_moves_current(st, q) ==
    LET e  == Entry(st.mem, q)
        a  == fixed_mapper_alloc_page(st.pa, "RW")
        sb == BucketPg(st.mem, q[1])
    IN [st EXCEPT !.pa  = a.pa,
                  !.mem = [st.mem EXCEPT ![a.pg] = st.mem[e.cur],
                                         ![sb].ents[q[2]].cur = a.pg]]

slab_entry_snapshot(st, q) ==
    LET e  == Entry(st.mem, q)
        a  == fixed_mapper_alloc_page(st.pa, "RW")
        sb == BucketPg(st.mem, q[1])
    IN [st EXCEPT !.pa  = a.pa,
                  !.mem = [st.mem EXCEPT ![a.pg] = st.mem[e.cur],
                                         ![sb].ents[q[2]].snap = a.pg]]

(* handle_memory_update: a write to read-only page p.  The used tree is *)
(* searched for the entry whose current data page is p; if there is none *)
(* the handler calls handle_error.  Otherwise the page is copied and made *)
(* writable.                                                              *)
handle_memory_update(st, tree, p) ==
    LET hits == {q \in tree : Entry(st.mem, q).cur = p}
    IN IF hits = {} THEN [st EXCEPT !.ok = FALSE]
       ELSE LET s == slab_entry_snapshot(st, CHOOSE q \in hits : TRUE)
            IN [s EXCEPT !.pa.prot[p] = "RW"]

(* A store to page p: it faults when the page is read-only. *)
StoreFault(st, tree, p) ==
    IF st.pa.prot[p] = "RW" THEN st ELSE handle_memory_update(st, tree, p)

-----------------------------------------------------------------------------
(* slab_bucket_snapshot: the slot of the bucket in its inner node is     *)
(* computed from sb_id as the code does (si_id = sb_id / SLAB_INNER_ENTRIES); *)
(* if that slot's current and snapshot pages are the same, the bucket is  *)
(* copied to a new page that becomes the slot's snapshot.                 *)
slab_bucket_snapshot(st, sb) ==
    LET m      == st.mem
        si_id  == m[sb].sbid \div NI
        so_id  == si_id \div NI
        so_idx == si_id % NI
        sd_idx == so_id % NI
        si     == m[m[DirPg(m)].cur[sd_idx]].cur[so_idx]
        a      == fixed_mapper_alloc_page(st.pa, "RW")
    IN IF m[si].cur[si_id] = m[si].snap[si_id]
       THEN [st EXCEPT !.pa = a.pa,
                       !.mem = [m EXCEPT ![a.pg] = m[sb],
                                         ![si].snap[si_id] = a.pg],
                       !.taken = TRUE]
       ELSE [st EXCEPT !.taken = FALSE]

(* slab_entry_init: a data page (requested READ) becomes the entry's    *)
(* current and snapshot page; neither the page nor the entry's bitmap is *)
(* cleared.                                                              *)
slab_entry_init(st, sb, k, size8) ==
    LET a == fixed_mapper_alloc_page(st.pa, "R")
    IN [st EXCEPT !.pa = a.pa,
                  !.mem[sb].ents[k] = [@ EXCEPT !.size = size8, !.cur = a.pg,
                                                !.snap = a.pg]]

(* Mutant: the search does not look at the bitmap. *)
FirstClearIgnoresBitmap(bm) == Min(Slots)

(* bit_ffc: the first clear bit of the bitmap. *)
FirstClear(bm) == Min(Slots \ bm)

(* slab_entry_alloc_mem: the first clear bit is set and the object's     *)
(* address returned; a full bitmap returns NULL.  A small size's bitmap  *)
(* is in the data page, so setting the bit is a store that may fault.   *)
slab_entry_alloc_mem(st, tree, q) ==
    LET e   == Entry(st.mem, q)
        bm  == CBitmap(st.mem, e)
        idx == FirstClear(bm)
        sb  == BucketPg(st.mem, q[1])
        f   == StoreFault(st, tree, e.cur)
    IN IF bm = Slots THEN [st EXCEPT !.addr = NULL]
       ELSE IF e.size >= SLAB_LARGE_ALLOC
       THEN [st EXCEPT !.mem[sb].ents[q[2]].bm = bm \cup {idx},
                       !.addr = [pg |-> e.cur, off |-> idx]]
       ELSE IF ~f.ok THEN f
       ELSE [f EXCEPT !.mem[e.cur].bm = @ \cup {idx},
                      !.addr = [pg |-> e.cur, off |-> idx]]

(* The next state from an operation's result; a failed one leaves the   *)
(* stores it made before handle_error and no process.                   *)
Apply(st) ==
    /\ mem' = st.mem
    /\ freeList' = st.pa.free
    /\ fileSize' = st.pa.size
    /\ recProt' = st.pa.rec
    /\ prot' = st.pa.prot

Abort(st) ==
    /\ Apply(st)
    /\ pc' = "down"
    /\ UNCHANGED <<cflag, sdFree, esHead, used, nextSbId, cpi, committed,
                   returned, ret>>

(* slab_inner_snapshot: the inner node si is copied to a new page that *)
(* becomes the snapshot in slot 0 of outer node o.                       *)
slab_inner_snapshot(st, si, o) ==
    LET a == fixed_mapper_alloc_page(st.pa, "RW")
    IN [st EXCEPT !.pa = a.pa,
                  !.mem = [st.mem EXCEPT ![a.pg] = st.mem[si],
                                         ![o].snap[0] = a.pg]]

(* get_free_slab_entry: the first entry of sd_free_list; when the list  *)
(* is empty, the inner node is first copied if its outer slot does not  *)
(* have a snapshot yet, and slab_bucket_init adds a zeroed bucket with   *)
(* the next sb_id to the inner node (current = snapshot) and queues its  *)
(* entries.  Result: the state, the entry, the rest of the free list.   *)
get_free_slab_entry(st, free, id) ==
    LET m   == st.mem
        o   == OuterPg(m)
        si  == InnerPg(m)
        n   == m[si].idx
        st1 == IF m[o].cur[0] = m[o].snap[0] THEN slab_inner_snapshot(st, si, o)
               ELSE st
        a   == fixed_mapper_alloc_page(st1.pa, "RW")
        new == [i \in 1..NE |-> <<n, i - 1>>]
    IN IF free # <<>> THEN [st |-> st, q |-> Head(free), free |-> Tail(free)]
       ELSE [st   |-> [st1 EXCEPT !.pa = a.pa,
                                  !.mem = [st1.mem EXCEPT
                                     ![a.pg] = [ZeroPage EXCEPT !.sbid = id],
                                     ![si].cur[n] = a.pg,
                                     ![si].snap[n] = a.pg,
                                     ![si].idx = n + 1]],
             q    |-> Head(new),
             free |-> Tail(new)]

(* slab_palloc, whole: the size class's first entry, or an entry from   *)
(* get_free_slab_entry when it is full or the class is new; the bucket  *)
(* snapshot, whose result overwrites sb_has_snapshot; the entry's       *)
(* initialisation and insertion in the used tree; the allocation.  The   *)
(* STAILQ_INSERT_TAIL of a full entry leaves it first in its list.       *)
slab_palloc(size) ==
    LET size8 == ROUND8(size)
        head  == esHead[size8]
        fresh == head = NoEntry \/ slab_entry_full(mem, Entry(mem, head))
        g     == IF fresh THEN get_free_slab_entry(St(mem, PA), sdFree, nextSbId)
                 ELSE [st |-> St(mem, PA), q |-> head, free |-> sdFree]
        q     == g.q
        sb    == BucketPg(g.st.mem, q[1])
        st1   == slab_bucket_snapshot(g.st, sb)
        st2   == [st1 EXCEPT !.mem[sb].has = st1.taken]
        init  == ~SLAB_ENTRY_IS_INIT(st2.mem[sb].ents[q[2]])
        st3   == IF init THEN slab_entry_init(st2, sb, q[2], size8) ELSE st2
        tree  == IF init THEN used \cup {q} ELSE used
        st4   == slab_entry_alloc_mem(st3, tree, q)
        grow  == fresh /\ sdFree = <<>>
    IN /\ pc = "run"
       /\ grow => mem[InnerPg(mem)].idx < NI   \* bound: one inner node
       /\ FileRoom(5)
       /\ IF st4.ok
          THEN /\ Apply(st4)
               /\ sdFree' = g.free
               /\ esHead' = [esHead EXCEPT ![size8] = q]
               /\ used' = tree
               /\ nextSbId' = IF grow THEN nextSbId + 1 ELSE nextSbId
               /\ ret' = st4.addr
               /\ returned' = IF st4.addr = NULL THEN returned
                              ELSE returned (+) SetToBag({st4.addr})
               /\ UNCHANGED <<pc, cflag, cpi, committed>>
          ELSE Abort(st4)

(* The caller stores v into an object palloc returned; the store faults *)
(* into handle_memory_update when the page is read-only.                *)
Store(a, v) ==
    LET st == StoreFault(St(mem, PA), used, a.pg)
    IN /\ pc = "run"
       /\ FileRoom(1)
       /\ IF st.ok
          THEN /\ Apply([st EXCEPT !.mem[a.pg].val[a.off] = v])
               /\ UNCHANGED <<cflag, sdFree, esHead, used, nextSbId, pc, cpi,
                              committed, returned, ret>>
          ELSE Abort(st)

-----------------------------------------------------------------------------
(* container_cpoint up to slab_cpoint: the in-progress flag is set.     *)
(* Func_compute_closure finds no pointers (no entry has a pointer page). *)
(* The heap as of this point is what the checkpoint commits.            *)
CpBegin ==
    /\ pc = "run"
    /\ pc' = "cp"
    /\ cflag' = TRUE
    /\ cpi' = 0
    /\ committed' = CurHeap(mem)
    /\ UNCHANGED <<mem, fileSize, freeList, recProt, prot, sdFree, esHead,
                   used, nextSbId, returned, ret>>

(* Mutant: the check that the data page was copied is dropped. *)
DivergedUnchecked(e) == TRUE

(* An entry whose data page was copied since the last checkpoint. *)
Diverged(e) == e.cur # e.snap

(* slab_bucket_cpoint on bucket page sb: for each initialised entry, in  *)
(* order, a copied data page's snapshot is freed and the current page    *)
(* becomes the snapshot; every current data page is made read-only.      *)
(* Result: the new page, the pages freed in order, the pages protected.  *)
slab_bucket_cpoint(m, sb) ==
    LET ents  == m[sb].ents
        live  == {k \in Ents : SLAB_ENTRY_IS_INIT(ents[k])}
        moved == SetToSortSeq({k \in live : Diverged(ents[k])}, <)
    IN [page  |-> [m[sb] EXCEPT !.ents = [k \in Ents |->
                      IF k \in live THEN [ents[k] EXCEPT !.snap = ents[k].cur]
                      ELSE ents[k]]],
        freed |-> [i \in 1..Len(moved) |-> ents[moved[i]].snap],
        ro    |-> {ents[k].cur : k \in live}]

(* One iteration of slab_inner_cpoint: a bucket with sb_has_snapshot set *)
(* is checkpointed, its snapshot page is freed and replaced by the       *)
(* current page, and the flag is cleared.                                *)
slab_inner_cpoint ==
    LET si == InnerPg(mem)
        sb == mem[si].cur[cpi]
        r  == slab_bucket_cpoint(mem, sb)
    IN /\ pc = "cp"
       /\ cpi < mem[si].idx
       /\ IF mem[sb].has
          THEN /\ mem' = [mem EXCEPT ![sb] = [r.page EXCEPT !.has = FALSE],
                                     ![si].snap[cpi] = mem[si].cur[cpi]]
               /\ freeList' = FreePages(freeList, r.freed \o <<mem[si].snap[cpi]>>)
               /\ prot' = [p \in Pages |-> IF p \in r.ro THEN "R" ELSE prot[p]]
          ELSE UNCHANGED <<mem, freeList, prot>>
       /\ cpi' = cpi + 1
       /\ UNCHANGED <<cflag, fileSize, recProt, sdFree, esHead, used, nextSbId, pc,
                      committed, returned, ret>>

(* The node levels above the inner node (slab_outer_cpoint, slab_dir_cpoint, *)
(* container_cpoint_aux): slot 0 of node page pg takes its current page  *)
(* as snapshot when they differ, and the old snapshot is freed.          *)
ReconcileSlot(m, pg) == [m EXCEPT ![pg].snap[0] = m[pg].cur[0]]
SlotFreed(m, pg) == IF m[pg].cur[0] # m[pg].snap[0] THEN <<m[pg].snap[0]>>
                    ELSE <<>>

(* The rest of container_cpoint after the inner node's buckets: outer,  *)
(* dir and container slots, then the in-progress flag is cleared.       *)
CpEnd ==
    LET o  == OuterPg(mem)
        d  == DirPg(mem)
        c  == CONTAINER_LIMA_ADDRESS
        m1 == ReconcileSlot(mem, o)
        m2 == ReconcileSlot(m1, d)
    IN /\ pc = "cp"
       /\ cpi = mem[InnerPg(mem)].idx
       /\ mem' = ReconcileSlot(m2, c)
       /\ freeList' = FreePages(freeList, SlotFreed(mem, o) \o SlotFreed(m1, d)
                                               \o SlotFreed(m2, c))
       /\ cflag' = FALSE
       /\ pc' = "run"
       /\ UNCHANGED <<fileSize, recProt, prot, sdFree, esHead, used, nextSbId, cpi,
                      committed, returned, ret>>

(* The process is killed at any point between two operations or two     *)
(* steps of a checkpoint; the file keeps every store.                    *)
Crash ==
    /\ pc \in {"run", "cp"}
    /\ pc' = "down"
    /\ UNCHANGED <<mem, cflag, fileSize, freeList, recProt, prot, sdFree,
                   esHead, used, nextSbId, cpi, committed, returned, ret>>

(* container_restore in a new process: page_allocator_init maps the     *)
(* existing file READ with an empty free list, the volatile lists and    *)
(* counters start empty, and the container page is mapped and its       *)
(* pg_allocator field written.  That store faults; the handler looks page *)
(* 0 up in the used tree reached through the container page, which holds *)
(* no entry for it, and calls handle_error: again no process.  A restore *)
(* that got past this store would disable the action.                    *)
Restore ==
    LET pa == [free |-> <<>>, size |-> fileSize,
               rec |-> [p \in Pages |-> "R"], prot |-> [p \in Pages |-> "R"]]
        st == StoreFault(St(mem, pa), used, CONTAINER_LIMA_ADDRESS)
    IN /\ pc = "down"
       /\ ~st.ok
       /\ Apply(st)
       /\ sdFree' = <<>>
       /\ esHead' = [c \in Classes |-> NoEntry]
       /\ nextSbId' = 0
       /\ returned' = EmptyBag
       /\ ret' = NULL
       /\ UNCHANGED <<cflag, used, pc, cpi, committed>>

-----------------------------------------------------------------------------
(* container_init on a new file: the container page, then slab_dir_init *)
(* takes the dir, outer, inner and first bucket pages, all writable, and *)
(* links each node's slot 0 (current = snapshot) to the next.  All       *)
(* entries of the first bucket are on sd_free_list, in order.           *)
InitAlloc ==
    LET a0 == fixed_mapper_alloc_page(NewFilePA, "RW")
        a1 == fixed_mapper_alloc_page(a0.pa, "RW")
        a2 == fixed_mapper_alloc_page(a1.pa, "RW")
        a3 == fixed_mapper_alloc_page(a2.pa, "RW")
        a4 == fixed_mapper_alloc_page(a3.pa, "RW")
    IN [pgs |-> <<a0.pg, a1.pg, a2.pg, a3.pg, a4.pg>>, pa |-> a4.pa]

Node(next) == [ZeroPage EXCEPT !.idx = 1, !.cur[0] = next, !.snap[0] = next]

Init ==
    LET r == InitAlloc
        g == r.pgs
    IN /\ mem = [p \in Pages |->
                   CASE p = g[1] -> [Node(g[2]) EXCEPT !.idx = 0]
                     [] p = g[2] -> Node(g[3])
                     [] p = g[3] -> Node(g[4])
                     [] p = g[4] -> Node(g[5])
                     [] OTHER    -> ZeroPage]
       /\ cflag = FALSE
       /\ fileSize = r.pa.size
       /\ freeList = r.pa.free
       /\ recProt = r.pa.rec
       /\ prot = r.pa.prot
       /\ sdFree = [i \in 1..NE |-> <<0, i - 1>>]
       /\ esHead = [c \in Classes |-> NoEntry]
       /\ used = {}
       /\ nextSbId = 1
       /\ pc = "run"
       /\ cpi = 0
       /\ committed = CurHeap(mem)
       /\ returned = EmptyBag
       /\ ret = NULL

Next ==
    \/ \E size \in Sizes : slab_palloc(size)
    \/ \E a \in BagToSet(returned), v \in Vals : Store(a, v)
    \/ CpBegin
    \/ slab_inner_cpoint
    \/ CpEnd
    \/ Crash
    \/ Restore

Spec == Init /\ [][Next]_vars

-----------------------------------------------------------------------------
(* The pages the slots in use of node pages S point to, through the    *)
(* given sides ("cur", "snap").                                          *)
Below(m, S, sides) ==
    {m[y[1]][y[3]][y[2]] :
        y \in {z \in S \X Ix \X sides : z[2] < m[z[1]].idx}}

(* Every page the file's structures reference: the container, the dirs, *)
(* outers and inners reached through the given sides, both slots of      *)
(* those inners (buckets and their copies), and the current and snapshot *)
(* data pages of the initialised entries of all those buckets.  While a  *)
(* checkpoint runs, the old snapshot above the buckets is dismantled     *)
(* bottom-up and only the current side is still in use.                  *)
Referenced(m, sides) ==
    LET c  == CONTAINER_LIMA_ADDRESS
        ds == {m[c][s][0] : s \in sides}
        os == Below(m, ds, sides)
        is == Below(m, os, sides)
        bs == Below(m, is, {"cur", "snap"})
        es == {m[b].ents[k] : b \in bs, k \in Ents}
    IN {c} \cup ds \cup os \cup is \cup bs \cup
       UNION {{e.cur, e.snap} : e \in {x \in es : SLAB_ENTRY_IS_INIT(x)}}

(* What slab_map followed by the rest of container_restore would rebuild *)
(* from file image m: with the in-progress flag set, the current view   *)
(* (CPOINT_INCOMPLETE, then a checkpoint); without it, the snapshot view *)
(* (CPOINT_COMPLETE), which aborts on NOT_CS_CONSISTENT slots and on the *)
(* assertion that an entry's current and snapshot data pages agree.     *)
NOT_CS_CONSISTENT(c, s) == (c # 0) # (s # 0)

Recover(m, flag) ==
    LET side == IF flag THEN "cur" ELSE "snap"
        d    == m[CONTAINER_LIMA_ADDRESS][side][0]
        o    == m[d][side][0]
        n    == m[o][side][0]
        bpg  == m[n][side]
        ok   == /\ \A x \in {d, o, n} : \A i \in {j \in Ix : j < m[x].idx} :
                      ~NOT_CS_CONSISTENT(m[x].cur[i], m[x].snap[i])
                /\ ~flag => \A q \in Pos :
                      LET e == m[bpg[q[1]]].ents[q[2]]
                      IN q[1] < m[n].idx /\ SLAB_ENTRY_IS_INIT(e)
                         => e.cur = e.snap
    IN IF ok THEN [ok |-> TRUE, heap |-> HeapOf(m, m[n].idx, bpg)]
       ELSE [ok |-> FALSE, heap |-> <<>>]

-----------------------------------------------------------------------------
TypeOK ==
    /\ mem \in [Pages -> PageRec]
    /\ cflag \in BOOLEAN
    /\ fileSize \in {2^i : i \in 1..8} /\ fileSize <= MaxPages
    /\ freeList \in Seq(Pages)
    /\ recProt \in [Pages -> Prot] /\ prot \in [Pages -> Prot]
    /\ sdFree \in Seq(Pos)
    /\ esHead \in [Classes -> Pos \cup {NoEntry}]
    /\ used \subseteq Pos
    /\ nextSbId \in 0..NI
    /\ pc \in {"run", "cp", "down"}
    /\ cpi \in 0..NI
    /\ IsABag(returned) /\ BagToSet(returned) \subseteq Addr
    /\ ret \in Addr \cup {NULL}

(* Page ownership (fixed_mapper_freepages, slab_bucket_cpoint,          *)
(* slab_inner_cpoint): while a process runs, its free list holds each    *)
(* page once and no page that the file's structures still reference:    *)
(* both views between checkpoints, the current one during a checkpoint. *)
FreePagesUnowned ==
    LET sides == IF pc = "cp" THEN {"cur"} ELSE {"cur", "snap"}
    IN pc # "down" =>
        /\ IsInjective(freeList)
        /\ ToSet(freeList) \cap Referenced(mem, sides) = {}

(* slab_palloc never hands out the same object twice (no free exists):  *)
(* each address it returned, it returned once.                          *)
AllocFresh ==
    \A a \in BagToSet(returned) : CopiesIn(a, returned) = 1

(* Every address slab_palloc returned stays an allocated object of the  *)
(* live heap, through copy-on-write faults, file growth and checkpoints: *)
(* its page is the current data page of an initialised entry whose      *)
(* bitmap has the object's bit set.                                     *)
AllocationsStayLive ==
    pc # "down" =>
        \A a \in BagToSet(returned) : \E q \in LivePos(mem) :
            LET e == Entry(mem, q)
            IN SLAB_ENTRY_IS_INIT(e) /\ e.cur = a.pg /\ a.off \in CBitmap(mem, e)

(* Crash consistency (spec: a restart recovers the last checkpoint): at *)
(* every point, restoring the file image rebuilds exactly the heap the  *)
(* last checkpoint committed, or the current heap while that checkpoint *)
(* is still in progress.                                                 *)
Durable == Recover(mem, cflag) = [ok |-> TRUE, heap |-> committed]

(* The running process's heap is a heap (PersistentHeap): slab_palloc   *)
(* adds exactly the object it returns and leaves every other object and  *)
(* value alone, through the copy-on-write faults bit_set may take; a     *)
(* store changes only its object, whether or not it faults and copies    *)
(* the page; the steps of a checkpoint, with their frees, swaps of        *)
(* current and snapshot slots and reprotection, change no object; and    *)
(* what the checkpoint saves is the heap at its start.  The heap is read  *)
(* from the file through the current side, as the process reaches it.    *)
Heap == INSTANCE PersistentHeap
            WITH Objs <- Pos \X Slots, Vals <- Vals \cup {0},
                 heap <- CurHeap(mem), saved <- committed, up <- pc # "down"

ImplementsHeap == Heap!Spec

=============================================================================
