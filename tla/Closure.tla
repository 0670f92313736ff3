------------------------------ MODULE Closure ------------------------------
(***************************************************************************)
(* The pointer closure that container_cpoint runs before it commits        *)
(* (cont.c compute_closure, closure.c), with the per-entry pointer records *)
(* it writes (slab.c do_insert_pointer) and reads back after a restart     *)
(* (slab.c do_fixptrs).                                                    *)
(*                                                                         *)
(* A client allocates volatile objects and registers each of them with     *)
(* mallocat, allocates persistent objects with container_palloc, declares  *)
(* pointer fields with pointerat and stores pointers.  At a checkpoint the *)
(* closure moves every registered volatile object that a persistent        *)
(* pointer reaches into the container and rebases the pointers to it.     *)
(*                                                                         *)
(* Data is abstracted to the pointer fields.  An object is a model value:  *)
(* a volatile address (VAddrs, reused by malloc once freed), a persistent  *)
(* object (PObjs, one object per slab entry, so the entry's data page, its *)
(* dirty flag and its pointer records are the object's) or a global.  A   *)
(* pointer is <<object, field>>; the hash-table order in which htable      *)
(* walks its keys is one fixed order of the locations.                     *)
(*                                                                         *)
(* All entries share one slab bucket.  The bucket, the entries' data-page  *)
(* protection and their pointer pages (a pool PtrPgs of pages, each the    *)
(* same page number for maddr and laddr) follow the copy-on-write of      *)
(* snapshot.c and the reconciliation of checkpoint.c.                      *)
(***************************************************************************)
EXTENDS Naturals, Sequences, SequencesExt, FiniteSets

CONSTANTS
    VAddrs,      \* addresses malloc returns
    PObjs,       \* objects container_palloc returns, in this order
    Globals,     \* objects outside both heaps (static variables)
    NumFields,   \* pointer-sized fields per object
    MaxCp,       \* bound: checkpoints
    MaxOps,      \* bound: client operations
    PtrPgs,      \* bound: pages the page allocator hands out for se_ptr
    NULL,        \* the null pointer
    NoObj,       \* a NULL base address (mallocat_entry.paddr unset)
    NoPg         \* a NULL se_ptr maddr, laddr 0

ASSUME /\ NumFields \in 1..3
       /\ MaxCp \in Nat /\ MaxOps \in Nat
       /\ VAddrs \cap PObjs = {} /\ (VAddrs \cup PObjs) \cap Globals = {}

Objs   == VAddrs \cup PObjs \cup Globals
Fields == 0..NumFields - 1
Loc    == Objs \X Fields
Ptr    == (VAddrs \cup PObjs) \X Fields
\* PTR_REBASE onto a NULL base yields the field's byte offset: a pointer
\* <<NoObj, f>> into the first page, which is NULL itself for offset 0.
Wild   == {NoObj} \X (Fields \ {0})
Value  == {NULL} \cup Ptr \cup Wild

Obj(l) == l[1]
IsPtr(v) == v # NULL /\ v[1] # NoObj

\* The order htable_foreach and htable_filter visit keys in.
ObjOrder == SetToSeq(Objs)
LocOrder == [i \in 1..Len(ObjOrder) * NumFields |->
                <<ObjOrder[(i - 1) \div NumFields + 1], (i - 1) % NumFields>>]
InOrder(S) == SelectSeq(LocOrder, LAMBDA l : l \in S)

\* htable_insert: a key already in the table keeps its entry (only the
\* value is replaced), so a table of keys is a set.
htable_insert(T, k) == T \cup {k}

NoTreeEntry == [in |-> FALSE, paddr |-> NoObj, ptrs |-> {}]

\* slab_entry_init: both se_ptr sides have no page, index 0.
NoSePtr == [cur |-> NoPg, curl |-> NoPg, idx |-> 0,
            snap |-> NoPg, snapl |-> NoPg, sidx |-> 0]

\* The first idx records of the current pointer page of entry p.
Recs(S, p) == IF S.septr[p].cur = NoPg THEN <<>>
              ELSE SubSeq(S.ppage[S.septr[p].cur], 1, S.septr[p].idx)

VARIABLES
    mem,      \* the contents of every pointer field
    vlive,    \* volatile objects malloc'd and not freed
    plive,    \* persistent objects allocated (used slab entries)
    htm,      \* ht_mallocat: registered volatile allocations
    htp,      \* ht_pointerat: registered pointer locations
    tree,     \* mallocat_tree: one mallocat_entry per registered address
    pvec,     \* pptr_vec: persistent pointer locations still to resolve
    dirty,    \* sd_vector: entries copied on write in this epoch
    ro,       \* entries whose data page is mapped read-only
    bcopied,  \* si_current != si_snapshot for the bucket: copied this epoch
    bsnap,    \* sb_has_snapshot
    septr,    \* se_ptr of each entry: current and snapshot maddr/laddr/idx
    ppage,    \* the records held by each pointer page
    pfree,    \* pointer pages free in the page allocator
    pc,       \* run, or down after handle_error
    cps,      \* checkpoints taken
    ops       \* client operations taken

vars == <<mem, vlive, plive, htm, htp, tree, pvec, dirty, ro, bcopied, bsnap,
          septr, ppage, pfree, pc, cps, ops>>

-----------------------------------------------------------------------------
(* The closure, as operators on a record S of the state it touches.  An   *)
(* error ends it: "abort" is handle_error, "bound" a model bound.          *)

\* handle_memory_update on a store to the read-only data page of entry o:
\* slab_entry_snapshot appends o to sd_vector and, if o has a snapshot
\* pointer page, copies it into a new page that becomes current, with the
\* snapshot's idx; the laddr copy goes from current into the new page's
\* local (snapshot.c:60), so current.laddr keeps naming the old page.  The
\* page is then mapped writable.
Fault(S, o) ==
    IF o \notin S.ro THEN S
    ELSE LET S1 == [S EXCEPT !.dirty = Append(@, o), !.ro = @ \ {o}]
             sp == S.septr[o]
         IN  IF sp.snap = NoPg THEN S1
             ELSE IF S.pfree = {} THEN [S EXCEPT !.err = "bound"]
             ELSE LET np == CHOOSE x \in S.pfree : TRUE
                  IN  [S1 EXCEPT !.pfree = @ \ {np},
                                 !.ppage[np] = S.ppage[sp.snap],
                                 !.septr[o].idx = sp.sidx,
                                 !.septr[o].cur = np]

\* A store to location l: the fault, if any, then the store itself.
Write(S, l, v) ==
    LET S1 == Fault(S, Obj(l))
    IN  IF S1.err # "none" THEN S1 ELSE [S1 EXCEPT !.mem[l] = v]

\* PTR_REBASE(e->addr, ptr, e->paddr) for a pointer into allocation e.
Rebase(v, base) == IF base = NoObj /\ v[2] = 0 THEN NULL ELSE <<base, v[2]>>

\* SPLAY_FIND of an address in mallocat_tree: the allocation holding it.
TreeFind(S, v) ==
    IF IsPtr(v) /\ v[1] \in VAddrs /\ S.tree[v[1]].in THEN v[1] ELSE NoObj

\* build_mallocat_tree: an entry for every ht_mallocat key; SPLAY_INSERT
\* keeps the existing entry when the address is already in the tree.
build_mallocat_tree(S) ==
    [S EXCEPT !.tree = [a \in VAddrs |->
                          IF a \in S.htm /\ ~S.tree[a].in
                          THEN [NoTreeEntry EXCEPT !.in = TRUE]
                          ELSE S.tree[a]]]

\* classify_pointers: a location in a tree allocation is appended to its
\* ptrs and kept; one in a persistent data page (slab_find) is appended to
\* pptr_vec and removed; any other is kept as a back reference.
classify_pointers(S) ==
    LET inTree == {l \in S.htp : Obj(l) \in VAddrs /\ S.tree[Obj(l)].in}
        inPM   == {l \in S.htp \ inTree : Obj(l) \in S.plive}
    IN  [S EXCEPT
            !.tree = [a \in VAddrs |->
                        [S.tree[a] EXCEPT !.ptrs = @ \cup
                                              {l \in inTree : Obj(l) = a}]],
            !.pvec = @ \o InOrder(inPM),
            !.htp  = @ \ inPM]

\* The object slab_palloc returns next: a fresh entry.
NextPObj(S) == CHOOSE x \in PObjs \ S.plive : TRUE

\* slab_palloc: sb_has_snapshot is overwritten with the result of
\* slab_bucket_snapshot, which copies the bucket, and returns 1, only if
\* it has no copy in this epoch (alloc.c:151); slab_entry_init then gives
\* the fresh entry a read-only data page and no pointer pages.
slab_palloc(S) ==
    IF PObjs \subseteq S.plive THEN [S EXCEPT !.err = "bound"]
    ELSE LET p == NextPObj(S)
         IN  [S EXCEPT !.bsnap = ~S.bcopied, !.bcopied = TRUE,
                       !.plive = @ \cup {p}, !.ro = @ \cup {p},
                       !.septr[p] = NoSePtr]

\* The branch of persist_valloc that moves allocation a: container_palloc,
\* pmemcpy (which faults on the new entry's page), free, and the rebased
\* ptrs of a appended to pptr_vec and removed from ht_pointerat.
Promote(S, a) ==
    LET p  == NextPObj(S)
        S1 == slab_palloc(S)
        S2 == Fault(S1, p)
        ptrs == S.tree[a].ptrs
    IN  IF S1.err # "none" THEN S1
        ELSE IF S2.err # "none" THEN S2
        ELSE [S2 EXCEPT
                !.mem   = [l \in Loc |-> IF Obj(l) = p THEN S.mem[<<a, l[2]>>]
                                         ELSE S.mem[l]],
                !.vlive = @ \ {a},
                !.pvec  = @ \o InOrder({<<p, l[2]>> : l \in ptrs}),
                !.htp   = @ \ ptrs,
                !.tree[a].paddr = p]

\* persist_valloc: if *ptr_loc lies in a tree allocation, move it unless it
\* has been moved, then rebase *ptr_loc to its persistent copy.
persist_valloc(S, l) ==
    LET a == TreeFind(S, S.mem[l]) IN
    IF a = NoObj THEN S
    ELSE LET S1 == IF S.tree[a].paddr = NoObj THEN Promote(S, a) ELSE S
         IN  IF S1.err # "none" THEN S1
             ELSE Write(S1, l, Rebase(S1.mem[l], S1.tree[a].paddr))

\* Record k of a pointer page: written in place, or appended past its end.
PutRec(pg, k, r) == IF k > Len(pg) THEN Append(pg, r) ELSE [pg EXCEPT ![k] = r]

\* do_insert_pointer: the entry holding ptr_loc gets a current pointer page
\* if it has none; then (ploc_offset, pval_seid, pval_offset) is written at
\* current.idx, which is incremented.  The target must be a used entry's
\* data page or NULL, otherwise handle_error.
do_insert_pointer(S, l) ==
    LET v == S.mem[l]
        o == Obj(l)
        np == CHOOSE x \in S.pfree : TRUE
        S1 == IF S.septr[o].cur # NoPg THEN S
              ELSE [S EXCEPT !.pfree = @ \ {np}, !.ppage[np] = <<>>,
                             !.septr[o].cur = np, !.septr[o].curl = np]
        sp == S1.septr[o]
    IN  IF o \notin S.plive THEN [S EXCEPT !.err = "abort"]
        ELSE IF S.septr[o].cur = NoPg /\ S.pfree = {} THEN [S EXCEPT !.err = "bound"]
        ELSE IF v # NULL /\ ~(IsPtr(v) /\ v[1] \in S.plive)
        THEN [S1 EXCEPT !.err = "abort"]
        ELSE [S1 EXCEPT !.ppage[sp.cur] = PutRec(@, sp.idx + 1,
                                                 [off |-> l[2], val |-> v]),
                        !.septr[o].idx = @ + 1]

\* The loop of move_volatile_allocations over the growing pptr_vec.
RECURSIVE ResolvePending(_, _)
ResolvePending(S, i) ==
    IF S.err # "none" \/ i > Len(S.pvec) THEN S
    ELSE LET S1 == persist_valloc(S, S.pvec[i])
         IN  IF S1.err # "none" THEN S1
             ELSE ResolvePending(do_insert_pointer(S1, S.pvec[i]), i + 1)

\* move_volatile_allocations_callback: persist_valloc on every recorded
\* pointer of entry se, for i < se_ptr.current.idx.
RECURSIVE EntryPointers(_, _, _)
EntryPointers(S, se, k) ==
    IF S.err # "none" \/ k > S.septr[se].idx THEN S
    ELSE EntryPointers(persist_valloc(S, <<se, Recs(S, se)[k].off>>), se, k + 1)

\* slab_foreach_snapshot_entry over the growing sd_vector.
RECURSIVE DirtyEntries(_, _)
DirtyEntries(S, i) ==
    IF S.err # "none" \/ i > Len(S.dirty) THEN S
    ELSE DirtyEntries(EntryPointers(S, S.dirty[i], 1), i + 1)

move_volatile_allocations(S) ==
    LET S1 == ResolvePending(S, 1)
    IN  IF S1.err # "none" THEN S1
        ELSE DirtyEntries([S1 EXCEPT !.pvec = <<>>], 1)

fix_back_references_persist(S) == FoldLeft(persist_valloc, S, InOrder(S.htp))

\* fix_back_references: every location left in ht_pointerat whose target
\* lies in a tree allocation is rebased onto that allocation's paddr.
fix_back_references(S) ==
    [S EXCEPT !.mem = [l \in Loc |->
                         IF l \in S.htp /\ TreeFind(S, S.mem[l]) # NoObj
                         THEN Rebase(S.mem[l], S.tree[TreeFind(S, S.mem[l])].paddr)
                         ELSE S.mem[l]]]

compute_closure(S) ==
    LET S1 == move_volatile_allocations(classify_pointers(build_mallocat_tree(S)))
    IN  IF S1.err # "none" THEN S1 ELSE fix_back_references(S1)

SlabCpoint_free_current(S) ==
    LET withPg == {o \in S.plive : S.septr[o].cur # NoPg}
        stale  == {S.septr[o].snap : o \in {x \in withPg : S.septr[x].snap # NoPg}}
    IN  IF ~S.bsnap THEN [S EXCEPT !.dirty = <<>>]
        ELSE [S EXCEPT
                !.septr = [o \in PObjs |->
                             IF o \in withPg
                             THEN [S.septr[o] EXCEPT !.snapl = S.septr[o].curl,
                                                     !.snap  = S.septr[o].cur]
                             ELSE S.septr[o]],
                !.pfree = @ \cup stale,
                !.ro = S.plive,
                !.bsnap = FALSE, !.bcopied = FALSE,
                !.dirty = <<>>]

\* Mutant: the loop of slab_bucket_cpoint does not skip entries that are
\* not initialised, and protects their (absent) data pages as well.
SlabCpoint_protect_all(S) ==
    LET withPg == {o \in S.plive : S.septr[o].cur # NoPg}
        stale  == {S.septr[o].snap : o \in {x \in withPg :
                       S.septr[x].snap \notin {NoPg, S.septr[x].cur}}}
    IN  IF ~S.bsnap THEN [S EXCEPT !.dirty = <<>>]
        ELSE [S EXCEPT
                !.septr = [o \in PObjs |->
                             IF o \in withPg
                             THEN [S.septr[o] EXCEPT !.snapl = S.septr[o].curl,
                                                     !.snap  = S.septr[o].cur]
                             ELSE S.septr[o]],
                !.pfree = @ \cup stale,
                !.ro = PObjs,
                !.bsnap = FALSE, !.bcopied = FALSE,
                !.dirty = <<>>]

\* slab_cpoint for the bucket: slab_inner_cpoint reconciles it only if
\* sb_has_snapshot.  Then slab_bucket_cpoint, for every used entry with a
\* current pointer page, frees a snapshot pointer page other than the
\* current one and makes the snapshot maddr and laddr the current ones
\* (snapshot.idx is left as it is), and maps every data page read-only;
\* the bucket's snapshot becomes its current page and sb_has_snapshot is
\* cleared.  sd_vector is freed in any case.
SlabCpoint(S) ==
    LET withPg == {o \in S.plive : S.septr[o].cur # NoPg}
        stale  == {S.septr[o].snap : o \in {x \in withPg :
                       S.septr[x].snap \notin {NoPg, S.septr[x].cur}}}
    IN  IF ~S.bsnap THEN [S EXCEPT !.dirty = <<>>]
        ELSE [S EXCEPT
                !.septr = [o \in PObjs |->
                             IF o \in withPg
                             THEN [S.septr[o] EXCEPT !.snapl = S.septr[o].curl,
                                                     !.snap  = S.septr[o].cur]
                             ELSE S.septr[o]],
                !.pfree = @ \cup stale,
                !.ro = S.plive,
                !.bsnap = FALSE, !.bcopied = FALSE,
                !.dirty = <<>>]

-----------------------------------------------------------------------------
(* The client and the checkpoint. *)

LiveLoc == (vlive \cup plive \cup Globals) \X Fields

\* The state as a record for the operators above, and a step to a record.
Cur == [mem |-> mem, vlive |-> vlive, plive |-> plive, htm |-> htm,
        htp |-> htp, tree |-> tree, pvec |-> pvec, dirty |-> dirty, ro |-> ro,
        bcopied |-> bcopied, bsnap |-> bsnap, septr |-> septr,
        ppage |-> ppage, pfree |-> pfree, err |-> "none"]

Become(S) ==
    /\ mem' = S.mem /\ vlive' = S.vlive /\ plive' = S.plive /\ htm' = S.htm
    /\ htp' = S.htp /\ tree' = S.tree /\ pvec' = S.pvec /\ dirty' = S.dirty
    /\ ro' = S.ro /\ bcopied' = S.bcopied /\ bsnap' = S.bsnap
    /\ septr' = S.septr /\ ppage' = S.ppage /\ pfree' = S.pfree

\* Every client operation runs in a live process and counts towards MaxOps.
ClientStep == pc = "run" /\ ops < MaxOps /\ ops' = ops + 1 /\ UNCHANGED <<pc, cps>>

\* Locations whose pointer the closure or a restore looks at: registered,
\* recorded in an entry's pointer records, or pending in pptr_vec.
Tracked(S) ==
    S.htp \cup UNION {{<<p, rec.off>> : rec \in ToSet(Recs(S, p))} : p \in S.plive}
          \cup ToSet(S.pvec)

(* malloc returns a free address, and the client registers the allocation *)
(* with mallocat (htable_insert into ht_mallocat).                         *)
Malloc(a) ==
    /\ ClientStep
    /\ a \notin vlive
    /\ Become([Cur EXCEPT !.vlive = @ \cup {a}, !.htm = htable_insert(@, a),
                          !.mem = [l \in Loc |-> IF Obj(l) = a THEN NULL ELSE @[l]]])

(* container_palloc: slab_palloc of an object in a fresh entry. *)
container_palloc ==
    /\ ClientStep
    /\ slab_palloc(Cur).err = "none"
    /\ Become(slab_palloc(Cur))

(* pointerat: htable_insert of the location into ht_pointerat. *)
pointerat(l) ==
    /\ ClientStep
    /\ l \notin htp
    /\ Become([Cur EXCEPT !.htp = htable_insert(@, l)])

(* A client store of a pointer to a live object, or NULL, with the fault  *)
(* it takes on a read-only data page.                                      *)
Store(l, v) ==
    /\ ClientStep
    /\ Write(Cur, l, v).err = "none"
    /\ Become(Write(Cur, l, v))

\* The closure applied to the current state.
Closed == compute_closure(Cur)

(* container_cpoint: compute_closure, then slab_cpoint.  handle_error in  *)
(* the closure kills the process.                                          *)
Checkpoint ==
    /\ pc = "run"
    /\ cps < MaxCp
    /\ Closed.err # "bound"
    /\ IF Closed.err = "abort"
       THEN /\ pc' = "down"
            /\ UNCHANGED <<mem, vlive, plive, htm, htp, tree, pvec, dirty, ro,
                           bcopied, bsnap, septr, ppage, pfree, cps, ops>>
       ELSE /\ Become(SlabCpoint(Closed))
            /\ cps' = cps + 1
            /\ UNCHANGED <<pc, ops>>

Init ==
    /\ mem = [l \in Loc |-> NULL]
    /\ vlive = {} /\ plive = {}
    /\ htm = {} /\ htp = {}
    /\ tree = [a \in VAddrs |-> NoTreeEntry]
    /\ pvec = <<>>
    /\ dirty = <<>>
    /\ ro = {}
    /\ bcopied = FALSE /\ bsnap = FALSE
    /\ septr = [p \in PObjs |-> NoSePtr]
    /\ ppage = [g \in PtrPgs |-> <<>>]
    /\ pfree = PtrPgs
    /\ pc = "run"
    /\ cps = 0
    /\ ops = 0

\* The explored behaviours end when the client bound is reached and no
\* checkpoint is left or the closure would need more than PObjs or PtrPgs;
\* the process itself would go on.
BoundsReached ==
    /\ pc = "run" /\ ops = MaxOps
    /\ cps = MaxCp \/ Closed.err = "bound"
    /\ UNCHANGED vars

Next ==
    \/ \E a \in VAddrs : Malloc(a)
    \/ container_palloc
    \/ \E l \in LiveLoc : pointerat(l)
    \/ \E l \in LiveLoc, v \in {NULL} \cup (vlive \cup plive) \X Fields : Store(l, v)
    \/ Checkpoint
    \/ BoundsReached

Spec == Init /\ [][Next]_vars

-----------------------------------------------------------------------------
(* Properties.  A checkpoint step is one that completes compute_closure.  *)

TypeOK ==
    /\ mem \in [Loc -> Value]
    /\ vlive \subseteq VAddrs /\ plive \subseteq PObjs
    /\ htm \subseteq VAddrs /\ htp \subseteq Loc
    /\ tree \in [VAddrs -> [in : BOOLEAN, paddr : PObjs \cup {NoObj},
                            ptrs : SUBSET Loc]]
    /\ pvec \in Seq(Loc)
    /\ dirty \in Seq(PObjs)
    /\ ro \subseteq plive
    /\ bcopied \in BOOLEAN /\ bsnap \in BOOLEAN
    /\ septr \in [PObjs -> [cur : PtrPgs \cup {NoPg}, curl : PtrPgs \cup {NoPg},
                             idx : Nat, snap : PtrPgs \cup {NoPg},
                             snapl : PtrPgs \cup {NoPg}, sidx : Nat]]
    /\ ppage \in [PtrPgs -> Seq([off : Fields, val : {NULL} \cup PObjs \X Fields])]
    /\ pfree \subseteq PtrPgs
    /\ pc \in {"run", "down"}
    /\ cps \in 0..MaxCp
    /\ ops \in 0..MaxOps

CpStep == Checkpoint /\ pc' = "run"

\* The allocations the closure of this step promoted, with their copies.
Promoted == {<<a, tree'[a].paddr>> : a \in {x \in VAddrs : tree[x].paddr = NoObj
                                                     /\ tree'[x].paddr # NoObj}}

\* The objects reachable from R through the pointers of the locations T.
RECURSIVE Reachable(_, _)
Reachable(R, T) ==
    LET N == R \cup {mem[l][1] : l \in {x \in T : Obj(x) \in R /\ IsPtr(mem[x])}}
    IN  IF N = R THEN R ELSE Reachable(N, T)

(* The closure promotes only what persistent memory reaches: every         *)
(* allocation persist_valloc moves was reachable, before the checkpoint,   *)
(* from a persistent object through registered, recorded or pending        *)
(* pointer fields (spec 4.4, steps 1-2).                                   *)
PromotedOnlyIfReachable ==
    [][CpStep =>
         \A m \in Promoted :
            m[1] \in Reachable(plive, Tracked(Cur))]_vars

(* A checkpoint by a client that registers every allocation it links from *)
(* persistent memory never reaches handle_error in do_insert_pointer: each *)
(* pending location holds NULL or a persistent address when its record is *)
(* written.  fix_back_references rebases a back reference into an         *)
(* allocation that was not promoted onto its NULL paddr (closure.c:267),  *)
(* which leaves the field's offset in the pointer; once the object        *)
(* holding it is promoted, that value has no entry.                       *)
CheckpointNeverAborts == pc = "run"

(* After a checkpoint every tracked pointer field of persistent memory     *)
(* holds NULL or a persistent address (spec 4.3: the closure makes every   *)
(* pointer reachable from persistent memory point into it before commit). *)
ClosureComplete ==
    [][CpStep =>
         \A l \in Tracked(Cur') :
            Obj(l) \in plive' =>
                mem'[l] = NULL \/ (IsPtr(mem'[l]) /\ Obj(mem'[l]) \in plive')]_vars

\* The pointer pages an entry's maddrs or laddrs name.
MaddrPages(o) == {septr[o].cur, septr[o].snap} \ {NoPg}
LaddrPages(o) == {septr[o].curl, septr[o].snapl} \ {NoPg}

(* Pointer-page ownership in the process: no page that an entry's current *)
(* or snapshot se_ptr maddr names is on the page allocator's free list,    *)
(* and no two entries share one, across do_insert_pointer, copy-on-write   *)
(* faults and the frees of slab_bucket_cpoint.                             *)
PtrPagesOwned ==
    \A o \in plive :
        /\ MaddrPages(o) \cap pfree = {}
        /\ \A q \in plive \ {o} : MaddrPages(o) \cap MaddrPages(q) = {}

(* Pointer-page ownership in the file: the pages an entry's se_ptr laddrs *)
(* name, which a restart maps back, are never free.                        *)
PtrLaddrOwned == \A o \in plive : LaddrPages(o) \cap pfree = {}

====
