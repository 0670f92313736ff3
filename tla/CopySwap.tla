------------------------------ MODULE CopySwap ------------------------------
(***************************************************************************)
(* Copy-on-write by copy and swap: with PMLIB_USE_NLMAPPER=1 the page      *)
(* allocator is the non-linear mapper (NLMapper) and slab_init makes       *)
(* slab_entry_copynswap and slab_bucket_copynswap the snapshot functions   *)
(* (slab.c slab_init).  A copy is meant to take over the old file page     *)
(* while the object keeps its address: the two pages' mappings are        *)
(* swapped with nlm_swap_pages.                                            *)
(*                                                                         *)
(* One container, set up by container_init, with the entries of its first *)
(* bucket, each holding one page-sized object (slab_palloc of PAGE_SIZE    *)
(* bytes takes a fresh entry each time).  The file's data pages hold a     *)
(* value from Vals; the contents of metadata pages are the variables se   *)
(* and bkt themselves.  The closure and pointer pages are left out (no    *)
(* pointer is registered), as in Slab the node hierarchy beyond bucket 0.  *)
(***************************************************************************)
EXTENDS Naturals, Sequences, SequencesExt, FiniteSets

CONSTANTS
    MaxPages,     \* bound: pages the container file may grow to
    NumEntries,   \* bound: entries of bucket 0 the client allocates
    Vals,         \* values the client stores in an object
    Zero,         \* the contents of a page no one has written
    MaxCp,        \* bound: checkpoints
    MaxOps        \* bound: client stores

ASSUME /\ NumEntries \in 1..4 /\ MaxCp \in Nat /\ MaxOps \in Nat
       /\ Zero \notin Vals

VARIABLES
    nlm,        \* the non-linear mapper
    se,         \* se_data of each entry of bucket 0
    bkt,        \* si_current[0] and si_snapshot[0]: bucket 0's page
    bsnap,      \* sb_has_snapshot of bucket 0
    data,       \* the contents of each file page
    nexte,      \* the head of sd_free_list: the next entry slab_palloc takes
    stored,     \* history: the value the client last stored in each object
    committed,  \* history: stored, for the entries in use at the last checkpoint
    pc,         \* run, or down after handle_error
    cps,        \* checkpoints taken
    ops         \* client stores and allocations taken

vars == <<nlm, se, bkt, bsnap, data, nexte, stored, committed, pc, cps, ops>>

NL == INSTANCE NLMapper

Entries == 1..NumEntries
None    == NL!None

NoEntry == [init |-> FALSE, cur |-> None, curl |-> None,
            snap |-> None, snapl |-> None]

-----------------------------------------------------------------------------
(* Operations on a record S: nlm, se, bkt, bsnap, data and err.  Every     *)
(* page allocator call goes through the mapper's operators.                *)

\* A page allocator call on S; an error of the mapper is S's error.
Pa(S, M) == [S EXCEPT !.nlm = [M EXCEPT !.err = "none"], !.err = M.err]

\* The file page an address shows.
FilePg(S, a) == S.nlm.map[a]

slab_bucket_copynswap_no_laddr(S) ==
    IF S.bkt.cur # S.bkt.snap THEN [S EXCEPT !.bsnap = FALSE]
    ELSE LET S1 == Pa(S, NL!nlm_alloc_page(S.nlm, NL!PA_PROT_WRITE))
             sbs == S1.nlm.ret
         IN  IF S1.err # "none" THEN S1
             ELSE [S1 EXCEPT !.nlm = NL!nlm_swap_pages(@, S.bkt.cur, sbs.laddr,
                                                       sbs.addr, S.bkt.curl),
                             !.bkt.snap = sbs.addr,
                             !.bsnap = TRUE]

\* slab_bucket_copynswap as slab_palloc uses it: if bucket 0 has no copy
\* in this epoch, a new page receives a copy of it, the mappings of the
\* bucket's page and the copy are swapped, the bucket's current laddr
\* becomes the new file page and its snapshot the copy's address; the
\* result is stored into sb_has_snapshot (alloc.c:151).
slab_bucket_copynswap(S) ==
    IF S.bkt.cur # S.bkt.snap THEN [S EXCEPT !.bsnap = FALSE]
    ELSE LET S1 == Pa(S, NL!nlm_alloc_page(S.nlm, NL!PA_PROT_WRITE))
             sbs == S1.nlm.ret
         IN  IF S1.err # "none" THEN S1
             ELSE [S1 EXCEPT !.nlm = NL!nlm_swap_pages(@, S.bkt.cur, sbs.laddr,
                                                       sbs.addr, S.bkt.curl),
                             !.bkt.curl = sbs.laddr,
                             !.bkt.snap = sbs.addr,
                             !.bsnap = TRUE]

\* slab_entry_init: a read-only data page, current and snapshot alike.
slab_entry_init(S, e) ==
    LET S1 == Pa(S, NL!nlm_alloc_page(S.nlm, NL!PA_PROT_READ))
        pg == S1.nlm.ret
    IN  IF S1.err # "none" THEN S1
        ELSE [S1 EXCEPT !.se[e] = [init |-> TRUE, cur |-> pg.addr,
                                   curl |-> pg.laddr, snap |-> pg.addr,
                                   snapl |-> pg.laddr]]

\* Mutant: the object's current maddr moves to the copy as well.
slab_entry_copynswap_moves_current(S, e) ==
    LET S1 == Pa(S, NL!nlm_alloc_page(S.nlm, NL!PA_PROT_WRITE))
        n  == S1.nlm.ret
        S2 == [S1 EXCEPT !.data[FilePg(S1, n.addr)] = S1.data[FilePg(S1, S.se[e].snap)],
                         !.se[e].snap = n.addr,
                         !.se[e].cur = n.addr,
                         !.se[e].curl = n.laddr]
    IN  IF S1.err # "none" THEN S1
        ELSE [S2 EXCEPT !.nlm = NL!nlm_swap_pages(@, n.addr, S2.se[e].snapl,
                                                  S2.se[e].snap, n.laddr)]

\* slab_entry_copynswap: a new page receives the snapshot page's contents
\* and becomes the snapshot maddr, its offset the current laddr; then the
\* mappings of the new page and of se_data.snapshot.maddr, by now the new
\* page itself, are swapped.  No pointer page exists to copy.
slab_entry_copynswap(S, e) ==
    LET S1 == Pa(S, NL!nlm_alloc_page(S.nlm, NL!PA_PROT_WRITE))
        n  == S1.nlm.ret
        S2 == [S1 EXCEPT !.data[FilePg(S1, n.addr)] = S1.data[FilePg(S1, S.se[e].snap)],
                         !.se[e].snap = n.addr,
                         !.se[e].curl = n.laddr]
    IN  IF S1.err # "none" THEN S1
        ELSE [S2 EXCEPT !.nlm = NL!nlm_swap_pages(@, n.addr, S2.se[e].snapl,
                                                  S2.se[e].snap, n.laddr)]

\* handle_memory_update for a store to entry e's read-only data page: the
\* entry is found by its current maddr, snapshotted, and its page made
\* readable and writable.
handle_memory_update(S, e) ==
    LET S1 == slab_entry_copynswap(S, e)
    IN  IF S1.err # "none" THEN S1
        ELSE [S1 EXCEPT !.nlm = NL!mprotect(@, S.se[e].cur, NL!PA_PROT_RNW)]

\* slab_bucket_cpoint for entry e: a snapshot page other than the current
\* one is freed and replaced by it; the data page becomes read-only.
EntryCpoint(S, e) ==
    LET sp == S.se[e]
        S1 == IF sp.cur = sp.snap THEN S
              ELSE [Pa(S, NL!nlm_free_pages(S.nlm, sp.snap))
                       EXCEPT !.se[e].snapl = sp.curl, !.se[e].snap = sp.cur]
    IN  IF ~sp.init \/ S.err # "none" THEN S
        ELSE [S1 EXCEPT !.nlm = NL!mprotect(@, sp.cur, NL!PA_PROT_READ)]

\* slab_cpoint: slab_inner_cpoint reconciles bucket 0 only if it has
\* sb_has_snapshot: its entries, then its snapshot laddr and maddr become
\* the current ones and the old snapshot page is freed.  The inner, outer
\* and directory slots have no copies here (no new bucket is created).
slab_cpoint(S) ==
    IF ~S.bsnap THEN S
    ELSE LET S1 == FoldLeft(EntryCpoint, S, [i \in Entries |-> i])
             S2 == Pa(S1, NL!nlm_free_pages(S1.nlm, S1.bkt.snap))
         IN  IF S1.err # "none" THEN S1
             ELSE [S2 EXCEPT !.bkt.snapl = S1.bkt.curl, !.bkt.snap = S1.bkt.cur,
                             !.bsnap = FALSE]

-----------------------------------------------------------------------------
(* The client and the checkpoint. *)

Cur == [nlm |-> nlm, se |-> se, bkt |-> bkt, bsnap |-> bsnap, data |-> data,
        err |-> "none"]

Become(S) ==
    /\ nlm' = [S.nlm EXCEPT !.ret = NL!NoRet]
    /\ se' = S.se /\ bkt' = S.bkt /\ bsnap' = S.bsnap /\ data' = S.data

ClientStep == pc = "run" /\ ops < MaxOps /\ ops' = ops + 1 /\ UNCHANGED <<pc, cps>>

\* A call that reaches handle_error kills the process.
Die == pc' = "down" /\ UNCHANGED <<nlm, se, bkt, bsnap, data, nexte, stored,
                                   committed, cps, ops>>

(* slab_palloc of a page-sized object: the next free entry of bucket 0,   *)
(* the bucket's copy and swap, and slab_entry_init.                        *)
slab_palloc ==
    /\ ClientStep
    /\ nexte <= NumEntries
    /\ LET S == slab_entry_init(slab_bucket_copynswap(Cur), nexte)
       IN  /\ S.err = "none"
           /\ Become(S)
           /\ nexte' = nexte + 1
           /\ stored' = [stored EXCEPT ![nexte] = S.data[FilePg(S, S.se[nexte].cur)]]
           /\ UNCHANGED committed

(* A client store of v into entry e's object, through the fault handler   *)
(* when the page is read-only.                                             *)
Store(e, v) ==
    /\ ClientStep
    /\ se[e].init
    /\ LET a  == se[e].cur
           S1 == IF "w" \in nlm.prot[a] THEN Cur ELSE handle_memory_update(Cur, e)
       IN  /\ S1.err # "bound"
           /\ IF S1.err = "abort" THEN Die
              ELSE /\ Become([S1 EXCEPT !.data[FilePg(S1, a)] = v])
                   /\ stored' = [stored EXCEPT ![e] = v]
                   /\ UNCHANGED <<nexte, committed>>

(* container_cpoint: the closure has nothing to move; slab_cpoint. *)
Checkpoint ==
    /\ pc = "run"
    /\ cps < MaxCp
    /\ LET S == slab_cpoint(Cur)
       IN  /\ S.err # "bound"
           /\ IF S.err = "abort" THEN Die
              ELSE /\ Become(S)
                   /\ committed' = [e \in {x \in Entries : se[x].init} |-> stored[e]]
                   /\ cps' = cps + 1
                   /\ UNCHANGED <<nexte, stored, pc, ops>>

\* container_init: nlm_init, the container page, then slab_dir_init's
\* directory, outer, inner and bucket pages, all requested writable.
InitPages ==
    LET Alloc(M) == [NL!nlm_alloc_page(M, NL!PA_PROT_WRITE) EXCEPT !.ret = NL!NoRet]
        M4 == Alloc(Alloc(Alloc(Alloc(NL!nlm_init))))
    IN  NL!nlm_alloc_page(M4, NL!PA_PROT_WRITE)

Init ==
    /\ nlm = [InitPages EXCEPT !.ret = NL!NoRet]
    /\ se = [e \in Entries |-> NoEntry]
    /\ bkt = [cur |-> InitPages.ret.addr, curl |-> InitPages.ret.laddr,
              snap |-> InitPages.ret.addr, snapl |-> InitPages.ret.laddr]
    /\ bsnap = FALSE
    /\ data = [p \in NL!Addr |-> Zero]
    /\ nexte = 1
    /\ stored = [e \in Entries |-> Zero]
    /\ committed = [e \in {} |-> Zero]
    /\ pc = "run"
    /\ cps = 0
    /\ ops = 0

\* The explored behaviours end at the client and checkpoint bounds.
BoundsReached ==
    /\ pc = "run" /\ ops = MaxOps /\ cps = MaxCp
    /\ UNCHANGED vars

Next ==
    \/ slab_palloc
    \/ \E e \in Entries, v \in Vals : Store(e, v)
    \/ Checkpoint
    \/ BoundsReached

Spec == Init /\ [][Next]_vars

-----------------------------------------------------------------------------
(* Properties *)

TypeOK ==
    /\ NL!NlmTypeOK
    /\ se \in [Entries -> [init : BOOLEAN, cur : NL!Addr \cup {None},
                           curl : NL!Addr \cup {None}, snap : NL!Addr \cup {None},
                           snapl : NL!Addr \cup {None}]]
    /\ bkt \in [{"cur", "curl", "snap", "snapl"} -> NL!Addr]
    /\ bsnap \in BOOLEAN
    /\ data \in [NL!Addr -> Vals \cup {Zero}]
    /\ nexte \in 1..NumEntries + 1
    /\ stored \in [Entries -> Vals \cup {Zero}]
    /\ DOMAIN committed \subseteq Entries
    /\ \A e \in DOMAIN committed : committed[e] \in Vals \cup {Zero}
    /\ pc \in {"run", "down"} /\ cps \in 0..MaxCp /\ ops \in 0..MaxOps

\* The file pages on the mapper's free list.
FreeFilePages == {nlm.pgoff[a] : a \in ToSet(nlm.free)}

(* Bucket 0 through copy and swap: its current and snapshot addresses show *)
(* the file pages its current and snapshot laddrs name, and neither page  *)
(* is free, across the copies of slab_palloc, the frees of the checkpoint *)
(* and the reuse of freed pages.                                           *)
BucketMapped ==
    /\ nlm.map[bkt.cur] = bkt.curl /\ nlm.map[bkt.snap] = bkt.snapl
    /\ {bkt.curl, bkt.snapl} \cap FreeFilePages = {}

(* The mapper's bookkeeping agrees with the kernel's mappings as the slab *)
(* drives it: after the swaps of slab_bucket_copynswap and               *)
(* slab_entry_copynswap, the frees of slab_cpoint and the file's growth,  *)
(* every address shows the file page its nlm_page records, the mapping is *)
(* a bijection, and every page is once on the free list or in use.        *)
MapperConsistent == NL!NlmConsistent

(* Copy on write keeps the checkpoint: the file page an entry's snapshot  *)
(* laddr names holds, until the next checkpoint, what the client had      *)
(* stored in the object when the last checkpoint was taken, and is not    *)
(* free, whatever the client stores after it.                             *)
SnapshotDurable ==
    \A e \in DOMAIN committed :
            /\ data[se[e].snapl] = committed[e]
            /\ se[e].snapl \notin FreeFilePages

(* The heap the client sees through copy and swap is a persistent heap    *)
(* (PersistentHeap): an object's value is the contents of the file page  *)
(* its current maddr shows.  Each slab_palloc adds one object and changes *)
(* no other; a store, with the copy of slab_entry_copynswap and the swaps *)
(* of nlm_swap_pages, changes only the object stored to; a checkpoint     *)
(* saves the heap as the client sees it; handle_error ends the process.   *)
Heap == INSTANCE PersistentHeap
            WITH Objs <- Entries, Vals <- Vals \cup {Zero},
                 heap <- [e \in {x \in Entries : se[x].init} |-> data[nlm.map[se[e].cur]]],
                 saved <- committed, up <- pc = "run"
ImplementsHeap == Heap!Spec

====
