------------------------------ MODULE NLMapper ------------------------------
(***************************************************************************)
(* The non-linear page allocator (nlmapper.c), chosen by                  *)
(* PMLIB_USE_NLMAPPER=1 (page_alloc.c set_page_allocator_ops).             *)
(*                                                                         *)
(* The container file is mapped at one region.  An nlm_page records, for  *)
(* the address of each page of the region, the file offset it believes is *)
(* mapped there (pgoff); free pages are in a FIFO list, pages in use in a *)
(* tree keyed by address.  nlm_swap_pages exchanges, with remap_file_pages, *)
(* which file page two addresses show, so that a page can be copied on    *)
(* write without changing its address.                                     *)
(*                                                                         *)
(* An address and a file offset are page numbers: addr - start_addr and   *)
(* pgoff, divided by PAGE_SIZE.  The operators act on a record M of the   *)
(* allocator's state, so that a client module (CopySwap) can chain calls  *)
(* in one step.                                                            *)
(***************************************************************************)
EXTENDS Naturals, Sequences, SequencesExt, FiniteSets

CONSTANTS
    MaxPages     \* bound: pages the file may grow to

ASSUME MaxPages \in {2, 4, 8, 16, 32}

\* FM_FILE_SIZE, the size of a new file, in pages.
FM_FILE_SIZE == 2

Addr == 0..MaxPages - 1
None == MaxPages          \* no page: an address or offset out of the file

\* Page protections: sets of PA_PROT_READ and PA_PROT_WRITE.
PA_PROT_READ  == {"r"}
PA_PROT_WRITE == {"w"}
PA_PROT_RNW   == {"r", "w"}
NoAccess      == {}

VARIABLE nlm

-----------------------------------------------------------------------------
(* Allocator operations on a record M: size and prev (file_size and        *)
(* prev_file_size), nonlin (is_nonlinear), map (the file page each address *)
(* shows), pgoff (each nlm_page's pgoff, None where no page exists), inuse *)
(* (the tree), free (the free list), prot, ret (what the last call gave    *)
(* back) and err ("none", "abort" for handle_error, "bound" past MaxPages). *)

\* nlm_grow_file: posix_fallocate up to new_size; no mapping changes yet.
nlm_grow_file(M, n) == [M EXCEPT !.prev = M.size, !.size = n]

\* __nlm_free_page: the page goes to the end of the free list (after
\* free_list.last), out of the tree if it comes from there.
nlm_free_page(M, p) == [M EXCEPT !.inuse = @ \ {p}, !.free = Append(@, p)]

\* __nlm_use_page: the first free page moves into the tree.
nlm_use_page(M) == [M EXCEPT !.free = Tail(@), !.inuse = @ \cup {Head(M.free)}]

add_pages_to_free_list_off_by_one(M) ==
    [M EXCEPT !.pgoff = [a \in Addr |-> IF M.prev <= a /\ a < M.size THEN a
                                          ELSE M.pgoff[a]],
              !.free = @ \o [i \in 1..(M.size - M.prev + 1) |-> M.prev + i - 1]]

\* add_pages_to_free_list: nlm_page_alloc makes an nlm_page for every page
\* the file grew by, with pgoff equal to its address, and each is freed in
\* order.
add_pages_to_free_list(M) ==
    [M EXCEPT !.pgoff = [a \in Addr |-> IF M.prev <= a /\ a < M.size THEN a
                                          ELSE M.pgoff[a]],
              !.free = @ \o [i \in 1..(M.size - M.prev) |-> M.prev + i - 1]]

\* map_appending: mmap of the new part of the file right after the old
\* one, read-only (DEFAULT_MAPPING_PROT), then the new pages are freed.
map_appending(M) ==
    add_pages_to_free_list(
        [M EXCEPT !.map  = [a \in Addr |-> IF M.prev <= a /\ a < M.size THEN a
                                             ELSE M.map[a]],
                  !.prot = [a \in Addr |-> IF M.prev <= a /\ a < M.size
                                           THEN PA_PROT_READ ELSE M.prot[a]]])

\* nlm_alloc_page: doubles the file when the free list is empty, takes the
\* first free page into the tree, gives back its address and pgoff, and
\* mprotects it when the flags ask for PA_PROT_WRITE.
nlm_alloc_page(M, flags) ==
    IF M.free = <<>> /\ 2 * M.size > MaxPages THEN [M EXCEPT !.err = "bound"]
    ELSE
    LET M1 == IF M.free = <<>> THEN map_appending(nlm_grow_file(M, 2 * M.size))
              ELSE M
        p  == Head(M1.free)
    IN  [nlm_use_page(M1) EXCEPT
                   !.ret   = [addr |-> p, laddr |-> M1.pgoff[p]],
                   !.prot[p] = IF "w" \in flags THEN flags ELSE @]

\* nlm_free_pages: a page found in the tree by address goes to the end of
\* the free list; any other address is handle_error.
nlm_free_pages(M, a) ==
    IF a \in M.inuse
    THEN nlm_free_page(M, a)
    ELSE [M EXCEPT !.err = "abort"]

update_swapped_pages_noop(M, x, y) == M

\* update_swapped_pages: if both addresses are pages in use, their pgoffs
\* are exchanged.
update_swapped_pages(M, x, y) ==
    IF x \in M.inuse /\ y \in M.inuse
    THEN [M EXCEPT !.pgoff[x] = M.pgoff[y], !.pgoff[y] = M.pgoff[x]]
    ELSE M

\* nlm_swap_pages(xaddr, ypgoff, yaddr, xpgoff): xaddr is remapped to file
\* page ypgoff, then yaddr to xpgoff; the allocator becomes non-linear
\* when xaddr does not sit at xpgoff.
nlm_swap_pages(M, x, ypg, y, xpg) ==
    update_swapped_pages(
        [M EXCEPT !.map[x] = ypg, !.map[y] = xpg,
                  !.nonlin = @ \/ x # xpg],
        x, y)

\* page_allocator_mprotect_generic.
mprotect(M, a, flags) == [M EXCEPT !.prot[a] = flags]

NoRet == [addr |-> None, laddr |-> None]

\* nlm_init on an empty file: grow it to FM_FILE_SIZE and map it.
nlm_init ==
    map_appending(nlm_grow_file(
        [size |-> 0, prev |-> 0, nonlin |-> FALSE,
         map |-> [a \in Addr |-> None], pgoff |-> [a \in Addr |-> None],
         inuse |-> {}, free |-> <<>>, prot |-> [a \in Addr |-> NoAccess],
         ret |-> NoRet, err |-> "none"],
        FM_FILE_SIZE))

-----------------------------------------------------------------------------
(* Properties *)

Mapped(M) == 0..M.size - 1

NlmTypeOK ==
    /\ nlm.size \in {2, 4, 8, 16, 32} /\ nlm.size <= MaxPages
    /\ nlm.prev < nlm.size
    /\ nlm.map \in [Addr -> Addr \cup {None}]
    /\ nlm.pgoff \in [Addr -> Addr \cup {None}]
    /\ nlm.inuse \subseteq Mapped(nlm)
    /\ nlm.free \in Seq(Mapped(nlm))
    /\ nlm.prot \in [Addr -> SUBSET {"r", "w"}]
    /\ nlm.nonlin \in BOOLEAN
    /\ nlm.err = "none"

(* The allocator's bookkeeping agrees with the kernel's mappings: every   *)
(* address of the file's region shows exactly the file page its nlm_page  *)
(* records, every file page is shown at exactly one address, and every    *)
(* page is either once on the free list or in the tree, never both, after *)
(* any sequence of allocations, frees, growths and swaps.                 *)
NlmConsistent ==
    /\ \A a \in Mapped(nlm) : nlm.map[a] = nlm.pgoff[a]
    /\ \A a, b \in Mapped(nlm) : a # b => nlm.map[a] # nlm.map[b]
    /\ \A a \in Mapped(nlm) : nlm.map[a] \in Mapped(nlm)
    /\ IsInjective(nlm.free)
    /\ ToSet(nlm.free) \cap nlm.inuse = {}
    /\ ToSet(nlm.free) \cup nlm.inuse = Mapped(nlm)

====
