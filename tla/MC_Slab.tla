------------------------------ MODULE MC_Slab ------------------------------
(* Instantiation of Slab for TLC: one bucket of two entries, two objects *)
(* per data page, one value to store, and a file that may grow once,    *)
(* from 8 to 16 pages.  The size class is one small (bitmap in the data *)
(* page) or one large (bitmap in the entry) per run.                    *)
EXTENDS Slab

MC_NE       == 2
MC_NI       == 1
MC_Capacity == 2
MC_Vals     == {1}
MC_Sizes    == {8, 600}   \* both size classes, for the allocation-only run
MC_MaxPages == 16

\* Smaller instances for the violation runs: a caller that only allocates,
\* and a heap of a single one-object entry, which can be allocated once.
MC_NoVals   == {}
MC_One      == 1
MC_Large    == {600}
MC_Small    == {8}
\* Two bucket slots in the inner node, so that slab_palloc adds a bucket.
MC_TwoSlots == 2
=============================================================================
