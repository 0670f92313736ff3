--------------------------- MODULE PersistentHeap ---------------------------
(***************************************************************************)
(* What a LibPM container promises its caller while a process runs it: a  *)
(* heap of objects that pmalloc adds one at a time with unspecified        *)
(* contents (malloc, not calloc), that stores change one object at a time, *)
(* and that a checkpoint saves without changing.  A crash ends the         *)
(* process; what its address space held is no longer the heap.  A restart *)
(* gives back the saved heap.                                              *)
(***************************************************************************)
CONSTANTS
    Objs,     \* the objects the heap may hold
    Vals      \* the values an object may hold

VARIABLES
    heap,     \* the objects allocated, each with its value
    saved,    \* the heap the last checkpoint saved
    up        \* a process runs the container

hvars == <<heap, saved, up>>

NoObjects == [o \in {} |-> CHOOSE v \in Vals : TRUE]

Init ==
    /\ heap = NoObjects
    /\ saved = heap
    /\ up = TRUE

\* pmalloc: a new object, with whatever the memory held.
Alloc(o, v) ==
    /\ up
    /\ o \notin DOMAIN heap
    /\ heap' = [x \in DOMAIN heap \cup {o} |-> IF x = o THEN v ELSE heap[x]]
    /\ UNCHANGED <<saved, up>>

\* A store of v into an allocated object.
Store(o, v) ==
    /\ up
    /\ o \in DOMAIN heap
    /\ heap' = [heap EXCEPT ![o] = v]
    /\ UNCHANGED <<saved, up>>

\* container_cpoint: the heap is saved as it is.
Checkpoint ==
    /\ up
    /\ saved' = heap
    /\ UNCHANGED <<heap, up>>

\* The process dies; its memory is not constrained any more.
Crash ==
    /\ up
    /\ ~up'
    /\ UNCHANGED saved

\* While no process runs, the saved heap is kept.
Down ==
    /\ ~up
    /\ ~up'
    /\ UNCHANGED saved

\* container_restore: a new process finds the saved heap.
Restart ==
    /\ ~up
    /\ up'
    /\ heap' = saved
    /\ UNCHANGED saved

Next ==
    \/ \E o \in Objs, v \in Vals : Alloc(o, v) \/ Store(o, v)
    \/ Checkpoint
    \/ Crash
    \/ Down
    \/ Restart

Spec == Init /\ [][Next]_hvars

====
