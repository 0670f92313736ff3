---------------------------- MODULE MC_CopySwap -----------------------------
(* Copy and swap for TLC: three entries of bucket 0 and two values, so    *)
(* that objects share the bucket's copy and a second allocation in an     *)
(* epoch happens, three checkpoints, and a file that grows from the five  *)
(* pages container_init takes to sixteen.                                  *)
EXTENDS CopySwap

CONSTANTS v1, v2

MC_Vals == {v1, v2}
====
