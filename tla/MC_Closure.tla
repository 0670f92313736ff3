---------------------------- MODULE MC_Closure -----------------------------
(* Instances of Closure for TLC: two volatile addresses, so that one can   *)
(* be linked to the other and a freed one be reused; three persistent      *)
(* objects, enough for a persistent root and two promoted copies; one      *)
(* global for back references; two checkpoints; three pointer pages, for  *)
(* a current, a snapshot and a copy-on-write page.                         *)
EXTENDS Closure

CONSTANTS a1, a2, p1, p2, p3, g, pg1, pg2, pg3

MC_VAddrs == {a1, a2}
MC_PObjs  == {p1, p2, p3}
MC_Globals == {g}
MC_PtrPgs  == {pg1, pg2, pg3}
\* The instance of the handle_error run: one volatile allocation, that
\* points into itself at its second field, and two persistent objects, a
\* root and the promoted copy.
MC_OneVAddr   == {a1}
MC_TwoPObjs   == {p1, p2}
MC_NoGlobals  == {}
====
