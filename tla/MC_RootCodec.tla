---------------------------- MODULE MC_RootCodec ----------------------------
(* Instantiation of RootCodec for TLC: six entries, objects at the start  *)
(* of a page, at small and large offsets and at the last 8-byte slot, and *)
(* ids at the 16-bit and 31-bit boundaries for the codec reference.      *)
EXTENDS RootCodec

MC_NumEntries == 6
MC_Offsets    == {0, 8, 600, 4088}
MC_BigIds     == {0, 1, 5, 65535, 65536, 65537, 2147483647}
=============================================================================
