------------------------------ MODULE RootCodec ------------------------------
(***************************************************************************)
(* The container root pointer (slab.c): slab_setroot packs the root's slab *)
(* entry id and its offset in the entry's data page into the 64-bit word   *)
(* sd_cont_root with PACK_CONT_ROOT; slab_getroot unpacks it with          *)
(* UNPACK_CONT_ROOT and finds the entry again by id.                       *)
(*                                                                         *)
(* A 64-bit word is four 16-bit limbs, least significant first, so that    *)
(* the casts, shifts and the two's complement of a negative offset keep    *)
(* their width without leaving TLC's integers.  An address is a data page  *)
(* and a byte offset in it; entry i owns data page i.                      *)
(***************************************************************************)
EXTENDS Integers, Bitwise

CONSTANTS
    NumEntries,   \* bound: slab entries the heap initializes
    Offsets,      \* byte offsets of objects in a data page
    BigIds        \* entry ids, up to 2^31 - 1, for the codec reference check

ASSUME /\ NumEntries \in 1..8   \* all in the first bucket
       /\ Offsets \subseteq 0..4095
       /\ \A id \in BigIds : id >= 0

PAGE_SIZE == 4096

\* The node fan-outs of slabInt.h on LP64, with sizeof(struct slab_entry)
\* = 144 (8 + 2 * 24 + 2 * 24 + 8 + 32) and SLAB_DIR_MEMSIZE = 100.
SLAB_BUCKET_ENTRIES == (PAGE_SIZE - 4) \div 144
SLAB_INNER_ENTRIES  == (PAGE_SIZE - 4) \div 32
SLAB_OUTER_ENTRIES  == (PAGE_SIZE - 4) \div 32
SLAB_DIR_ENTRIES    == (PAGE_SIZE - 100) \div 32

\* The page of an entry with no data page (se_data.current.maddr NULL).
NoPage == -1
\* No entry is reached: the lookup faults.
NoEntry == -2
Limb      == 0..65535
Word      == [0..3 -> Limb]

\* n as an unsigned 64-bit word, for 0 <= n < 2^31.
LimbsOf(n) == [i \in 0..3 |-> CASE i = 0 -> n % 65536
                                [] i = 1 -> n \div 65536
                                [] OTHER -> 0]

\* The integer conversion (uint64_t)(x): two's complement for x < 0.
U64(x) == IF x >= 0 THEN LimbsOf(x)
          ELSE [i \in 0..3 |-> 65535 - LimbsOf(-x - 1)[i]]

\* (uint64_t)v << OFFSET_SIZE_BITS, with OFFSET_SIZE_BITS = 16.
ShiftLeft16(w) == [i \in 0..3 |-> IF i = 0 THEN 0 ELSE w[i - 1]]

PACK_CONT_ROOT_NO_SHIFT(seid, offset) ==
    [i \in 0..3 |-> U64(seid)[i] | U64(offset)[i]]

PACK_CONT_ROOT(seid, offset) ==
    [i \in 0..3 |-> ShiftLeft16(U64(seid))[i] | U64(offset)[i]]

\* (uint16_t)v and (unsigned int)(v >> 16); the 32-bit id is kept as its
\* two limbs, as its value may exceed TLC's integers.
UNPACK_CONT_ROOT(v) == [offset |-> v[0], seid |-> <<v[1], v[2]>>]

\* get_slab_entry_by_id: the id is decoded in the radix of the node sizes
\* (sb_idx = seid % SLAB_BUCKET_ENTRIES, then the bucket, inner and outer
\* slots, sd_idx modulo SLAB_DIR_ENTRIES) and the slots are followed with
\* no check.  The entries the model initializes are the first ones of the
\* first bucket, so only a path of slots 0 reaches a bucket; any other slot
\* holds NULL and reading the entry through it faults on an address no
\* entry owns, which the SIGSEGV handler ends with handle_error: NoEntry.  An
\* entry of the first bucket past the initialized ones has a NULL data
\* page: NoPage.  The 32-bit id is split as hi * 2^16 + lo to stay within
\* TLC's integers.
get_slab_entry_by_id(seid, n) ==
    LET lo   == seid[1]
        hi   == seid[2]
        rem  == (hi % SLAB_BUCKET_ENTRIES) * 65536 + lo
        sbId == (hi \div SLAB_BUCKET_ENTRIES) * 65536 + rem \div SLAB_BUCKET_ENTRIES
        idx  == rem % SLAB_BUCKET_ENTRIES
        siId == sbId \div SLAB_INNER_ENTRIES
        soId == siId \div SLAB_OUTER_ENTRIES
        path == <<sbId % SLAB_INNER_ENTRIES, siId % SLAB_OUTER_ENTRIES,
                  soId % SLAB_DIR_ENTRIES>>
    IN  CASE path # <<0, 0, 0>> -> NoEntry
          [] idx < n            -> idx
          [] OTHER              -> NoPage

NULL == [pg |-> NoPage, off |-> 0]
\* slab_getroot does not return: the process dies in the fault handler.
Segv == [pg |-> NoEntry, off |-> 0]

VARIABLES
    nextSeId,    \* NEXT_SLAB_ENTRY_ID: entries 0..nextSeId-1 are initialized
    contRoot,    \* sd_cont_root in the slab directory page
    rootSet,     \* history: the address the last successful setroot stored
    ret          \* the last value slab_getroot returned

vars == <<nextSeId, contRoot, rootSet, ret>>

Addr == [pg : 0..NumEntries - 1, off : Offsets]

(* slab_entry_init: the entry takes the next id. *)
slab_entry_init ==
    /\ nextSeId < NumEntries
    /\ nextSeId' = nextSeId + 1
    /\ UNCHANGED <<contRoot, rootSet, ret>>

(* slab_setroot: the entry whose data page starts at ROUND_DWNPG(maddr) is *)
(* looked up in the used-entry tree; if there is one, the root becomes     *)
(* (se_id, ROUND_DWNPG(maddr) - maddr).                                    *)
slab_setroot(maddr) ==
    /\ maddr.pg < nextSeId
    /\ contRoot' = PACK_CONT_ROOT(maddr.pg, 0 - maddr.off)
    /\ rootSet' = maddr
    /\ UNCHANGED <<nextSeId, ret>>

(* slab_getroot: the root's entry data page plus the unpacked offset.      *)
GetRoot(root, n) ==
    LET r  == UNPACK_CONT_ROOT(root)
        se == get_slab_entry_by_id(r.seid, n)
    IN  IF se = NoEntry THEN Segv ELSE [pg |-> se, off |-> r.offset]

slab_getroot ==
    /\ ret' = GetRoot(contRoot, nextSeId)
    /\ UNCHANGED <<nextSeId, contRoot, rootSet>>

Init ==
    /\ nextSeId = 0
    /\ contRoot = LimbsOf(0)
    /\ rootSet = NULL
    /\ ret = NULL

Next ==
    \/ slab_entry_init
    \/ \E a \in Addr : slab_setroot(a)
    \/ slab_getroot

Spec == Init /\ [][Next]_vars

-----------------------------------------------------------------------------
(* Properties *)

(* PACK_CONT_ROOT and UNPACK_CONT_ROOT agree with the arithmetic they      *)
(* stand for, seid * 2^16 + offset, computed limb by limb, for the ids    *)
(* handed out so far and ids at the 16- and 31-bit boundaries, and every   *)
(* offset a uint16_t holds; unpacking gives both parts back.               *)
PackMatchesReference ==
    \A id \in BigIds \cup 0..nextSeId, o \in Offsets \cup {65535} :
        LET w == PACK_CONT_ROOT(id, o)
        IN  /\ w[0] = o /\ w[1] = id % 65536
            /\ w[2] = id \div 65536 /\ w[3] = 0
            /\ UNPACK_CONT_ROOT(w) = [offset |-> o,
                                      seid |-> <<id % 65536, id \div 65536>>]

(* container_getroot gives back the address container_setroot last        *)
(* stored, through the packed root word, the entry lookup by id and the    *)
(* offset, for every object of every initialized entry.                    *)
RootRoundTrip ==
    rootSet # NULL => GetRoot(contRoot, nextSeId) = rootSet

=============================================================================
