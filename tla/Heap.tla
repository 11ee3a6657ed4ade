-------------------------------- MODULE Heap --------------------------------
(* What an allocator promises: a block it hands out is disjoint from every    *)
(* block in use, a block stays in use until it is freed, and only the block   *)
(* that is freed goes.                                                        *)
EXTENDS Integers

CONSTANTS MaxAddr

VARIABLES blocks            \* the blocks in use: records with from and to

Block == {b \in [from : 0 .. MaxAddr, to : 0 .. MaxAddr] : b.from < b.to}

Apart(b, c) == b.to <= c.from \/ c.to <= b.from

HeapInit == blocks = {}

AllocBlock ==
  \E b \in Block :
    /\ \A c \in blocks : Apart(b, c)
    /\ blocks' = blocks \cup {b}

FreeBlock == \E b \in blocks : blocks' = blocks \ {b}

HeapNext == AllocBlock \/ FreeBlock

HeapSpec == HeapInit /\ [][HeapNext]_blocks
=============================================================================
