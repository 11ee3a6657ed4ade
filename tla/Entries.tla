------------------------------ MODULE Entries -------------------------------
(* Page table entries as the paging code reads them (mm.h, mm64.c): empty, in *)
(* RAM or in swap, with the dirty bit and a location, a frame or a slot.      *)
(* PageTable shows that the bits of the entries' words mean just this.        *)
EXTENDS Integers

CONSTANT FpnLimit           \* frame numbers a PTE can hold, 2^13 in the program

ASSUME FpnAssumption == FpnLimit \in Nat \ {0}

\* An entry that vm_map_ram has set to zero.
EmptyEntry == [st |-> "none", dirty |-> FALSE, loc |-> 0]

EntrySet(frames, slots) ==
  {EmptyEntry} \cup [st : {"ram"}, dirty : BOOLEAN, loc : frames]
               \cup [st : {"swap"}, dirty : BOOLEAN, loc : slots]

InRam(e)  == e.st = "ram"
InSwap(e) == e.st = "swap"

\* pte_set_swap: the dirty bit survives the change from RAM to swap.
SetSwap(e, s) == [st |-> "swap", dirty |-> e.dirty, loc |-> s]

\* Slip: a page that comes back from swap is entered as clean.
Loaded_Clean(e, f) == [st |-> "ram", dirty |-> FALSE, loc |-> f % FpnLimit]

\* pte_set_fpn, and the dirty bit pg_getpage gives the entry: a page that comes
\* back from swap has lost its copy there, any other page starts clean.
Loaded(e, f) == [st |-> "ram", dirty |-> InSwap(e), loc |-> f % FpnLimit]

\* The dirty bit pg_setval sets.
Touched(e) == [st |-> e.st, dirty |-> TRUE, loc |-> e.loc]

\* k_pte_set_fpn: nobody looks at the dirty bit of a kernel page.
Pinned(f) == [st |-> "ram", dirty |-> FALSE, loc |-> f % FpnLimit]
=============================================================================
