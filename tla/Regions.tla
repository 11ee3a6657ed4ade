------------------------------- MODULE Regions ------------------------------
(* A virtual memory area and its symbol table, as user and kernel memory both *)
(* use them (libmem.c, mm-vm.c): which addresses are handed out, which are on *)
(* the list of free regions, and how far the area reaches.                    *)
(*                                                                            *)
(* A region is the half-open interval from .. to - 1; an area has a table of  *)
(* regions in use (symrgtbl), a list of free ones, the end of what was ever   *)
(* handed out (sbrk) and the end of the mapped pages (vm_end).                *)
EXTENDS Integers, Sequences, FiniteSets, SequencesExt

CONSTANTS NumSymbols,       \* PAGING_MAX_SYMTBL_SZ, 30 in the program
          PageSize          \* PAGING64_PAGESZ in the model's units

ASSUME RegionsAssumption ==
  /\ NumSymbols \in Nat \ {0}
  /\ PageSize \in Nat \ {0}

Symbols == 1 .. NumSymbols

Region(a, b) == [from |-> a, to |-> b]
Addresses(r) == r.from .. r.to - 1
Overlap(r, s) == Addresses(r) \cap Addresses(s) # {}

\* An entry of the table is unused when both of its ends are zero.
Unused == Region(0, 0)

\* __init_mm_common: nothing mapped, one free region of size zero.
EmptyArea(start) ==
  [table |-> [i \in Symbols |-> Unused],
   free  |-> <<Region(start, start)>>,
   sbrk  |-> start,
   end   |-> start]

UnusedSymbols(area) == {i \in Symbols : area.table[i] = Unused}

\* The first unused entry of the table.
NextSymbol(area) == CHOOSE i \in UnusedSymbols(area) :
                      \A j \in UnusedSymbols(area) : i <= j

\* get_symrg_id_by_addr: the first region of the table that holds address a.
SymbolsAt(area, a) == {i \in Symbols : a \in Addresses(area.table[i])}
SymbolAt(area, a)  == CHOOSE i \in SymbolsAt(area, a) :
                        \A j \in SymbolsAt(area, a) : i <= j

-----------------------------------------------------------------------------
(* get_free_vmrg_area: first fit.                                             *)

Fitting(free, n) == {i \in DOMAIN free : free[i].from + n <= free[i].to}
FirstFit(free, n) == CHOOSE i \in Fitting(free, n) :
                       \A j \in Fitting(free, n) : i <= j

\* Slip: a region that is not used up whole keeps its start.
FreeAfterFit_NoShrink(free, i, n) ==
  IF free[i].from + n < free[i].to
  THEN free
  ELSE IF i < Len(free) THEN RemoveAt(free, i)
       ELSE [free EXCEPT ![i].from = free[i].to]

\* The list after n units were cut from the start of region i; a region used up
\* leaves the list, except for the last, which stays with size zero.
FreeAfterFit(free, i, n) ==
  IF free[i].from + n < free[i].to
  THEN [free EXCEPT ![i].from = @ + n]
  ELSE IF i < Len(free) THEN RemoveAt(free, i)
       ELSE [free EXCEPT ![i].from = free[i].to]

Fit(area, n) ==
  LET i == FirstFit(area.free, n) IN
    [region |-> Region(area.free[i].from, area.free[i].from + n),
     area   |-> [area EXCEPT !.free = FreeAfterFit(@, i, n)]]

-----------------------------------------------------------------------------
(* inc_vma_limit: more of the area is handed out, whole pages are mapped.     *)

\* Slip: the number of pages is rounded down.
PageAlign_Down(n) == (n \div PageSize) * PageSize

PageAlign(n) == ((n + PageSize - 1) \div PageSize) * PageSize

Extend(area, n) ==
  LET top == area.sbrk + n IN
    [region |-> Region(area.sbrk, top),
     area   |-> [area EXCEPT !.sbrk = top,
                   !.end = IF top <= @ THEN @ ELSE @ + PageAlign(top - @)]]

\* A region is taken from the list if one fits, from beyond sbrk otherwise.
Obtain(area, n) ==
  IF Fitting(area.free, n) # {} THEN Fit(area, n) ELSE Extend(area, n)

\* enlist_vm_freerg_list: a region of size zero is refused.
Enlist(free, r) == IF r.from < r.to THEN <<r>> \o free ELSE free

\* Slip: a freed region stays in the table.
Release_KeepsSymbol(area, i) == [area EXCEPT !.free = Enlist(@, area.table[i])]

\* A region goes from the table to the list.
Release(area, i) ==
  [area EXCEPT !.free = Enlist(@, area.table[i]), !.table[i] = Unused]
=============================================================================
