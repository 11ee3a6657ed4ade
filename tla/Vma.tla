--------------------------------- MODULE Vma --------------------------------
(* The memory of one user process: ALLOC, FREE, READ and WRITE instructions   *)
(* over its registers, its symbol table and its virtual memory area           *)
(* (liballoc, libfree, libread and libwrite of libmem.c).  One CPU runs the   *)
(* process at a time, so every instruction is one step.  What the bytes are   *)
(* and where they lie is the business of Paging.                              *)
EXTENDS Regions

CONSTANTS Regs,             \* registers the program uses
          Sizes,            \* sizes it asks for, zero among them
          MaxAddr           \* bound of the model: addresses handed out

ASSUME VmaAssumption ==
  /\ Sizes \subseteq Nat
  /\ MaxAddr \in Nat

VARIABLES area,             \* mm->mmap and mm->symrgtbl
          reg,              \* the registers
          over              \* has the program ended

vars == <<area, reg, over>>

Offsets == 0 .. MaxAddr
RegionType == [from : 0 .. MaxAddr, to : 0 .. MaxAddr]

\* Every address the area and the registers name is below the bound, and the
\* mapped pages reach at least as far as what was handed out, by less than one
\* page too many.
TypeOK ==
  /\ area.table \in [Symbols -> RegionType]
  /\ area.free \in Seq(RegionType) /\ area.free # <<>>
  /\ area.sbrk \in 0 .. MaxAddr
  /\ area.end % PageSize = 0
  /\ area.sbrk <= area.end /\ area.end < area.sbrk + PageSize
  /\ reg \in [Regs -> 0 .. MaxAddr]
  /\ over \in BOOLEAN

\* init_mm; the registers come from malloc and hold anything.
Init ==
  /\ area = EmptyArea(0)
  /\ reg \in [Regs -> 0 .. MaxAddr]
  /\ over = FALSE

\* An instruction that fails ends the program.
Fail == over' = TRUE /\ UNCHANGED <<area, reg>>

\* liballoc: an entry of the table, then a region.
Alloc(r, n) ==
  /\ ~over
  /\ IF UnusedSymbols(area) = {}
     THEN Fail
     ELSE LET got == Obtain(area, n) IN
            /\ got.area.sbrk <= MaxAddr
            /\ area' = [got.area EXCEPT !.table[NextSymbol(area)] = got.region]
            /\ reg' = [reg EXCEPT ![r] = got.region.from]
            /\ UNCHANGED over

\* libfree: the region that holds the address in the register.
Free(r) ==
  /\ ~over
  /\ IF SymbolsAt(area, reg[r]) = {}
     THEN Fail
     ELSE /\ area' = Release(area, SymbolAt(area, reg[r]))
          /\ UNCHANGED <<reg, over>>

(* The address __read and __write go to for offset d from register r: the     *)
(* region is found by the sum of both, the byte by the offset alone.          *)
Found(r, d) == SymbolsAt(area, reg[r] + d) # {}
Sought(r, d) == area.table[SymbolAt(area, reg[r] + d)]

\* Slip: the offset is not compared with the size of the region.
Accessible_Unchecked(r, d) == Found(r, d)

Accessible(r, d) ==
  /\ Found(r, d)
  /\ reg[r] + d < area.end
  /\ Sought(r, d).from + d < Sought(r, d).to

Target(r, d) == Sought(r, d).from + d

\* libread: the byte read, any value of the model's range, goes to a register.
Read(r, d, s) ==
  /\ ~over
  /\ IF Accessible(r, d)
     THEN \E v \in 0 .. MaxAddr :
            reg' = [reg EXCEPT ![s] = v] /\ UNCHANGED <<area, over>>
     ELSE Fail

\* libwrite: the byte goes to a page.
Write(r, d) ==
  /\ ~over
  /\ IF Accessible(r, d) THEN UNCHANGED vars ELSE Fail

\* The program has run its last instruction, or a page fault of it failed.
EndProgram == ~over /\ Fail

Next ==
  \/ \E r \in Regs, n \in Sizes : Alloc(r, n)
  \/ \E r \in Regs : Free(r)
  \/ \E r \in Regs, d \in Offsets : Write(r, d)
  \/ \E r, s \in Regs, d \in Offsets : Read(r, d, s)
  \/ EndProgram

Spec == Init /\ [][Next]_vars

-----------------------------------------------------------------------------
(* Properties.                                                                *)

\* The regions in use and the free ones, by table entry and list position.
Pieces == ({"used"} \X Symbols) \cup ({"free"} \X DOMAIN area.free)
Piece(x) == IF x[1] = "used" THEN area.table[x[2]] ELSE area.free[x[2]]

\* Every address below sbrk is in exactly one region, in use or free: splitting
\* (get_free_vmrg_area), extending (inc_vma_limit) and freeing (__free) neither
\* lose an address nor hand one out twice, in any order of calls and sizes.
RegionsPartition ==
  /\ \A x, y \in Pieces : x # y => ~Overlap(Piece(x), Piece(y))
  /\ UNION {Addresses(Piece(x)) : x \in Pieces} = 0 .. area.sbrk - 1

\* A READ or WRITE that passes the checks of __read and __write touches mapped
\* memory inside the one region of the table it was resolved to.
AccessInRegion ==
  \A r \in Regs, d \in Offsets : Accessible(r, d) =>
    /\ Target(r, d) < area.end
    /\ SymbolsAt(area, Target(r, d)) = {SymbolAt(area, reg[r] + d)}

\* The table is an allocator: the regions in use are the blocks of Heap.
BlocksInUse == {area.table[i] : i \in {j \in Symbols :
                                         Addresses(area.table[j]) # {}}}
HEAP == INSTANCE Heap WITH blocks <- BlocksInUse
RefinesHeap == HEAP!HeapSpec
=============================================================================
