------------------------------ MODULE PageTable ------------------------------
(* The page tables of mm64.c: a tree of directories for every process and one *)
(* for the kernel, five levels deep, whose leaves hold the words of the page  *)
(* table entries.  Directories are allocated by the walk that first needs     *)
(* them and are never freed.  The callers (mm-vm.c, libmem.c, sys_mem.c)      *)
(* hold mmvm_lock, but for __read_kernel_mem, whose walk changes nothing.     *)
EXTENDS Words, FiniteSets

CONSTANTS Procs, Kernel,    \* address spaces: processes and the kernel
          PageSize,         \* addresses in a page, 2^12 in the program
          NumEntries,       \* entries of a directory, 2^9 in the program
          NULL,
          Frames, Slots,    \* frame and swap frame numbers
          Grants,           \* numbers of pages vm_end moves by
          MaxPages,         \* bound of the model: pages the spaces grow to, in all
          ReservedAt,       \* first pages and numbers of pages a program passes
          Reserves,         \* to SYSMEM_MAP_OP
          Watched           \* pages whose entries the refinement looks at

\* The pages below an entry of a directory, level by level from 0 to 4, and the
\* pages of a space.
PagesBelow ==
  LET n == NumEntries IN <<1, n, n * n, n * n * n, n * n * n * n>>
NumPages == PagesBelow[5] * NumEntries
Pages    == 0 .. NumPages - 1
Spaces   == Procs \cup {Kernel}

ASSUME PageTableAssumption ==
  /\ PageSize \in Nat \ {0} /\ NumEntries \in Nat \ {0}
  /\ IsFiniteSet(Procs) /\ Kernel \notin Procs
  /\ Spaces \cap Nat = {} /\ NULL \notin Spaces \cup Nat
  /\ Frames \subseteq Nat /\ Slots \subseteq 0 .. 2^21 - 1
  /\ Grants \subseteq Nat \ {0}
  /\ MaxPages \in Nat /\ ReservedAt \subseteq Pages /\ Reserves \subseteq Nat
  /\ Watched \subseteq Pages

VARIABLES
  tables,                   \* the memory the page tables take up
  extent                    \* pages from vm_start to vm_end of each space

vars == <<tables, extent>>

(* Tables: dir leads from an entry of a directory, <<directory, index>>, to   *)
(* the directory below; word holds the entries of the last level; both leave  *)
(* out entries that are 0.  The root of a space goes by the space's name, the *)
(* other directories by the order of their allocation, next being the next.   *)
NoTables == [dir |-> <<>>, word |-> <<>>, next |-> 0]

\* Function f with the value y at x.
Put(f, x, y) == [z \in DOMAIN f \cup {x} |-> IF z = x THEN y ELSE f[z]]

Init ==
  /\ tables = NoTables
  /\ extent = [s \in Spaces |-> 0]

-----------------------------------------------------------------------------
(* Addresses.  Level 0 is PT, 1 PMD, 2 PUD, 3 P4D and 4 PGD.                  *)

\* Slip: the field is not masked.
Index_Unmasked(a, level) == a \div (PageSize * PagesBelow[level + 1])

\* get_pd_from_address: the field of address a that indexes a directory.
Index(a, level) == (a \div (PageSize * PagesBelow[level + 1])) % NumEntries

\* get_pd_from_pagenum
PageIndex(g, level) == Index(g * PageSize, level)

\* PAGING64_PGN drops the offset and what is above the index of the PGD.
PGN(a) == (a \div PageSize) % NumPages

\* The page i pages above the start of a space: user space starts at 0, the
\* kernel's at 0x7F << 57.
StartOf(s) == IF s = Kernel THEN 127 * (PageSize * NumPages) ELSE 0
PageAt(s, i) == PGN(StartOf(s) + i * PageSize)

-----------------------------------------------------------------------------
(* Walks.                                                                     *)

\* The directory below, or NULL.
Below(t, d, i) == IF <<d, i>> \in DOMAIN t.dir THEN t.dir[<<d, i>>] ELSE NULL

\* Slip: the walk stops one level too early.
Leaf_Short(t, s, g) ==
  LET p4d == Below(t, s,   PageIndex(g, 4))
      pud == Below(t, p4d, PageIndex(g, 3))
  IN  Below(t, pud, PageIndex(g, 2))

\* get_pte_ptr: the last directory of page g's path, NULL if the path breaks off.
Leaf(t, s, g) ==
  LET p4d == Below(t, s,   PageIndex(g, 4))
      pud == Below(t, p4d, PageIndex(g, 3))
      pmd == Below(t, pud, PageIndex(g, 2))
  IN  Below(t, pmd, PageIndex(g, 1))

\* The directory below exists from here on.
Ensure(t, d, i) ==
  IF <<d, i>> \in DOMAIN t.dir THEN t
  ELSE [dir  |-> Put(t.dir, <<d, i>>, t.next),
        word |-> t.word,
        next |-> t.next + 1]

\* alloc_pte_ptr
AllocPath(t, s, g) ==
  LET t4  == Ensure(t, s, PageIndex(g, 4))
      p4d == Below(t4, s, PageIndex(g, 4))
      t3  == Ensure(t4, p4d, PageIndex(g, 3))
      pud == Below(t3, p4d, PageIndex(g, 3))
      t2  == Ensure(t3, pud, PageIndex(g, 2))
      pmd == Below(t2, pud, PageIndex(g, 2))
  IN  Ensure(t2, pmd, PageIndex(g, 1))

\* pte_get_entry, k_pte_get_entry: no path and no entry read as 0.
GetEntry(t, s, g) ==
  LET at == <<Leaf(t, s, g), PageIndex(g, 0)>>
  IN  IF at \in DOMAIN t.word THEN t.word[at] ELSE {}

\* pte_set_entry, when the path is there.
SetEntry(t, s, g, w) ==
  LET at == <<Leaf(t, s, g), PageIndex(g, 0)>>
  IN  IF Leaf(t, s, g) = NULL THEN t
      ELSE [dir |-> t.dir, word |-> Put(t.word, at, w), next |-> t.next]

\* What the setters below share: the path is made, then the word is stored.
StoreWord(t, s, g, w) == SetEntry(AllocPath(t, s, g), s, g, w)

-----------------------------------------------------------------------------
(* The fields of an entry's word.                                             *)

PRESENT == {31}
SWAPPED == {30}
DIRTY   == {28}
FPN     == GENMASK(12, 0)
SWPTYP  == GENMASK(4, 0)
SWPOFF  == GENMASK(25, 5)

\* caller->krnl->active_mswp_id: main activates the first swap device.
ActiveSwap == 0

\* pte_set_fpn, k_pte_set_fpn
MapFrame(w, f) ==
  SETVAL(CLRBIT(SETBIT(w, PRESENT), SWAPPED), Bits(f), FPN, 0)

\* pte_set_swap
MapSlot(w, slot) ==
  LET v == SETBIT(CLRBIT(w, PRESENT), SWAPPED)
  IN  SETVAL(SETVAL(v, Bits(ActiveSwap), SWPTYP, 0), Bits(slot), SWPOFF, 5)

\* 0xdeadbeef, the word vmap_pgd_memset writes.
Deadbeef == {31, 30, 28, 27, 26, 25, 23, 21, 19, 18, 16} \cup
            {15, 13, 12, 11, 10, 9, 7, 6, 5, 3, 2, 1, 0}

Fpn(w)     == Number(GETVAL(w, FPN, 0))
Swpoff(w)  == Number(GETVAL(w, SWPOFF, 5))
Present(w) == w \cap PRESENT # {}
Swapped(w) == w \cap SWAPPED # {}

-----------------------------------------------------------------------------
(* The operations.                                                            *)

\* The bound of the model.
Mapped  == {at \in Spaces \X (0 .. MaxPages - 1) : at[2] < extent[at[1]]}
Room(n) == Cardinality(Mapped) + n <= MaxPages

\* The loops over the n pages from page i of space s on: word gives the new word
\* of an entry for the number of the round and the old one.
StorePages(s, i, n, word) ==
  LET After[k \in 0 .. n] ==
        IF k = 0 THEN tables
        ELSE LET t == After[k - 1]
                 g == PageAt(s, i + k - 1)
             IN  StoreWord(t, s, g, word[k - 1][GetEntry(t, s, g)])
  IN  After[n]

\* inc_vma_limit with vm_map_range and vm_map_ram: n pages more, the words 0.
VmMapRam(p, n) ==
  /\ Room(n)
  /\ tables' = StorePages(p, extent[p], n, [k \in Nat |-> [w \in Word |-> {}]])
  /\ extent' = [extent EXCEPT ![p] = @ + n]

\* Slip: the kernel's pages are mapped from the start of its space.
KVmMapRam_FromStart(n, f) ==
  /\ Room(n)
  /\ tables' = StorePages(Kernel, 0, n,
                          [k \in Nat |-> [w \in Word |-> MapFrame(w, f + k)]])
  /\ extent' = [extent EXCEPT ![Kernel] = @ + n]

\* k_inc_vma_limit with vm_map_kernel and k_vmap_page_range: n contiguous frames
\* from f on.
KVmMapRam(n, f) ==
  /\ Room(n)
  /\ tables' = StorePages(Kernel, extent[Kernel], n,
                          [k \in Nat |-> [w \in Word |-> MapFrame(w, f + k)]])
  /\ extent' = [extent EXCEPT ![Kernel] = @ + n]

\* SYSMEM_MAP_OP, which only a program's own SYSCALL instruction asks for: the
\* pages need not be below vm_end.
VmapPgdMemset(p, g, n) ==
  /\ tables' = StorePages(p, g, n, [k \in Nat |-> [w \in Word |-> Deadbeef]])
  /\ UNCHANGED extent

\* The page table operations of a page fault in pg_getpage: t already has the
\* victim's entry changed; the dirty bit is put into the entry as it is read
\* back after pte_set_fpn.
FaultIn(t, p, g, f) ==
  LET old == GetEntry(tables, p, g)
      t1  == StoreWord(t, p, g, MapFrame(GetEntry(t, p, g), f))
      new == GetEntry(t1, p, g)
  IN  SetEntry(t1, p, g, IF Swapped(old) THEN SETBIT(new, DIRTY)
                                         ELSE CLRBIT(new, DIRTY))

\* pg_getpage with a free frame f.
PageFault(p, g, f) ==
  /\ g < extent[p]
  /\ ~Present(GetEntry(tables, p, g))
  /\ tables' = FaultIn(tables, p, g, f)
  /\ UNCHANGED extent

\* pg_getpage with the frame of page v, which goes to a swap slot.
PageReplace(p, g, v, slot) ==
  LET old == GetEntry(tables, p, v) IN
  /\ g < extent[p] /\ v < extent[p]
  /\ ~Present(GetEntry(tables, p, g)) /\ Present(old)
  /\ tables' = FaultIn(StoreWord(tables, p, v, MapSlot(old, slot)), p, g,
                       Fpn(old))
  /\ UNCHANGED extent

\* pg_setval, once the page is there: the dirty bit.
PageDirty(p, g) ==
  LET w == GetEntry(tables, p, g) IN
  /\ g < extent[p] /\ Present(w)
  /\ tables' = SetEntry(tables, p, g, SETBIT(w, DIRTY))
  /\ UNCHANGED extent

Next ==
  \/ \E n \in Grants, f \in Frames : KVmMapRam(n, f)
  \/ \E p \in Procs, n \in Grants : VmMapRam(p, n)
  \/ \E p \in Procs, g \in ReservedAt, n \in Reserves : VmapPgdMemset(p, g, n)
  \/ \E p \in Procs, g \in 0 .. MaxPages - 1 :
       \/ PageDirty(p, g)
       \/ \E f \in Frames : PageFault(p, g, f)
       \/ \E v \in 0 .. MaxPages - 1, s \in Slots : PageReplace(p, g, v, s)

Spec == Init /\ [][Next]_vars

-----------------------------------------------------------------------------
(* Properties.                                                                *)

Dirs    == 0 .. tables.next - 1
Indexes == 0 .. NumEntries - 1

\* Entries lead to directories that have been allocated, words have 32 bits.
TypeOK ==
  /\ tables.next \in Nat
  /\ DOMAIN tables.dir \subseteq (Spaces \cup Dirs) \X Indexes
  /\ DOMAIN tables.word \subseteq Dirs \X Indexes
  /\ \A at \in DOMAIN tables.dir : tables.dir[at] \in Dirs
  /\ \A at \in DOMAIN tables.word : tables.word[at] \in Word
  /\ extent \in [Spaces -> 0 .. MaxPages]

\* The directories form one tree for each space: each hangs from exactly one
\* entry, and none is both a directory of entries and one of directories, so
\* that a walk ends at a word and never takes a word for a pointer, whatever the
\* order in which the walks of different spaces allocated them (alloc_pte_ptr).
TreeShape ==
  /\ \A d \in Dirs : \E at \in DOMAIN tables.dir :
       tables.dir[at] = d /\ at[1] \in Spaces \cup 0 .. d - 1
  /\ \A at, bt \in DOMAIN tables.dir : tables.dir[at] = tables.dir[bt] => at = bt
  /\ \A at \in DOMAIN tables.dir, bt \in DOMAIN tables.word : at[1] # bt[1]

\* Kernel pages are pinned: whatever else is mapped, a page below the kernel's
\* vm_end keeps its frame, so that k_pg_getpage may look it up without mmvm_lock.
KernelPinned ==
  [][\A i \in 0 .. extent[Kernel] - 1 :
       LET g == PageAt(Kernel, i) IN
         /\ Present(GetEntry(tables, Kernel, g))
         /\ GetEntry(tables', Kernel, g) = GetEntry(tables, Kernel, g)]_vars

\* What the word of an entry means to pg_getpage.
Meaning[w \in Word] ==
  [st    |-> IF Present(w) THEN "ram" ELSE IF Swapped(w) THEN "swap" ELSE "none",
   dirty |-> w \cap DIRTY # {},
   loc   |-> IF Present(w) THEN Fpn(w) ELSE IF Swapped(w) THEN Swpoff(w) ELSE 0]

\* Read through the walk, the words are a private map from pages to entries for
\* every space: no two pages share a word, no field of a word spoils another.
PM == INSTANCE PageMap WITH
        FpnLimit <- 2^13,
        Pattern  <- Meaning[Deadbeef],
        Pages    <- Watched,
        Grants   <- Grants \cup Reserves,
        map      <- [s \in Spaces |-> [g \in Watched |->
                       Meaning[GetEntry(tables, s, g)]]]
RefinesPageMap == PM!MapSpec
=============================================================================
