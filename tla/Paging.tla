------------------------------- MODULE Paging --------------------------------
(* Demand paging: pg_getpage, pg_getval, pg_setval and find_victim_page of    *)
(* libmem.c with the page table entries of mm64.c, over one RAM device and    *)
(* the active swap device, and the copies between user and kernel pages.      *)
(* Each action is one access of a running process, or another operation that  *)
(* touches frames; they run under mmvm_lock, but for ReadKernelMem.           *)
(* A page holds one value, standing for the bytes the program looks at.       *)
EXTENDS Entries, Memphy

CONSTANTS Procs,            \* processes, at most one per CPU runs at a time
          NumPages,         \* bound of the model: pages a process may map
          NumFrames,        \* frames of RAM (memramsz)
          NumSlots,         \* frames of the active swap device (memswpsz[0])
          Values,           \* what a program writes, other than the zero byte
          MaxKernelRun      \* bound of the model: frames of a kernel request

NotWritten == -1

ASSUME PagingAssumption ==
  /\ NumPages \in Nat /\ NumFrames \in Nat \ {0} /\ NumSlots \in Nat \ {0}
  /\ 0 \notin Values /\ NotWritten \notin Values
  /\ MaxKernelRun \in Nat

Pages  == 0 .. NumPages - 1
Frames == 0 .. NumFrames - 1
Slots  == 0 .. NumSlots - 1
Bytes  == Values \cup {0}

VARIABLES
  pte,                      \* page tables
  fifo,                     \* mm->fifo_pgn of each process, newest page first
  mapped,                   \* pages below vm_end of each process
  ram, ramFree,             \* contents and free list of RAM
  swp, swpFree,             \* contents and free list of the active swap
  kpte,                     \* the kernel's page table, one entry per page
  copy,                     \* the byte a kernel copy of a process has in hand
  over,                     \* processes whose program has ended
  cells,                    \* history: what each process has stored
  kcells,                   \* history: what was copied to each kernel page
  res                       \* history: what the last read returned

devVars == <<ram, ramFree, swp, swpFree>>
kernelVars == <<kpte, kcells>>
vars == <<pte, fifo, mapped, devVars, kernelVars, copy, over, cells, res>>

KernelPages == 1 .. Len(kpte)

NoCopy   == [to |-> "nowhere"]
NoResult == [op |-> "none"]

\* Entries name frames and slots that exist; the rest has its type.
TypeOK ==
  /\ pte \in [Procs -> [Pages -> EntrySet(Frames, Slots)]]
  /\ fifo \in [Procs -> Seq(Pages)]
  /\ mapped \in [Procs -> 0 .. NumPages]
  /\ ram \in [Frames -> Bytes] /\ ramFree \in Seq(Frames)
  /\ swp \in [Slots -> Bytes] /\ swpFree \in Seq(Slots)
  /\ kpte \in Seq(EntrySet(Frames, {}))
  /\ kcells \in [KernelPages -> Bytes \cup {NotWritten}]
  /\ copy \in [Procs -> {NoCopy}
                 \cup [to : {"kernel"}, page : KernelPages, val : Bytes]
                 \cup [to : {"user"}, page : Pages, val : Bytes]]
  /\ over \subseteq Procs
  /\ cells \in [Procs -> [Pages -> Bytes \cup {NotWritten}]]

\* init_memphy for both devices, init_mm for every process and k_init_mm.
Init ==
  /\ pte = [p \in Procs |-> [g \in Pages |-> EmptyEntry]]
  /\ fifo = [p \in Procs |-> <<>>]
  /\ mapped = [p \in Procs |-> 0]
  /\ ram = [f \in Frames |-> 0] /\ ramFree = FormatFree(NumFrames)
  /\ swp = [s \in Slots |-> 0] /\ swpFree = FormatFree(NumSlots)
  /\ kpte = <<>> /\ kcells = <<>>
  /\ copy = [p \in Procs |-> NoCopy]
  /\ over = {}
  /\ cells = [p \in Procs |-> [g \in Pages |-> NotWritten]]
  /\ res = NoResult

-----------------------------------------------------------------------------
(* The replacement list.                                                      *)

\* find_victim_page: the tail of the list, the page that came in first.
Victim(p) == fifo[p][Len(fifo[p])]

\* Slip: the victim stays on the list.
WithoutVictim_Keeps(p) == fifo[p]

WithoutVictim(p) == SubSeq(fifo[p], 1, Len(fifo[p]) - 1)

\* enlist_pgn_node: at the head.
Enlisted(list, g) == <<g>> \o list

-----------------------------------------------------------------------------
(* pg_getpage.                                                                *)

Present(p, g) == InRam(pte[p][g])

\* The page is there, or a frame can be found for it: a free one, or that of a
\* victim for which swap has a slot.
CanGetPage(p, g) ==
  \/ Present(p, g)
  \/ ramFree # <<>>
  \/ fifo[p] # <<>> /\ swpFree # <<>>

\* SYSMEM_SWP_OP: swap after the frame of a victim is taken from it.  A clean
\* page is not written, even if its slot never held it.
SwappedOut(victim, slot) ==
  IF victim.dirty THEN CopyPage(ram, victim.loc, swp, slot) ELSE swp

\* SYSMEM_SWP_IN_OP, or zeroes: RAM after frame f has been filled for entry e.
SwappedIn(e, f, swap) ==
  IF InSwap(e) THEN CopyPage(swap, e.loc, ram, f) ELSE WriteFrame(ram, f, 0)

\* Slip: the slot the page came from is not given back.
GivenBack_Leaks(e, free) == free

\* The swap slot of a page that was read back is free again.
GivenBack(e, free) == IF InSwap(e) THEN AfterPut(free, e.loc) ELSE free

\* What a page fault on page g of process p leaves behind, in order: a frame is
\* taken from the free list or from the victim, whose contents go to a swap slot
\* if they are dirty and whose entry then names that slot; the page is read back
\* from its own slot, which becomes free, or filled with zeroes; its entry names
\* the frame and it is enlisted.
PageIn(p, g) ==
  LET evict == ramFree = <<>>
      e     == pte[p][g]
      v     == Victim(p)
      slot  == FirstFree(swpFree)
      f     == IF evict THEN pte[p][v].loc ELSE FirstFree(ramFree)
      out   == IF evict THEN SwappedOut(pte[p][v], slot) ELSE swp
      left  == IF evict THEN AfterGet(swpFree) ELSE swpFree
      gone  == IF evict
               THEN [pte[p] EXCEPT ![v] = SetSwap(@, slot)] ELSE pte[p]
  IN  [pt      |-> [gone EXCEPT ![g] = Loaded(@, f)],
       list    |-> Enlisted(IF evict THEN WithoutVictim(p) ELSE fifo[p], g),
       ram     |-> SwappedIn(e, f, out),
       ramFree |-> IF evict THEN ramFree ELSE AfterGet(ramFree),
       swp     |-> out,
       swpFree |-> GivenBack(e, left)]

\* The state pg_getpage leaves behind when it succeeds.
GetPage(p, g) ==
  IF Present(p, g)
  THEN [pt |-> pte[p], list |-> fifo[p], ram |-> ram, ramFree |-> ramFree,
        swp |-> swp, swpFree |-> swpFree]
  ELSE PageIn(p, g)

\* pg_getpage fails.  The victim may be off the list already when swap turns
\* out to be full.
GetPageFails(p, g) ==
  /\ ~CanGetPage(p, g)
  /\ fifo' = [fifo EXCEPT ![p] = IF @ = <<>> THEN @ ELSE WithoutVictim(p)]
  /\ UNCHANGED <<pte, devVars>>

-----------------------------------------------------------------------------
(* The accesses of a program.                                                 *)

\* A program whose current instruction is not in the middle of a copy.
Ready(p) == p \notin over /\ copy[p] = NoCopy

\* A user address of p: the page lies below the end of its area.
Mapped(p, g) == g < mapped[p]

\* pg_getpage succeeds and leaves state s; the caller settles the entries and RAM.
GetsPage(p, g, s) ==
  /\ CanGetPage(p, g)
  /\ fifo' = [fifo EXCEPT ![p] = s.list]
  /\ ramFree' = s.ramFree
  /\ swp' = s.swp /\ swpFree' = s.swpFree

\* pg_getval: the byte is in the frame that the page now has.
ByteIn(s, g) == ReadFrame(s.ram, s.pt[g].loc)

\* __read gets the page and leaves its bytes as they are.
ReadByte(p, g) ==
  LET s == GetPage(p, g) IN
    /\ GetsPage(p, g, s)
    /\ pte' = [pte EXCEPT ![p] = s.pt]
    /\ ram' = s.ram

\* Slip: the dirty bit is set only on a page fault, not on a hit.
StoreByte_DirtyOnFault(p, g, v) ==
  LET s == GetPage(p, g) IN
    /\ GetsPage(p, g, s)
    /\ pte' = [pte EXCEPT ![p] = IF Present(p, g) THEN s.pt
                                 ELSE [s.pt EXCEPT ![g] = Touched(@)]]
    /\ ram' = WriteFrame(s.ram, s.pt[g].loc, v)
    /\ cells' = [cells EXCEPT ![p][g] = v]

\* pg_setval gets the page, writes the byte, then marks the page dirty.
StoreByte(p, g, v) ==
  LET s == GetPage(p, g) IN
    /\ GetsPage(p, g, s)
    /\ pte' = [pte EXCEPT ![p] = [s.pt EXCEPT ![g] = Touched(@)]]
    /\ ram' = WriteFrame(s.ram, s.pt[g].loc, v)
    /\ cells' = [cells EXCEPT ![p][g] = v]

\* __write: the result of pg_setval is dropped, so that a byte for which there
\* is no frame is lost and 0 is returned all the same.
WriteByte(p, g, v) ==
  \/ StoreByte(p, g, v)
  \/ GetPageFails(p, g) /\ UNCHANGED cells

\* Slip: the new entry gets the pattern of vmap_pgd_memset, which reads as a
\* present page on a frame RAM does not have.
Grow_Pattern(p) ==
  /\ Ready(p)
  /\ mapped[p] < NumPages
  /\ pte' = [pte EXCEPT ![p][mapped[p]] =
               [st |-> "ram", dirty |-> FALSE, loc |-> FpnLimit - 1]]
  /\ mapped' = [mapped EXCEPT ![p] = @ + 1]
  /\ UNCHANGED <<fifo, devVars, kernelVars, copy, over, cells, res>>

\* inc_vma_limit with vm_map_ram: one more page, its entry set to zero.
Grow(p) ==
  /\ Ready(p)
  /\ mapped[p] < NumPages
  /\ pte' = [pte EXCEPT ![p][mapped[p]] = EmptyEntry]
  /\ mapped' = [mapped EXCEPT ![p] = @ + 1]
  /\ UNCHANGED <<fifo, devVars, kernelVars, copy, over, cells, res>>

\* libread: a failed read ends the program.
Read(p, g) ==
  /\ Ready(p) /\ Mapped(p, g)
  /\ \/ /\ ReadByte(p, g)
        /\ res' = [op |-> "read", proc |-> p, page |-> g,
                   val |-> ByteIn(GetPage(p, g), g)]
        /\ UNCHANGED over
     \/ /\ GetPageFails(p, g)
        /\ over' = over \cup {p}
        /\ UNCHANGED res
  /\ UNCHANGED <<mapped, kernelVars, copy, cells>>

\* libwrite.
Write(p, g, v) ==
  /\ Ready(p) /\ Mapped(p, g)
  /\ WriteByte(p, g, v)
  /\ UNCHANGED <<mapped, kernelVars, copy, over, res>>

\* The program has run its last instruction, or one that failed.  cpu_routine
\* frees its pcb without running it again, so that the free_pcb_memphy in run()
\* is not reached: its frames and slots stay where they are.
EndProgram(p) ==
  /\ Ready(p)
  /\ over' = over \cup {p}
  /\ UNCHANGED <<pte, fifo, mapped, devVars, kernelVars, copy, cells, res>>

-----------------------------------------------------------------------------
(* The kernel's pages.                                                        *)

\* Slip: the kernel's frames stay on the free list.
KernelMap_KeepsFree(n) ==
  /\ \E p \in Procs : Ready(p)
  /\ HasFreeRun(ramFree, n, NumFrames)
  /\ LET f == FreeRun(ramFree, n, NumFrames) IN
       kpte' = kpte \o [i \in 1 .. n |-> Pinned(f + i - 1)]
  /\ kcells' = kcells \o [i \in 1 .. n |-> NotWritten]
  /\ UNCHANGED <<pte, fifo, mapped, devVars, copy, over, cells, res>>

\* k_vm_map_ram: a kernel request of a running program takes n contiguous frames
\* out of the free list, as they are, and never gives them back.  Without such a
\* run the request fails and changes nothing.
KernelMap(n) ==
  /\ \E p \in Procs : Ready(p)
  /\ HasFreeRun(ramFree, n, NumFrames)
  /\ LET f == FreeRun(ramFree, n, NumFrames) IN
       /\ ramFree' = AfterGetRun(ramFree, f, n)
       /\ kpte' = kpte \o [i \in 1 .. n |-> Pinned(f + i - 1)]
  /\ kcells' = kcells \o [i \in 1 .. n |-> NotWritten]
  /\ UNCHANGED <<pte, fifo, mapped, ram, swp, swpFree, copy, over, cells, res>>

\* libkmem_copy_from_user, first half of a round: __read_user_mem.  When it
\* fails the instruction fails, with the bytes of earlier rounds copied.
ReadUserMem(p, g, k) ==
  /\ Ready(p) /\ Mapped(p, g) /\ k \in KernelPages
  /\ \/ /\ ReadByte(p, g)
        /\ copy' = [copy EXCEPT ![p] = [to |-> "kernel", page |-> k,
                                        val |-> ByteIn(GetPage(p, g), g)]]
        /\ UNCHANGED over
     \/ /\ GetPageFails(p, g)
        /\ over' = over \cup {p}
        /\ UNCHANGED copy
  /\ UNCHANGED <<mapped, kernelVars, cells, res>>

\* Slip: the byte goes to the frame whose number is that of the page.
WriteKernelMem_NoWalk(p) ==
  /\ copy[p].to = "kernel"
  /\ LET c == copy[p] IN
       /\ ram' = WriteFrame(ram, c.page - 1, c.val)
       /\ kcells' = [kcells EXCEPT ![c.page] = c.val]
  /\ copy' = [copy EXCEPT ![p] = NoCopy]
  /\ UNCHANGED <<pte, fifo, mapped, ramFree, swp, swpFree, kpte, over, cells, res>>

\* Second half: __write_kernel_mem.
WriteKernelMem(p) ==
  /\ copy[p].to = "kernel"
  /\ LET c == copy[p] IN
       /\ ram' = WriteFrame(ram, kpte[c.page].loc, c.val)
       /\ kcells' = [kcells EXCEPT ![c.page] = c.val]
  /\ copy' = [copy EXCEPT ![p] = NoCopy]
  /\ UNCHANGED <<pte, fifo, mapped, ramFree, swp, swpFree, kpte, over, cells, res>>

\* libkmem_copy_to_user, first half of a round: __read_kernel_mem, without
\* mmvm_lock.  One step, because the entry it looks up first never changes.
ReadKernelMem(p, k, g) ==
  /\ Ready(p) /\ Mapped(p, g) /\ k \in KernelPages
  /\ copy' = [copy EXCEPT ![p] =
                [to |-> "user", page |-> g, val |-> ReadFrame(ram, kpte[k].loc)]]
  /\ UNCHANGED <<pte, fifo, mapped, devVars, kernelVars, over, cells, res>>

\* Second half: __write_user_mem, which does not notice a lost byte.
WriteUserMem(p) ==
  /\ copy[p].to = "user"
  /\ WriteByte(p, copy[p].page, copy[p].val)
  /\ copy' = [copy EXCEPT ![p] = NoCopy]
  /\ UNCHANGED <<mapped, kernelVars, over, res>>

Next ==
  \/ \E p \in Procs :
       \/ Grow(p)
       \/ EndProgram(p)
       \/ WriteKernelMem(p)
       \/ WriteUserMem(p)
       \/ \E g \in Pages :
            \/ Read(p, g)
            \/ \E v \in Values : Write(p, g, v)
            \/ \E k \in KernelPages : ReadUserMem(p, g, k) \/ ReadKernelMem(p, k, g)
  \/ \E n \in 1 .. MaxKernelRun : KernelMap(n)

Spec == Init /\ [][Next]_vars

-----------------------------------------------------------------------------
(* Properties.                                                                *)

Swapped(p, g) == InSwap(pte[p][g])

\* Two entries with the same location.
FramesDiffer ==
  \A p, q \in Procs, g, h \in Pages :
    /\ Present(p, g) /\ Present(q, h) /\ pte[p][g].loc = pte[q][h].loc
    => p = q /\ g = h

SlotsDiffer ==
  \A p, q \in Procs, g, h \in Pages :
    /\ Swapped(p, g) /\ Swapped(q, h) /\ pte[p][g].loc = pte[q][h].loc
    => p = q /\ g = h

UserFrames == {f \in Frames : \E p \in Procs, g \in Pages :
                                Present(p, g) /\ pte[p][g].loc = f}
UserSlots  == {s \in Slots : \E p \in Procs, g \in Pages :
                               Swapped(p, g) /\ pte[p][g].loc = s}
KernelFrames == {kpte[k].loc : k \in KernelPages}

\* Every frame of RAM is in exactly one place: once on the free list, behind one
\* page of one process, or behind one kernel page.  Eviction, page-in and the
\* kernel's contiguous allocation neither share, drop nor double a frame
\* (pg_getpage, MEMPHY_get_contiguous_freefp).
FrameExclusive ==
  /\ FramesDiffer
  /\ IsInjective(ramFree)
  /\ \A k, l \in KernelPages : kpte[k].loc = kpte[l].loc => k = l
  /\ UserFrames \cap ToSet(ramFree) = {}
  /\ UserFrames \cap KernelFrames = {}
  /\ KernelFrames \cap ToSet(ramFree) = {}
  /\ Frames = UserFrames \cup ToSet(ramFree) \cup KernelFrames

\* Every swap slot is free once or holds one page of one process: pg_getpage
\* gives the slot of a page it reads back to the free list, and no other.
SlotExclusive ==
  /\ SlotsDiffer
  /\ IsInjective(swpFree)
  /\ UserSlots \cap ToSet(swpFree) = {}
  /\ Slots = UserSlots \cup ToSet(swpFree)

\* The replacement list names present pages only, each once, so that the victim
\* find_victim_page returns has a frame to give up.
FifoPresent ==
  \A p \in Procs :
    /\ IsInjective(fifo[p])
    /\ \A i \in DOMAIN fifo[p] : Present(p, fifo[p][i])

\* Whatever evictions, page-ins and clean-page shortcuts happened since, the
\* last value a process stored on a page is where its entry says, and is never
\* only in RAM with a clean entry (the dirty bits of pg_getpage and pg_setval).
MemoryIntegrity ==
  \A p \in Procs, g \in Pages : cells[p][g] # NotWritten =>
    \/ Present(p, g) /\ pte[p][g].dirty /\ ram[pte[p][g].loc] = cells[p][g]
    \/ Swapped(p, g) /\ swp[pte[p][g].loc] = cells[p][g]

\* A kernel page holds the last byte a copy of any process brought to it,
\* whatever is paged in and out around it: its frame is never a victim and
\* __write_kernel_mem reaches no other frame.
KernelIntegrity ==
  \A k \in KernelPages :
    kcells[k] # NotWritten => ram[kpte[k].loc] = kcells[k]

\* What a program reads is what it wrote last, as if frames and swap did not
\* exist and no other process ran; and a copy carries the byte of its source to
\* its destination, or ends the program, or loses it on the way to user memory.
MEM == INSTANCE ProcessMemory WITH Values <- Bytes
RefinesProcessMemory == MEM!MemSpec

\* "Zero-fill-on-demand" (libmem.c:432): a page nobody has written holds zeroes.
ZeroFillOnDemand ==
  \A p \in Procs, g \in Pages :
    Present(p, g) /\ cells[p][g] = NotWritten => ram[pte[p][g].loc] = 0

\* "Enlist the new page in the USER's FIFO tracking list" (libmem.c:459): a page
\* of a running process that is in RAM can be chosen as a victim again.
PresentTracked ==
  \A p \in Procs, g \in Pages :
    p \notin over /\ Present(p, g) => g \in ToSet(fifo[p])
=============================================================================
