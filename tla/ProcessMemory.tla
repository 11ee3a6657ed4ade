---------------------------- MODULE ProcessMemory ----------------------------
(* What the paging code promises, with no frames and no swap in sight.  Each  *)
(* process has a private array of pages that grows at its end, and all share  *)
(* the pages of the kernel.  A read of a page that has been written returns   *)
(* what was written last, or fails; a read of a page never written promises   *)
(* nothing (see ZeroFillOnDemand in Paging); a write is stored or has no      *)
(* effect at all.  A copy takes a byte from one side and puts that byte down  *)
(* on the other in a later step.                                              *)
EXTENDS Integers, Sequences

CONSTANTS Procs, Pages, Values, MaxKernelRun

NotWritten == -1            \* no write has reached the page yet
NoResult == [op |-> "none"]
NoCopy == [to |-> "nowhere"]

VARIABLES cells,            \* what each process has stored on each page
          kcells,           \* what has been copied to each kernel page
          mapped,           \* number of pages of each process
          copy,             \* the byte each process has in hand
          res               \* what the last read returned

memVars == <<cells, kcells, mapped, copy, res>>

MemInit ==
  /\ cells = [p \in Procs |-> [g \in Pages |-> NotWritten]]
  /\ kcells = <<>>
  /\ mapped = [p \in Procs |-> 0]
  /\ copy = [p \in Procs |-> NoCopy]
  /\ res = NoResult

\* What a read of a cell may return.
Reads(cell) == {v \in Values : cell \in {NotWritten, v}}

GrowMem(p) ==
  /\ mapped[p] \in Pages
  /\ mapped' = [mapped EXCEPT ![p] = @ + 1]
  /\ UNCHANGED <<cells, kcells, copy, res>>

GrowKernel(n) ==
  /\ kcells' = kcells \o [i \in 1 .. n |-> NotWritten]
  /\ UNCHANGED <<cells, mapped, copy, res>>

ReadMem(p, g) ==
  /\ g < mapped[p]
  /\ \E v \in Reads(cells[p][g]) :
       res' = [op |-> "read", proc |-> p, page |-> g, val |-> v]
  /\ UNCHANGED <<cells, kcells, mapped, copy>>

WriteMem(p, g, v) ==
  /\ g < mapped[p]
  /\ cells' = [cells EXCEPT ![p][g] = v]
  /\ UNCHANGED <<kcells, mapped, copy, res>>

\* A copy to kernel page k has the byte of page g in hand.
TakeUser(p, g, k) ==
  /\ g < mapped[p] /\ k \in DOMAIN kcells /\ copy[p] = NoCopy
  /\ \E v \in Reads(cells[p][g]) :
       copy' = [copy EXCEPT ![p] = [to |-> "kernel", page |-> k, val |-> v]]
  /\ UNCHANGED <<cells, kcells, mapped, res>>

PutKernel(p) ==
  /\ copy[p].to = "kernel"
  /\ kcells' = [kcells EXCEPT ![copy[p].page] = copy[p].val]
  /\ copy' = [copy EXCEPT ![p] = NoCopy]
  /\ UNCHANGED <<cells, mapped, res>>

\* A copy to page g has the byte of kernel page k in hand.
TakeKernel(p, k, g) ==
  /\ g < mapped[p] /\ k \in DOMAIN kcells /\ copy[p] = NoCopy
  /\ \E v \in Reads(kcells[k]) :
       copy' = [copy EXCEPT ![p] = [to |-> "user", page |-> g, val |-> v]]
  /\ UNCHANGED <<cells, kcells, mapped, res>>

\* The byte is stored, or lost without notice.
PutUser(p) ==
  /\ copy[p].to = "user"
  /\ cells' \in {cells, [cells EXCEPT ![p][copy[p].page] = copy[p].val]}
  /\ copy' = [copy EXCEPT ![p] = NoCopy]
  /\ UNCHANGED <<kcells, mapped, res>>

MemNext ==
  \/ \E p \in Procs :
       \/ GrowMem(p)
       \/ PutKernel(p)
       \/ PutUser(p)
       \/ \E g \in Pages :
            \/ ReadMem(p, g)
            \/ \E v \in Values : WriteMem(p, g, v)
            \/ \E k \in DOMAIN kcells : TakeUser(p, g, k) \/ TakeKernel(p, k, g)
  \/ \E n \in 1 .. MaxKernelRun : GrowKernel(n)

MemSpec == MemInit /\ [][MemNext]_memVars
=============================================================================
