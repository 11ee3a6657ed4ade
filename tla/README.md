# TLA+ models of the simulator

The repository holds a teaching simulator of an operating system in C: several
CPU threads run small programs, a loader thread brings the programs in, a timer
thread paces all of them slot by slot, a multi-level queue scheduler decides who
runs, and a paging memory manager gives every program (and the kernel) virtual
memory over simulated RAM and swap devices. This directory keeps its TLA+ models,
the TLC configurations that check them, and the proofs about them.

Paths below are relative to the repository (`src/os.c`, `include/mm.h`). The
models describe the build that `include/os-cfg.h` selects: `MLQ_SCHED`,
`MM_PAGING`, `MM64`.

    tlc -config Timer.cfg Timer.tla     # check one instance
    tlapm TimerProofs.tla               # check the proofs

## 1. Inventory

### Threads and locks

`main` (`src/os.c`) reads a configuration, attaches one timer device per CPU and
one for the loader, starts the timer thread, creates the loader and the CPU
threads, joins them and stops the timer. What they share:

| lock | guards | taken in |
|---|---|---|
| `event_lock` of a device | setting `done`, `fsh` | `next_slot`, `detach_event`, the scan of `timer_routine` |
| `timer_lock` of a device | clearing `done` | `next_slot`, the release loop of `timer_routine` |
| `sched_lock` | ready queues, slots, `running_list` | every operation of `src/sched.c` |
| `queue_lock` | `queue.c` inside `sched.c` | held only under `sched_lock` |
| `done_lock` | `done`, set by the loader | `is_done`, `set_is_done` |
| `mmvm_lock` | all of user and kernel memory | `src/libmem.c` |
| `memphy_lock` | the devices' free lists | `src/mm-memphy.c` |

The order is `mmvm_lock`, then `sched_lock` or `memphy_lock`; nothing that holds
`sched_lock` calls into memory, so the locks cannot deadlock. The condition
variables of the timer are the only places where a thread waits for another.

### Components

**Timer and slot barrier** (`src/timer.c`). State: the global time, a stop flag,
and per device the flags `done` and `fsh` with two mutexes and two condition
variables. Operations: `next_slot` and `detach_event` on a device thread,
`timer_routine` on the timer thread, `stop_timer` on `main`. Hard: `done` is set
under one mutex and reset under another; a wake-up may be lost, or happen for no
reason; the timer decides whether to leave from a count it builds device by
device. Correct when no slot is skipped or repeated, time moves only when
everybody waits, and nobody waits for ever.

**Scheduler and queues** (`src/sched.c`, `src/queue.c`). State: one FIFO queue
and one slot budget per priority, and the list of running processes. Operations:
`add_proc`, `get_proc`, `put_proc`, `sched_remove_proc`, under one lock. Hard:
budgets are consumed and refilled by a search that is tried twice; queues are
arrays shifted by hand; a full queue drops its argument. Correct when processes
are neither lost nor doubled, no level starves, and no CPU idles beside work.

**CPUs, loader, simulation** (`src/os.c`, `src/cpu.c`). State: each CPU's process
and rest of quantum, the loader's position, `done`. Operations: one iteration of
`cpu_routine` or `ld_routine`, ended by `next_slot`. Hard: what a CPU does between
two lock sections (fail to get a process, then read `done`; give up a process,
then take another); local state that survives a process. Correct when each
process is in one place, runs to its end and the simulation stops.

**Physical memory** (`src/mm-memphy.c`). State: contents and free list of a
device. Operations: take, return, take a contiguous run, read, write, copy a
frame. Correct when a frame is in one place at a time.

**Page tables** (`src/mm64.c`, `include/mm.h`). State: for every process and for
the kernel a tree of directories, five levels deep, with 32-bit words at its
leaves. Operations: the walk that looks an entry up, the walk that allocates the
missing directories, and the setters of the fields of a word. Hard: each space
grows its tree at its own times out of one allocator; a word is reused for a
frame number, a swap offset and again a frame number. Correct when an operation
on one page changes the entry of no other page.

**Demand paging** (`src/libmem.c`, `src/mm64.c`, `src/sys_mem.c`). State: one FIFO
list of pages per process, RAM and swap, the entries. Operations: `pg_getpage`
under `pg_getval` and `pg_setval`, growth of an area, the kernel's contiguous
mapping, the copies between user and kernel memory, the end of a program. Hard: a
page fault evicts, copies, swaps in and relinks in an order where each step can
fail; clean pages are not written back; a copy is split over lock sections.
Correct when each process sees a private memory that keeps what was written.

**User areas** (`src/libmem.c`, `src/mm-vm.c`). State: the symbol table, the free
list, `sbrk` and `vm_end` of the area, the registers. Operations: `liballoc`,
`libfree`, address resolution of `libread` and `libwrite`. Hard: first fit edits
list nodes in place. Correct when used and free regions partition the area.

**Kernel allocator and pools** (`src/libmem.c`). State: one area and symbol table
shared by all CPUs, and slabs with index-linked objects per pool. Operations:
`libkmem_malloc`, `libkmem_cache_pool_create`, `libkmem_cache_alloc`, `libfree`,
and the look-ups of `libkmem_copy_from_user` and `libkmem_copy_to_user`. Hard:
some calls use several lock sections, and some look-ups take no lock. Correct
when kernel memory is partitioned and each object is free or in use, once.

Section 9 lists what is not modelled.

## 2. Modules

    SlotClock  <-implements-  Timer  <-proved-  TimerProofs
        |  composed into
        v
       Os  --extends-->  Sched  <--extends--  SchedClients
        |  implements
        v
    Lifecycle

    SchedProofs (contracts of Sched)  --proves-->  SchedClients
        |  used by
        v
    OsProofs                          --proves-->  Os, Os implements Lifecycle

    Entries <-extends- Paging  --extends-->  Memphy
       ^                 |  implements
       |                 v
       |            ProcessMemory          Paging, Memphy  <-proved-  PagingProofs
       |
    PageMap  <-implements-  PageTable  --extends-->  Words
                                                   PageTable  <-proved-  PageTableProofs

    Vma, Kmem  --extend-->  Regions       Regions  <-proved-  RegionProofs
     |  (Vma) implements                                        |  used by
     v                                       Vma  <-proved-  VmaProofs,
    Heap                                    Kmem  <-proved-  KmemProofs

| module | models |
|---|---|
| `SlotClock` | what a slot is: threads work, wait or have left; time advances when nobody works. Abstract. |
| `Timer` | `timer.c` step by step between its lock operations |
| `TimerProofs` | the inductive invariant of `Timer` and its theorems |
| `Sched` | the operations of `sched.c` and `queue.c` on queues, budgets and `running_list` |
| `SchedClients` | `Sched` under clients that add, take, give back and finish processes without end |
| `Lifecycle` | what a process goes through: new, ready, running, finished. Abstract. |
| `Os` | `cpu_routine` and `ld_routine`, over `Sched` and `SlotClock` |
| `SchedProofs` | contracts of the operations of `Sched`, and the theorems on `SchedClients` |
| `OsProofs` | the inductive invariant of `Os`, its theorems, and the refinement of `Lifecycle`, the safety part |
| `Memphy` | a device: its cells, its free list, the contiguous allocation |
| `Entries` | a page table entry as the paging code reads and writes it |
| `Paging` | page faults, eviction, swap, reads and writes, the kernel's frames, copies |
| `ProcessMemory` | a private array per process that returns what was written last, and a copy that carries its byte. Abstract. |
| `PagingProofs` | what the operations on free frames do, the inductive invariant of `Paging`, its theorems, and the refinement of `ProcessMemory` |
| `Words` | a 32-bit word as a set of bits, with the macros of `include/bitops.h` |
| `PageTable` | the trees and words of `mm64.c` |
| `PageMap` | a private map from pages to entries per space. Abstract. |
| `PageTableProofs` | what walks and words do, the inductive invariant of `PageTable`, its theorems, and the refinement of `PageMap` |
| `Regions` | the operations on one area: first fit, growth, release, symbol look-up |
| `RegionProofs` | what each operation of `Regions` does to the addresses of an area |
| `Vma` | ALLOC, FREE, READ, WRITE of a program, over `Regions` |
| `VmaProofs` | the inductive invariant of `Vma`, its theorems, and the refinement of `Heap` |
| `Heap` | a set of disjoint blocks. Abstract. |
| `Kmem` | kernel allocator, pools, slabs and copy look-ups on several CPUs, over `Regions` |
| `KmemProofs` | the inductive invariant of `Kmem` and its theorems |
| `MCOs`, `MCPaging`, `MCKmem` | the workloads and symmetry sets TLC uses |

### How they correspond to the code

**Timer.** Mutexes are no variables: a step that locks, tests and unlocks, or
locks, tests and sleeps, is one action guarded by "the mutex is free"; a step that
locks and writes keeps the mutex until the signalling step after it. So
`next_slot` is `MarkDone`, `SignalDone`, then `WaitForSlot` and `ReturnFromSlot`;
`detach_event` is `MarkFinished`, `SignalFinished`; `timer_routine` is
`EnterLoop`, `SleepOnDevice`/`CountDevice` per device, `ExitTimer` or
`AdvanceTime`, and `ClearDone`, `SignalSlot` per device. `SpuriousDeviceWakeup`
and `SpuriousTimerWakeup` are what POSIX permits. `slots` is a history variable.

**Sched.** `sched_lock` is held throughout each operation, so each is one action.
`GetProc` states the outcome of the search with its refill: the lowest level that
waits and has budget; if every waiting level has spent its budget, all budgets
are refilled and the lowest waiting level is served.

**Os.** A thread is split where it takes a lock or ends its slot. `run` moves `pc`
by one or, when an instruction fails, to the end. The slot clock stands for the
timer: `Timer` is shown to implement it.

**PageTable.** `tables` is the memory the trees take up: `dir` leads from an entry
of a directory to the directory below, `word` holds the entries of the last
level, and both leave out what is zero. A directory goes by the order of its
allocation. `extent` counts the pages below `vm_end` of a space. The fields of an
address are quotients and remainders by `PageSize` and `NumEntries` (2^12 and 2^9 in
the program); the fields of a word have the widths of the program: a word is
the set of its bits that are one, and `SETBIT`, `CLRBIT`, `GETVAL` and `SETVAL` are
translated bit by bit. A page fault is one action of the calls that `pg_getpage`
makes, in their order.

**Paging.** The operations run under `mmvm_lock`, so each access is one action and
`PageIn` follows `pg_getpage` in order; an entry is empty, in RAM or in swap with
its dirty bit (which is what `PageTable` shows the words to be), and a frame
number keeps `FpnLimit` values (2^13 in `include/mm.h`). A page holds one value for
the bytes a program looks at. A round of a copy has two halves, each with its own
lock section or none: `ReadUserMem`, `WriteKernelMem` and `ReadKernelMem`,
`WriteUserMem`, with the byte in `copy` in between. `cells`, `kcells` and `res` are
history variables: what was stored, what was copied to the kernel, what a read
returned.

**Vma, Kmem.** An area is a record of symbol table, free list, `sbrk` and mapped
end. `Kmem` has one action per section of `mmvm_lock`: `CacheAlloc` that finds no
object continues with `SlabRegion`, `SlabPush`, `CacheRetry`; `libfree` is
`FreeLookup` (no lock) and `Kfree` or `CacheFree`; a copy is `CopyLookup` (no lock)
and, after its rounds, `CopyEnd`. The free objects of a slab are a sequence in the
order the index links would hand them out.

Operators named `X_Something` next to an operator `X`, with a comment that starts
"Slip:", are wrong variants of `X` that the specifications never use. Each shows
that a property can fail: putting the variant in the place of `X` makes TLC
report the property violated. `PROJECT.json` lists which slip goes with which
property.

## 3. Runs

A bound is a number the program does not have. `MaxTime` (`Timer`), `NumPages`
and `MaxKernelRun` (`Paging`), `MaxPages` (`PageTable`) and `MaxAddr` (`Vma`,
`Kmem`) are bounds of the models. The other constants are the program's own
parameters, or constants of its headers at small values.

| run | instance | what it shows |
|---|---|---|
| `timer` | 3 devices, time up to 3 | Slots are neither skipped nor repeated (`LockStep`), the writers of `done` never race (`DoneRaceFree`), the timer leaves nobody behind (`NobodyStranded`), time moves only when all wait (`StableTime`), `next_slot` and `stop_timer` return (`NextSlotReturns`, `StopReturns`), and the threads implement the slot clock (`RefinesSlotClock`, `ImplementsSlotClock`). `TimerInv` is the invariant the proofs use. |
| `sched_clients` | 3 processes, 3 levels, 2 held at once | No order of calls loses or doubles a process (`HeldOrQueued`); a waiting level is bypassed at most as often as the budgets of one round allow (`BoundedBypass`); with endless arrivals each waiting process is eventually taken (`NoStarvation`). |
| `os` | 2 CPUs, 3 programs, 2 levels, quantum 2; the programs arrive together with 0, 2 or 3 instructions (the first with 3), or with 3 each and the last at time 4 | Each process is in exactly one place (`Ownership`), `running_list` is exact (`RunningListed`), CPUs stop only after all work (`NoProcessLost`) and none idles for a slot beside work, except for the one process that the loader may add during that slot (`WorkConserving`); each dispatch gets a whole quantum (`FreshQuantum`), the simulation ends (`SimulationEnds`), and the whole implements the life cycle with its liveness (`ImplementsLifecycle`). |
| `page_table` | 2 processes and the kernel, 5 levels of 2 entries, 3 pages mapped in all, grown by 1 or 2; frame 5000, swap frame 1048577; one page reserved by a program far away from its area | The directories form one tree per space (`TreeShape`), kernel pages keep their frames (`KernelPinned`), and read through the walk the words are a private map (`RefinesPageMap`). |
| `paging` | 2 processes with 2 pages each, 2 frames, 2 slots, 2 values, kernel runs of up to 2 | Frames and slots have one user each (`FrameExclusive`, `SlotExclusive`), a victim has a frame (`FifoPresent`), stored and copied values are never lost (`MemoryIntegrity`, `KernelIntegrity`), and each process sees a private memory (`RefinesProcessMemory`). |
| `vma` | 3 symbols, pages of 2, sizes 0 to 3, addresses to 5 | The area is partitioned (`RegionsPartition`), an access that passes the checks hits one mapped region (`AccessInRegion`), the table implements a heap (`RefinesHeap`). |
| `kmem` | 2 CPUs, one pool of two-object slabs, 3 symbols, 6 addresses | Until a refill has raced for a symbol: kernel memory is partitioned (`KernelPartition`), an object is free or in use once (`ObjectsConserved`), a granted block is listed once and keeps its symbol during a copy (`GrantsListed`). |
| `os_queue_full`, `os_default_prio`, `paging_zero_fill`, `paging_untracked`, `kmem_race` | one property each, expected to be violated | The disagreements of section 6. |

### Why the bounds are enough

- **Timer.** Three devices are the fewest with a first, a middle and a last one
  in `dev_list`; three slots let a device be released late in one round and be
  done early in the next. The safety properties are proved for every number of
  devices and every bound on time.
- **Scheduler.** Three levels give budgets 3, 2 and 1; three processes let one
  wait behind another at its level while a third waits at another level. The
  safety properties are proved for all numbers.
- **Os.** Two CPUs race for the last process and for the end; a third program
  exceeds the CPUs, so processes wait. With a quantum of 2, a program of 3 is
  preempted, one of 2 ends together with its quantum, one of 0 ends in its first
  slot. The late arrival finds both CPUs idle. Safety holds for every workload and
  number of CPUs, see section 5.
- **PageTable.** Two entries per directory make every level branch within five
  bits; two of three pages share a last directory and the third leaves it, and the
  page reserved far away shares only the upper ones. 5000 and 1048577 reach both
  ends of their fields, so that a mask that is a bit off is seen.
- **Paging.** Two frames and two slots for four pages: swap runs full, faults
  fail, the kernel competes, and programs end and leave frames behind. Two values
  tell a page's contents from another's and from zero. Safety holds for every size
  of the instance, see section 5.
- **Vma.** Sizes 0 to 3 with pages of 2 are: empty, less than a page, a page, more
  than a page. One register suffices, because it starts with any value and READ
  may load any. All four properties are proved for every size.
- **Kmem.** Two objects per slab, so that a slab can be partly free; three symbols,
  so that the table gets full; room for three slabs. Safety is proved for all
  numbers of CPUs, pools, symbols, objects and addresses.

`MCPaging` and `MCKmem` declare processes and values, and CPUs, as symmetric: the
specifications compare them for equality only, no constant tells one of them
from another, and both runs check no liveness.

`CHECK_DEADLOCK FALSE` is set for `Paging`, `PageTable`, `Vma` and `Kmem`: programs
end, and all pages, symbols or addresses may be taken with no CPU owing a step.
In `Timer` and `Os` the end of the simulation is an explicit stuttering step, so
every other state without a successor is reported.

## 4. Fairness

Each pthread is scheduled by the host, and the locks are held for a bounded
number of steps, so each thread that can step eventually does: weak fairness of
`DeviceStep(d)`, `TimerStep` and `MainStep` in `Timer`. Nothing is promised for
spurious wake-ups, and no thread is obliged to call `next_slot` at all; the
liveness properties speak of calls that have begun. With `MaxTime` reached a
device can only detach, which stands for programs that end.

In `Os` each CPU, the loader and the end of a slot are weakly fair; the last is
`ImplementsSlotClock` of module `Timer`. In `SchedClients` fetching and releasing
are weakly fair: a CPU calls `get_proc` whenever it has no process, and gives a
process up when its quantum or program ends. Arrivals are not fair.
`Paging`, `PageTable`, `Vma` and `Kmem` check safety only: every call returns by
itself.

## 5. What is proved

`tlapm` checks every step of what follows, for every value of the constants that
the named assumptions of the modules allow.

### The timer

| theorem of `TimerProofs` | says |
|---|---|
| `TimerProtocol`, `TimerTypes` | `Spec => []TimerInv`, `Spec => []TypeOK` |
| `TimerLockStep` | no slot is skipped or repeated |
| `TimerDoneRaceFree` | a device's `done = 1` and the timer's `done = 0` never race |
| `TimerNobodyStranded` | the timer leaves only when no device is left |
| `TimerStableTime` | time advances only while all devices wait or have left |
| `TimerRefinesSlotClock` | every step of the threads is a step of the slot clock or a stutter |

The constants are the number `N` of devices (at least one) and `MaxTime`. None of
these properties is inductive. The difficulty is that the timer sees the devices
one at a time: when it advances time it acts on what it saw of device 1 a whole
scan ago. `TimerInv` says why that is still true:

- `PassedInv`: a device that the scan has counted is gone, or has set `done` and
  is past its unlock; it can do nothing until it is released. It is kept for the
  release loop for the devices not yet released, which is what separates the two
  mutexes that guard `done`.
- `ClearedInv`: between the reset of `done` and the signal, the device is
  not in its own code (the timer still holds its `timer_lock`).
- `CountInv`: the counter of finished devices equals the number of finished
  devices *before the scan position*, not of all. At the end of the scan the two
  agree, so that equality with `N` means everybody has left (`ExitInv`).
- `FlagInv`, `SlotInv`, `IndexInv`: the flags follow the control state, the number
  of returns follows time, the position is inside the list.

There is one lemma per conjunct with a step per action, and two lemmas on the
cardinality in `CountInv`. The refinement uses the mapping `phaseBar` of `Timer`:
a device waits from the moment it sets `done` until time advances, although its
flag is cleared only later.

### Paging

| theorem of `PagingProofs` | says |
|---|---|
| `TypeCorrect` | entries name frames and slots that exist |
| `FramesExclusive`, `SlotsExclusive` | every frame and slot is in exactly one place |
| `VictimsPresent` | what `find_victim_page` returns has a frame |
| `MemoryKept`, `KernelKept` | no stored or copied byte is ever lost |
| `PagingRefines` | `Paging` implements `ProcessMemory` |

They hold for every number of processes, pages, frames, slots and values, under
the hypothesis `FramesFit`: RAM has at most `FpnLimit` frames. It is a hypothesis of
the theorems and no assumption of the module, because a configuration of the
repository breaks it (section 6). The inductive invariant `Inv` is the conjunction
of the six invariants with

- `BeyondEnd`: an entry above the end of the area is empty and nothing was stored
  there, so that `Grow`, which sets the entry to zero, throws nothing away;
- `CopyMapped`: the user page of a copy under way is mapped.

`MemoryKept` needs frames and slots to be exclusive (a write to one page must not
change another), and the dirty bits for the step where a clean victim is not
written to swap: a page with contents of its own is dirty as long as it is in RAM,
because reading a page back from swap sets its bit again. The proof is arranged
around one contract, `Served`: what the state returned by `GetPage` promises,
whichever of its three ways it took (present, free frame, victim). `ServedHit`,
`ServedFresh` and `ServedEvict` establish it; the actions that access a page use
nothing else. Frames and slots are treated by the same lemmas on what "a kind of
location" owns (`Gains`, `Loses`, `SameKind`, `KeepsApart`).

The first lemmas state what the operations on a free list do: `FormatFree` lists
every frame once, `AfterGet` takes one frame and keeps the others, `AfterPut` adds
one, and the contiguous allocation takes out exactly the frames of its run
(`TakeRun`, `FindRun`, `PutRun`). `AfterGetRun` is a recursive function over the
list; facts about it are proved from the least index at which they would fail
(`LeastNatural`), since the induction theorems of the library need an operator
as an argument.

### The scheduler

| theorem of `SchedProofs` | says |
|---|---|
| `ClientsHeldOrQueued` | no order of scheduler calls loses or doubles a process, and `running_list` is what is held |
| `ClientsBoundedBypass` | a waiting level is bypassed at most as often as the budgets of a round allow |

The first part turns each operation of `sched.c` into a contract: which processes it
adds to or takes from which queue, and that no queue holds a process twice
(`AddProcContract`, `PutProcContract`, `RemoveProcContract`, `GetProcContract`). The
proofs below use the contracts and never look into a queue again. The hypothesis
`RunningFits` is that `running_list` has room for one process of every CPU.

The bypass bound is proved from `BypassInv`: what level `i` has been bypassed so
far, plus what is still ahead of it, is at most the bound. "Ahead" counts the turns
the levels above have left and, once level `i` has spent its own budget, a full
round after the next refill. A dispatch from a level above takes one turn from
what is ahead and adds one to what has been; the step that refills is the one
where the two cases of `Ahead` meet.

### The simulation

| theorem of `OsProofs` | says |
|---|---|
| `OsTypes`, `RunningExact` | `Spec => []OsTypeOK`, `Spec => []RunningListed` |
| `ProcessesOwned` | a process is in exactly one place: to be loaded, in one queue, with one CPU, freed |
| `NothingLost` | the CPUs stop only after all work |
| `WorkConserved` | no CPU sits out a slot beside work |
| `QuantumFresh` | a dispatch gets a whole quantum |
| `ImplementsLifeSafety` | the simulation implements the safety part of `Lifecycle` |

They hold for every number of CPUs, programs and levels and every workload, under
the hypothesis `QueuesFit`: the programs are no more than a queue can hold. Without
it they are false, as `os_queue_full` shows. The inductive invariant `OsInv` adds to
the properties

- `InputInv` and `NoDoubles`: the workload does not change, no queue holds a
  process twice;
- `ControlInv`: what a CPU's locals are where it stands (no process when it has
  stopped, no rest of quantum when it has none), and that `done` is set exactly when
  the loader has left its loop, with everything loaded;
- `PlaceInv`: the places of a process exclude one another;
- `IdleInv`: once a CPU has found nothing to run in a slot, or has stopped, the
  waiting processes are no more than the CPUs that have given a process up and are
  about to fetch one, plus one if the loader may still add one in this slot.

`IdleInv` is what `NothingLost` and `WorkConserved` rest on. A CPU reads `done` in
another lock section than the one in which it found nothing, so that "the queues
were empty" says nothing about now: another CPU may have put its process back in
between. That one is about to fetch, and the count says that it is enough.
The refinement shows for each step of a thread which step of a process's life it
is, with the state of a process read off the CPUs; that a dispatch finds a CPU to
spare is a count of the owners (`CpuToSpare`).

### User areas

| theorem of `VmaProofs` | says |
|---|---|
| `VmaTypes` | addresses stay in bounds, pages are mapped as far as needed and whole |
| `AreaPartitioned` | used and free regions partition the area |
| `AccessesContained` | an access that passes the checks hits one mapped region |
| `VmaImplementsHeap` | the symbol table implements `Heap` |

They hold for every size of page, table and request. The proof works on addresses:
`Partitioned` says that an address below `sbrk` is in one entry of the table or in
one region of the list. Each operation of `Regions` has a lemma that says what it
does to the set of addresses a list holds (`FreeAfterFitProperties` for the three
outcomes of first fit, `EnlistProperties`; these are in `RegionProofs`).
`Rearranged` says when two such changes make a partition again, and `Obtained` and
`Released` put them together.

### Kernel allocator and pools

| theorem of `KmemProofs` | says |
|---|---|
| `KmemTypes` | regions, slabs and the locals of calls stay within the area |
| `KernelMemoryPartitioned` | kmalloc regions, slabs and free regions partition kernel memory |
| `SlabObjectsConserved` | an object of a slab is free once or in use once |
| `GrantedBlocksListed` | a granted block has one symbol, and keeps it during a copy |

They hold for every number of CPUs, pools and symbols, every size of slab, object
and request. The last three say what they say until a refill has raced for a symbol
(`raced`), as the code does not keep more (`kmem_race`, section 6). The inductive
invariant `KmemInv` is `Types` together with, until then,

- `Apart`: an address is in one entry of the table, or in one slab, or still
  available, and every address from the start of kernel space is in one of the
  three. An entry may share addresses with a slab: it is then one of its objects;
- `ObjectsInv`: an entry that touches a slab is one of its objects; the free objects
  of a slab are those that are no entry, each once. The slab that a call has cut
  off and not yet pushed counts as one, with all its objects free;
- `GrantsInv`: what `libfree` or a copy has looked up without the lock is still there
  when its second section begins, is nobody's granted block, and belongs to the
  same pools.

The partition is not inductive by itself: whether an object that is given back
overlaps another depends on the lists in the slabs, and what a second section frees
depends on what the first one saw. Slabs are named by their places (`SlabPlaces`):
an index in a pool's list, or the CPU that carries one. A push moves a slab from
the one to the other, and the lemmas on places (`EditPlaces`, `MovedPlaces`) show
that nothing else moves. The lemmas on areas are those of `RegionProofs`, so that a
step of `Kmem` is one change of the area (`KernelObtain`, `KernelRelease`,
`KernelSet`) and one of the slabs.

### Page tables

| theorem of `PageTableProofs` | says | under |
|---|---|---|
| `PageTableTypes` | entries lead to directories that exist, words have 32 bits | |
| `TablesAreTrees` | the directories form one tree for each space | |
| `KernelPagesPinned` | a mapped kernel page keeps its frame | `SpacesFit` |
| `TablesImplementMap` | `PageTable` implements `PageMap` | `SpacesFit`, `ReservesFit`, `AllWatched` |

They hold for every size of page and directory and any number of processes, pages,
frames and slots. The hypotheses are about the constants:

- `SpacesFit`: the spaces together grow to no more pages than an address can tell
  apart (2^45 in the program). `PAGING64_PGN` drops what is above, so that beyond
  that a space would come back to its own first page. `ReservesFit` says the same of
  the ranges that programs reserve. The instance of `page_table` satisfies both
  (3 pages and one at page 28, of 32).
- `AllWatched`: the refinement looks at all pages. The run looks at four, all those
  its actions name; of fewer than all the theorem would be false in general, as a
  page would take over the frame of a victim that is out of sight.

`TreeShape` is not inductive: it does not say at which depth a directory is, and a
walk may hang a directory below one that holds words. The invariant `WellFormed`
asks for a level function (`Tree`): the roots have level 4, a directory has one
level less than the directory it hangs from, and words are in directories of level
0 only. A walk of `AllocPath` goes down one level with each step and so ends at
level 0 (`WayDown`); a directory it adds is new and hangs from one entry
(`EnsureGrows`). `Grown` is what two such states have in common.

That two pages never share a word is proved in two halves: the five indexes tell
two pages apart (`IndexesTellPages`, from the division lemmas), and as each
directory hangs from one entry, two walks that end at the same word came all the
way by the same indexes from the same root (`PlacesDiffer`). So a walk that
allocates changes no entry (`GrownKeepsEntries`), and `StoreWordWrites` says what
storing a word does to the entries of *all* pages of all spaces. The loops of
`StorePages` and the two stores of a page fault are chains of it
(`StorePagesWrites`, `FaultInWrites`); the actions use nothing else.
`KernelPagesPinned` needs `KernelInv` besides: kernel pages below `vm_end` are present
and those above untouched, so that growth begins where the last one ended.

For the refinement the words get their meaning (`PinnedWord`, `LoadedWord`,
`SwappedWord`, `DirtyWord`): a frame number that was put into its 13 bits, or a swap
offset into its 21, is read back whole whatever the word held before, which rests
on `NumberOfBits`, that a number is the sum of its bits. `NextIsMapNext` then shows
for each action which operation of `PageMap` it is.

## 6. Where code and documentation disagree

Five runs end in a counterexample that the code can follow.

- `os_queue_full`: `enqueue` (`src/queue.c`) drops a process when the queue is full.
  `put_proc` and `add_proc`, documented in `include/sched.h` to put the process
  into the queue, do not notice; the process is never run again. With 50 entries
  per level this needs more than 50 processes of one priority.
- `os_default_prio`: `read_config` stores the missing priority -1 in an unsigned
  long and clamps it to `MAX_PRIO - 1`; the test for -1 in `ld_routine`, whose
  comment says that the process's own priority is used, never succeeds.
- `paging_zero_fill`: a page never written is evicted without writing its slot, but
  read back from that slot, and so shows what another page left there; the
  comment promises zero-fill on demand.
- `paging_untracked`: `pg_getpage` takes the victim off the FIFO list before it
  knows whether swap has room. If not, the page stays in RAM and on no list.
- `kmem_race`: `__kmem_cache_alloc` chooses an empty symbol, lets go of the lock to
  get a slab, and uses the symbol afterwards without looking again.

Other deviations that were met while reading and are part of the models without
a run of their own:

- `__write` ignores a failed `pg_setval`: the program goes on after a write that
  stored nothing (`WriteByte` of `Paging`). `__write_user_mem` does the same to a
  copy.
- A program that ends keeps its frames: `cpu_routine` frees the pcb before `run`
  could reach `free_pcb_memphy`, which is reached only by a program without
  instructions, and that one has no frames (`EndProgram` of `Paging`).
- A page table entry has 13 bits for the frame number, and `os_1_mlq_paging` asks
  for 65536 frames. With more frames than `FpnLimit`, `FrameExclusive` fails.
- `ALLOC` of size zero uses up a symbol that no address can free.
- `__read` and `__write` find the region by register plus offset but address it by
  its start plus the offset; the comments speak of register plus offset.
- A time slot of 0 makes the rest of the quantum negative: no preemption. `Os`
  assumes at least 1.
- A comment in `get_mlq_proc` suggests one attempt of its search instead of two.
  `GetProc_OneAttempt` shows that `WorkConserving` would then fail.
- `__read_kernel_mem` unlocks `mmvm_lock` without holding it when the symbol it was
  given is empty. `GrantsListed` shows that the symbol of a copy is never empty as
  long as no refill has raced for a symbol (`kmem_race`).
- `vm_map_ram` has code that takes back what a partial failure mapped; it cannot
  be reached, because nothing it calls reports a failure.

## 7. Assumptions of the models

Programs agree on the size and the alignment of a pool they share, ask the kernel
for at least one byte, and free a kernel block once. RAM has at least one frame
(with less than a page `init_memphy` fails) and swap at least one. Only the first
swap device is used, as `main` chooses it once and nothing changes it. Swap
devices are created serial: their cursor is moved by every access and read by
none, so that `Memphy` leaves it out. An instruction of `Os` succeeds or fails
without regard to memory; the memory modules take any order of instructions of
any process. The device list of the timer is complete before a thread runs.

## 8. What is only model-checked

All liveness: the temporal reasoning under fairness is out of the prover's reach,
so that `NextSlotReturns`, `StopReturns`, `ImplementsSlotClock`, `NoStarvation`,
`SimulationEnds` and the liveness half of `ImplementsLifecycle` hold for the
instances of section 3.

Every other property of the passing runs is the property of a theorem.

## 9. Not modelled

- The program loader's parsing: only the number of instructions and the priority
  it yields matter to the rest.
- System calls: dispatch has no state. The operations of the memory call are
  modelled in the code that makes them; `SYSMEM_MAP_OP`, which only a program's own
  SYSCALL instruction asks for, is `VmapPgdMemset` of `PageTable`. The other
  operations with operands of a program's choice, and `listsyscall`, are left out.
- Functions of `mm64.c` that no caller of this build reaches: `init_pte`,
  `alloc_pages_range`, `vmap_page_range`, `k_pte_set_entry`; and what only prints:
  `print_list_*`, `print_pgtbl`, `MEMPHY_dump`, `src/memlog.c`.
- Sizes over 2 GiB, which `__alloc` and `get_free_vmrg_area` truncate to `int`.
- Pools that are created again with another size or alignment, and kernel blocks
  freed twice: both leave the program's contract with the allocator.
- The code that `os-cfg.h` switches off (`src/mem.c`, the 32-bit `src/mm.c`,
  `src/paging.c`), build files, scripts and the chart of the output.
