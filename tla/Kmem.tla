-------------------------------- MODULE Kmem --------------------------------
(* Kernel memory: kmalloc, the cache pools and their slabs, and the libfree   *)
(* that gives both back (libmem.c), called by the CPUs on behalf of their     *)
(* processes.  All of them share one area and one symbol table.  mmvm_lock is *)
(* held for one step at a time: a pool that needs a new slab lets go of it,   *)
(* and libfree looks the address up before it takes it.                       *)
EXTENDS Regions

CONSTANTS Cpus,
          Pools,            \* cache pools the programs use
          PoolSize,         \* size of a slab, a multiple of PoolAlign
          PoolAlign,        \* size of an object
          Sizes,            \* sizes asked of kmalloc
          Base,             \* first address of kernel space
          MaxAddr           \* bound of the model: addresses handed out

ASSUME KmemAssumption ==
  /\ PoolAlign \in Nat \ {0} /\ PoolSize \in Nat \ {0}
  /\ PoolSize % PoolAlign = 0
  /\ Sizes \subseteq Nat \ {0}
  /\ Base \in Nat \ {0} /\ Base % PageSize = 0
  /\ MaxAddr \in Nat /\ MaxAddr % PageSize = 0 /\ Base <= MaxAddr

VARIABLES area,             \* krnl->mm->mmap and krnl->mm->symrgtbl
          slabs,            \* slabs of each pool, newest first
          pc, call,         \* where a CPU is in a call, and the call's locals
          held,             \* history: the blocks the programs were given
          raced             \* history: has a symbol been overwritten

vars == <<area, slabs, pc, call, held, raced>>

(* A slab is its address and its free objects, in the order they will be      *)
(* handed out; the index links of free_list and storage in the code.          *)
NumObjects == PoolSize \div PoolAlign
Slab == [addr : 1 .. MaxAddr, avail : Seq(0 .. NumObjects - 1)]
NewSlab(a) == [addr |-> a, avail |-> [i \in 1 .. NumObjects |-> i - 1]]
ObjectAt(s, k) ==
  Region(s.addr + k * PoolAlign, s.addr + (k + 1) * PoolAlign)
Extent(s) == Region(s.addr, s.addr + PoolSize)

Block == [from : Base .. MaxAddr, to : Base .. MaxAddr]
NoSymbol == 0
NoCall == [op |-> "none"]

\* The control state of the CPUs and the bounds of the area.
TypeOK ==
  /\ area.table \in [Symbols -> Block \cup {Unused}]
  /\ area.free \in Seq(Block) /\ area.free # <<>>
  /\ area.sbrk \in Base .. MaxAddr
  /\ area.sbrk <= area.end /\ area.end < area.sbrk + PageSize
  /\ slabs \in [Pools -> Seq(Slab)]
  /\ pc \in [Cpus -> {"idle", "region", "push", "retry", "free", "copy"}]
  /\ \A c \in Cpus : pc[c] = "idle" <=> call[c] = NoCall
  /\ held \subseteq Block
  /\ raced \in BOOLEAN

\* k_init_mm
Init ==
  /\ area = EmptyArea(Base)
  /\ slabs = [p \in Pools |-> <<>>]
  /\ pc = [c \in Cpus |-> "idle"]
  /\ call = [c \in Cpus |-> NoCall]
  /\ held = {}
  /\ raced = FALSE

-----------------------------------------------------------------------------
(* Parts of the calls.                                                        *)

Goto(c, label, locals) ==
  /\ pc' = [pc EXCEPT ![c] = label]
  /\ call' = [call EXCEPT ![c] = locals]

\* The call returns.
Return(c) == Goto(c, "idle", NoCall)

\* __kalloc_vma_region: growth beyond the mapped pages needs frames of RAM,
\* which may not be there.
CanObtain(n) == Obtain(area, n).area.sbrk <= MaxAddr
MayFailToObtain(n) == Obtain(area, n).area.end # area.end

\* The first slab of a pool with a free object.
Stocked(p) == {i \in DOMAIN slabs[p] : slabs[p][i].avail # <<>>}
FirstStocked(p) == CHOOSE i \in Stocked(p) : \A j \in Stocked(p) : i <= j

\* Slip: the object stays on the slab's list.
TakeObject_Keeps(c, p, sym) ==
  LET i   == FirstStocked(p)
      obj == ObjectAt(slabs[p][i], Head(slabs[p][i].avail))
  IN  /\ area' = [area EXCEPT !.table[sym] = obj]
      /\ held' = held \cup {obj}
      /\ raced' = (raced \/ area.table[sym] # Unused)
      /\ UNCHANGED slabs
      /\ Return(c)

\* The first free object of the pool is entered in the table as symbol sym.
TakeObject(c, p, sym) ==
  LET i   == FirstStocked(p)
      obj == ObjectAt(slabs[p][i], Head(slabs[p][i].avail))
  IN  /\ slabs' = [slabs EXCEPT ![p][i].avail = Tail(@)]
      /\ area' = [area EXCEPT !.table[sym] = obj]
      /\ held' = held \cup {obj}
      /\ raced' = (raced \/ area.table[sym] # Unused)
      /\ Return(c)

-----------------------------------------------------------------------------
(* The calls.                                                                 *)

\* __kmalloc; with no symbol or no memory it fails and changes nothing.
Kmalloc(c, n) ==
  /\ pc[c] = "idle"
  /\ UnusedSymbols(area) # {}
  /\ CanObtain(n)
  /\ LET got == Obtain(area, n) IN
       /\ area' = [got.area EXCEPT !.table[NextSymbol(area)] = got.region]
       /\ held' = held \cup {got.region}
  /\ UNCHANGED <<slabs, pc, call, raced>>

\* libkmem_cache_pool_create sets the pool up and goes for a first slab.
CreatePool(c, p) ==
  /\ pc[c] = "idle"
  /\ Goto(c, "region", [op |-> "create", pool |-> p, sym |-> NoSymbol])
  /\ UNCHANGED <<area, slabs, held, raced>>

\* __kmem_cache_alloc chooses a symbol; if no slab has an object left it lets
\* go of the lock to get one, and remembers the symbol.
CacheAlloc(c, p) ==
  /\ pc[c] = "idle"
  /\ UnusedSymbols(area) # {}
  /\ slabs[p] # <<>>
  /\ IF Stocked(p) # {}
     THEN TakeObject(c, p, NextSymbol(area))
     ELSE /\ Goto(c, "region",
                  [op |-> "alloc", pool |-> p, sym |-> NextSymbol(area)])
          /\ UNCHANGED <<area, slabs, held, raced>>

\* __slab_alloc under its first lock: a region for the slab.
SlabRegion(c) ==
  /\ pc[c] = "region"
  /\ UNCHANGED <<slabs, held, raced>>
  /\ \/ /\ CanObtain(PoolSize)
        /\ LET got == Obtain(area, PoolSize) IN
             /\ area' = got.area
             /\ Goto(c, "push", [op |-> call[c].op, pool |-> call[c].pool,
                                 sym |-> call[c].sym,
                                 slab |-> NewSlab(got.region.from)])
     \/ /\ MayFailToObtain(PoolSize)
        /\ Return(c)
        /\ UNCHANGED area

\* Slip: the slab takes the place of the others.
SlabPush_Replaces(c) ==
  /\ pc[c] = "push"
  /\ slabs' = [slabs EXCEPT ![call[c].pool] = <<call[c].slab>>]
  /\ IF call[c].op = "create" THEN Return(c)
     ELSE Goto(c, "retry", [op |-> "alloc", pool |-> call[c].pool,
                            sym |-> call[c].sym])
  /\ UNCHANGED <<area, held, raced>>

\* __slab_alloc under its second lock: the slab goes to the head of the pool.
SlabPush(c) ==
  /\ pc[c] = "push"
  /\ slabs' = [slabs EXCEPT ![call[c].pool] = <<call[c].slab>> \o @]
  /\ IF call[c].op = "create" THEN Return(c)
     ELSE Goto(c, "retry", [op |-> "alloc", pool |-> call[c].pool,
                            sym |-> call[c].sym])
  /\ UNCHANGED <<area, held, raced>>

\* __kmem_cache_alloc has the lock again and searches from the start; another
\* CPU may have taken the new objects, and the symbol chosen above.
CacheRetry(c) ==
  /\ pc[c] = "retry"
  /\ IF Stocked(call[c].pool) # {}
     THEN TakeObject(c, call[c].pool, call[c].sym)
     ELSE /\ Goto(c, "region", call[c])
          /\ UNCHANGED <<area, slabs, held, raced>>

\* libfree without the lock: the symbol of the address, and the pool whose slab
\* holds it, if any.
PoolsAt(a) == {p \in Pools : \E i \in DOMAIN slabs[p] :
                               a \in Addresses(Extent(slabs[p][i]))}
FreeLookup(c, b) ==
  /\ pc[c] = "idle"
  /\ b \in held
  /\ held' = held \ {b}
  /\ IF SymbolsAt(area, b.from) = {}
     THEN UNCHANGED <<pc, call>>
     ELSE Goto(c, "free", [op |-> "free", pools |-> PoolsAt(b.from),
                           sym |-> SymbolAt(area, b.from)])
  /\ UNCHANGED <<area, slabs, raced>>

\* __kfree: the region goes to the free list.
Kfree(c) ==
  /\ pc[c] = "free"
  /\ call[c].pools = {}
  /\ area' = IF area.table[call[c].sym] = Unused THEN area
             ELSE Release(area, call[c].sym)
  /\ Return(c)
  /\ UNCHANGED <<slabs, held, raced>>

\* Slip: the object is given back to the pool but stays in the table.
CacheFree_KeepsSymbol(c) ==
  /\ pc[c] = "free"
  /\ \E p \in call[c].pools, r \in {area.table[call[c].sym]} :
     \E i \in DOMAIN slabs[p] :
       /\ r.from \in Addresses(Extent(slabs[p][i]))
       /\ slabs' = [slabs EXCEPT ![p][i].avail =
                      <<(r.from - slabs[p][i].addr) \div PoolAlign>> \o @]
  /\ Return(c)
  /\ UNCHANGED <<area, held, raced>>

\* __kmem_cache_free: the object goes back to its slab, to be the next one out.
CacheFree(c) ==
  /\ pc[c] = "free"
  /\ \E p \in call[c].pools :
       LET r  == area.table[call[c].sym]
           at == {i \in DOMAIN slabs[p] :
                    r.from \in Addresses(Extent(slabs[p][i]))}
       IN  IF at = {} THEN UNCHANGED <<area, slabs>>
           ELSE \E i \in at :
             /\ slabs' = [slabs EXCEPT ![p][i].avail =
                            <<(r.from - slabs[p][i].addr) \div PoolAlign>> \o @]
             /\ area' = [area EXCEPT !.table[call[c].sym] = Unused]
  /\ Return(c)
  /\ UNCHANGED <<held, raced>>

\* libkmem_copy_from_user and libkmem_copy_to_user find the symbol of the kernel
\* address without the lock.  A program that has been given a block runs one
\* instruction at a time, so that it does not free the block meanwhile.
CopyLookup(c, b) ==
  /\ pc[c] = "idle"
  /\ b \in held
  /\ SymbolsAt(area, b.from) # {}
  /\ held' = held \ {b}
  /\ Goto(c, "copy", [op |-> "copy", block |-> b, sym |-> SymbolAt(area, b.from)])
  /\ UNCHANGED <<area, slabs, raced>>

\* The rounds of the copy look the region of the symbol up each time; they move
\* bytes only (see Paging), and then the instruction ends.
CopyEnd(c) ==
  /\ pc[c] = "copy"
  /\ held' = held \cup {call[c].block}
  /\ Return(c)
  /\ UNCHANGED <<area, slabs, raced>>

Next ==
  \E c \in Cpus :
    \/ \E n \in Sizes : Kmalloc(c, n)
    \/ \E p \in Pools : CreatePool(c, p) \/ CacheAlloc(c, p)
    \/ \E b \in held : FreeLookup(c, b) \/ CopyLookup(c, b)
    \/ SlabRegion(c) \/ SlabPush(c) \/ CacheRetry(c)
    \/ Kfree(c) \/ CacheFree(c) \/ CopyEnd(c)

Spec == Init /\ [][Next]_vars

-----------------------------------------------------------------------------
(* Properties.  A pool that runs out of objects lets another CPU take the     *)
(* symbol it has chosen; the last property says that this does no harm, and   *)
(* the others what holds until it has happened once.                          *)

\* Where slabs are: slab i of pool p at <<p, i>>, and at <<c, 0>> the one that
\* CPU c has on its way to a pool.
SlabPlaces ==
  (UNION {{p} \X DOMAIN slabs[p] : p \in Pools})
  \cup ({c \in Cpus : pc[c] = "push"} \X {0})
SlabAt(x) == IF x[2] = 0 THEN call[x[1]].slab ELSE slabs[x[1]][x[2]]

InSlab(r) == \E x \in SlabPlaces : Overlap(r, Extent(SlabAt(x)))

\* The entries of the table that are not objects of a slab.
PlainRegions == {i \in Symbols : area.table[i] # Unused /\ ~InSlab(area.table[i])}

\* Kernel memory is partitioned: every address below sbrk is in exactly one of
\* a kmalloc region, a free region and a slab, also while a slab is under way
\* between the two locks of __slab_alloc.
KernelPartition ==
  raced \/
  /\ \A i, j \in PlainRegions :
       i # j => ~Overlap(area.table[i], area.table[j])
  /\ \A i, j \in DOMAIN area.free :
       i # j => ~Overlap(area.free[i], area.free[j])
  /\ \A x, y \in SlabPlaces :
       x # y => ~Overlap(Extent(SlabAt(x)), Extent(SlabAt(y)))
  /\ \A j \in DOMAIN area.free :
       /\ ~InSlab(area.free[j])
       /\ \A i \in PlainRegions : ~Overlap(area.table[i], area.free[j])
  /\ Base .. area.sbrk - 1 =
       UNION ({Addresses(area.table[i]) : i \in PlainRegions}
              \cup {Addresses(area.free[j]) : j \in DOMAIN area.free}
              \cup {Addresses(Extent(SlabAt(x))) : x \in SlabPlaces})

\* An object of a slab is free in its slab once, or in the table once, never
\* both and never neither (__kmem_cache_alloc, __kmem_cache_free).
ObjectsConserved ==
  raced \/
  \A p \in Pools : \A i \in DOMAIN slabs[p] : \A k \in 0 .. NumObjects - 1 :
    Cardinality({m \in DOMAIN slabs[p][i].avail : slabs[p][i].avail[m] = k})
    + Cardinality({y \in Symbols : area.table[y] = ObjectAt(slabs[p][i], k)})
    = 1

\* Blocks a program was given and has not freed are in the table, each under
\* one symbol, and no two of them overlap; and while a copy is under way the
\* symbol it found without the lock keeps naming its block, so that each round
\* reaches that block and never finds an empty entry, the one case in which
\* __read_kernel_mem unlocks a mutex it does not hold.
Copying == {c \in Cpus : pc[c] = "copy"}
Granted == held \cup {call[c].block : c \in Copying}
Listed(b) == Cardinality({i \in Symbols : area.table[i] = b}) = 1
GrantsListed ==
  raced \/ /\ \A b \in Granted : Listed(b)
           /\ \A b, d \in Granted : b # d => ~Overlap(b, d)
           /\ \A c \in Copying : area.table[call[c].sym] = call[c].block

\* "Find an empty symbol region in the table" (libmem.c:977): the symbol a call
\* uses was empty, so that no block in use loses its entry.
GrantsKept == \A b \in held : \E i \in Symbols : area.table[i] = b
=============================================================================
