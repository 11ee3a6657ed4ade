------------------------------ MODULE VmaProofs -------------------------------
(* The memory of a user process, for every number of symbols, size of pages   *)
(* and sizes asked for: the regions in use and the free ones partition what   *)
(* was handed out, accesses stay in one region, and the table is a heap.      *)
EXTENDS Vma, RegionProofs

-----------------------------------------------------------------------------
(* The invariant.                                                             *)

VmaInv ==
  /\ AreaInv(area) /\ area.sbrk <= MaxAddr
  /\ reg \in [Regs -> 0 .. MaxAddr] /\ over \in BOOLEAN

\* ALLOC takes an entry that was not used for a region below the bound.
LEMMA AllocStep ==
  ASSUME VmaInv, NEW r \in Regs, NEW n \in Sizes, Alloc(r, n),
         UnusedSymbols(area) # {}
  PROVE  LET s == NextSymbol(area)
             got == Obtain(area, n)
         IN  /\ s \in Symbols /\ area.table[s] = Unused
             /\ AreaInv(area') /\ area'.sbrk <= MaxAddr
             /\ got.region \in Spans /\ got.region.to <= MaxAddr
             /\ got.region.to = got.region.from + n
             /\ area'.table = [area.table EXCEPT ![s] = got.region]
             /\ reg' = [reg EXCEPT ![r] = got.region.from] /\ over' = over
<1> DEFINE s == NextSymbol(area)
           got == Obtain(area, n)
<1>1. s \in Symbols /\ area.table[s] = Unused
  BY NextSymbolProperties
<1>2. /\ got.area.sbrk <= MaxAddr
      /\ area' = [got.area EXCEPT !.table[s] = got.region]
      /\ reg' = [reg EXCEPT ![r] = got.region.from] /\ over' = over
  BY DEF Alloc
<1> HIDE DEF s
<1>3. n \in Nat /\ AreaInv(area)
  BY VmaAssumption DEF VmaInv
<1>4. /\ AreaInv(area') /\ got.region \in Spans
      /\ got.region.to = got.region.from + n
      /\ area'.table = [area.table EXCEPT ![s] = got.region]
      /\ area'.sbrk = got.area.sbrk
  BY <1>1, <1>2, <1>3, Obtained
<1> HIDE DEF got
<1>5. got.region.to <= area'.sbrk
  <2>1. area'.table[s] = got.region
    BY <1>1, <1>3, <1>4 DEF AreaInv, Areas
  <2> QED
    BY <1>1, <1>4, <2>1 DEF AreaInv, Partitioned
<1>6. got.region.to <= MaxAddr
  <2>1. got.region.to \in Nat /\ area'.sbrk \in Nat /\ MaxAddr \in Nat
    BY <1>4, VmaAssumption DEF AreaInv, Partitioned, Spans
  <2> QED
    BY <1>2, <1>4, <1>5, <2>1
<1> QED
  BY <1>1, <1>2, <1>4, <1>6 DEF s, got

\* FREE empties the entry of the address in the register.
LEMMA FreeStep ==
  ASSUME VmaInv, NEW r \in Regs, Free(r), SymbolsAt(area, reg[r]) # {}
  PROVE  LET s == SymbolAt(area, reg[r])
         IN  /\ s \in Symbols /\ AreaInv(area') /\ area'.sbrk = area.sbrk
             /\ area'.table = [area.table EXCEPT ![s] = Unused]
             /\ UNCHANGED <<reg, over>>
<1> DEFINE s == SymbolAt(area, reg[r])
<1>1. s \in Symbols
  BY SymbolAtProperties
<1>2. area' = Release(area, s) /\ UNCHANGED <<reg, over>>
  BY DEF Free
<1> HIDE DEF s
<1>3. /\ AreaInv(area') /\ area'.sbrk = area.sbrk
      /\ area'.table = [area.table EXCEPT ![s] = Unused]
  BY <1>1, <1>2, Released DEF VmaInv
<1> QED
  BY <1>1, <1>2, <1>3 DEF s

\* The other steps leave the area alone.
LEMMA OtherSteps ==
  ASSUME VmaInv, [Next]_vars
  PROVE  \/ UNCHANGED area /\ reg' \in [Regs -> 0 .. MaxAddr] /\ over' \in BOOLEAN
         \/ \E r \in Regs, n \in Sizes : Alloc(r, n) /\ UnusedSymbols(area) # {}
         \/ \E r \in Regs : Free(r) /\ SymbolsAt(area, reg[r]) # {}
<1>1. reg \in [Regs -> 0 .. MaxAddr] /\ over \in BOOLEAN
  BY DEF VmaInv
<1>2. ASSUME NEW r \in Regs, NEW n \in Sizes, Alloc(r, n), UnusedSymbols(area) = {}
      PROVE  UNCHANGED <<area, reg>> /\ over' \in BOOLEAN
  BY <1>2 DEF Alloc, Fail
<1>3. ASSUME NEW r \in Regs, Free(r), SymbolsAt(area, reg[r]) = {}
      PROVE  UNCHANGED <<area, reg>> /\ over' \in BOOLEAN
  BY <1>3 DEF Free, Fail
<1>4. ASSUME NEW r \in Regs, NEW d \in Offsets, Write(r, d)
      PROVE  UNCHANGED <<area, reg>> /\ over' \in BOOLEAN
  BY <1>1, <1>4 DEF Write, Fail, vars
<1>5. ASSUME NEW r \in Regs, NEW s \in Regs, NEW d \in Offsets, Read(r, d, s)
      PROVE  UNCHANGED area /\ reg' \in [Regs -> 0 .. MaxAddr] /\ over' \in BOOLEAN
  BY <1>1, <1>5 DEF Read, Fail
<1>6. CASE EndProgram
  BY <1>1, <1>6 DEF EndProgram, Fail
<1>7. CASE UNCHANGED vars
  BY <1>1, <1>7 DEF vars
<1> QED
  BY <1>1, <1>2, <1>3, <1>4, <1>5, <1>6, <1>7 DEF Next

LEMMA VmaInvHolds == Spec => []VmaInv
<1>1. Init => VmaInv
  <2> SUFFICES ASSUME Init PROVE VmaInv
    OBVIOUS
  <2>1. area = EmptyArea(0) /\ reg \in [Regs -> 0 .. MaxAddr] /\ over = FALSE
    BY DEF Init
  <2>2. EmptyArea(0).sbrk = 0 /\ AreaInv(EmptyArea(0))
    BY EmptyAreaInv DEF EmptyArea
  <2>3. AreaInv(area) /\ area.sbrk = 0
    BY <2>1, <2>2
  <2>4. area.sbrk <= MaxAddr
    BY <2>3, VmaAssumption
  <2> QED
    BY <2>1, <2>3, <2>4 DEF VmaInv
<1>2. VmaInv /\ [Next]_vars => VmaInv'
  <2> SUFFICES ASSUME VmaInv, [Next]_vars PROVE VmaInv'
    OBVIOUS
  <2>1. /\ AreaInv(area) /\ area.sbrk <= MaxAddr /\ reg \in [Regs -> 0 .. MaxAddr]
        /\ over \in BOOLEAN
    BY DEF VmaInv
  <2>2. CASE UNCHANGED area /\ reg' \in [Regs -> 0 .. MaxAddr] /\ over' \in BOOLEAN
    BY <2>1, <2>2 DEF VmaInv, AreaInv, Partitioned
  <2>3. ASSUME NEW r \in Regs, NEW n \in Sizes, Alloc(r, n), UnusedSymbols(area) # {}
        PROVE  VmaInv'
    <3>1. /\ AreaInv(area') /\ area'.sbrk <= MaxAddr
          /\ Obtain(area, n).region \in Spans
          /\ Obtain(area, n).region.to <= MaxAddr
          /\ reg' = [reg EXCEPT ![r] = Obtain(area, n).region.from] /\ over' = over
      BY <2>3, AllocStep
    <3>2. Obtain(area, n).region.from \in 0 .. MaxAddr
      BY <3>1, VmaAssumption DEF Spans
    <3> QED
      BY <2>1, <3>1, <3>2 DEF VmaInv, AreaInv, Partitioned
  <2>4. ASSUME NEW r \in Regs, Free(r), SymbolsAt(area, reg[r]) # {}
        PROVE  VmaInv'
    <3>1. AreaInv(area') /\ area'.sbrk = area.sbrk /\ UNCHANGED <<reg, over>>
      BY <2>4, FreeStep
    <3> QED
      BY <2>1, <3>1 DEF VmaInv, AreaInv, Partitioned
  <2> QED
    BY <2>2, <2>3, <2>4, OtherSteps
<1> QED
  BY <1>1, <1>2, PTL DEF Spec

-----------------------------------------------------------------------------
(* What follows from it.                                                      *)

\* Every address and size stays within the bounds of the area, and the mapped
\* pages reach as far as what was handed out, by less than one page too many.
THEOREM VmaTypes == Spec => []TypeOK
<1>1. VmaInv => TypeOK
  <2> SUFFICES ASSUME VmaInv PROVE TypeOK
    OBVIOUS
  <2>1. /\ area.table \in [Symbols -> Spans] /\ area.free \in Seq(Spans)
        /\ area.free # <<>> /\ area.sbrk \in Nat /\ area.sbrk <= MaxAddr
        /\ \A i \in Symbols : area.table[i].to <= area.sbrk
        /\ \A k \in 1 .. Len(area.free) : area.free[k].to <= area.sbrk
        /\ area.end % PageSize = 0 /\ area.sbrk <= area.end
        /\ area.end < area.sbrk + PageSize
        /\ reg \in [Regs -> 0 .. MaxAddr] /\ over \in BOOLEAN
    BY DEF VmaInv, AreaInv, Partitioned
  <2>2. ASSUME NEW r \in Spans, r.to <= area.sbrk PROVE r \in RegionType
    <3>1. /\ r \in [from : Nat, to : Nat] /\ r.from \in 0 .. MaxAddr
          /\ r.to \in 0 .. MaxAddr
      BY <2>1, <2>2, VmaAssumption DEF Spans
    <3> QED
      BY <3>1 DEF RegionType
  <2>3. area.table \in [Symbols -> RegionType]
    BY <2>1, <2>2
  <2>4. area.free \in Seq(RegionType)
    <3>1. /\ Len(area.free) \in Nat
          /\ area.free \in [1 .. Len(area.free) -> Spans]
      BY <2>1, LenProperties
    <3>2. area.free \in [1 .. Len(area.free) -> RegionType]
      BY <2>1, <2>2, <3>1
    <3> QED
      BY <3>1, <3>2, SeqDef
  <2>5. area.sbrk \in 0 .. MaxAddr
    BY <2>1, VmaAssumption
  <2> QED
    BY <2>1, <2>3, <2>4, <2>5 DEF TypeOK
<1> QED
  BY <1>1, VmaInvHolds, PTL

\* Used and free regions partition what was handed out, after any sequence of
\* splits, extensions and releases.
THEOREM AreaPartitioned == Spec => []RegionsPartition
<1>1. VmaInv => RegionsPartition
  <2> SUFFICES ASSUME VmaInv PROVE RegionsPartition
    OBVIOUS
  <2>1. Partitioned(area.table, area.free, area.sbrk)
    BY DEF VmaInv, AreaInv
  <2>2. /\ DOMAIN area.free = 1 .. Len(area.free)
        /\ \A k \in 1 .. Len(area.free) : area.free[k] \in Spans
        /\ \A i \in Symbols : area.table[i] \in Spans
        /\ area.sbrk \in Nat
    BY <2>1, ListType DEF Partitioned
  <2>3. ASSUME NEW x \in Pieces
        PROVE  /\ Piece(x) \in Spans
               /\ \/ /\ x[1] = "used" /\ x[2] \in Symbols /\ x = <<"used", x[2]>>
                     /\ Piece(x) = area.table[x[2]]
                  \/ /\ x[1] = "free" /\ x[2] \in 1 .. Len(area.free)
                     /\ x = <<"free", x[2]>> /\ Piece(x) = area.free[x[2]]
    BY <2>2 DEF Pieces, Piece
  <2>4. ASSUME NEW x \in Pieces, NEW y \in Pieces, x # y
        PROVE  ~Overlap(Piece(x), Piece(y))
    <3> SUFFICES ASSUME NEW a \in Nat, In(Piece(x), a), In(Piece(y), a)
                 PROVE  FALSE
      BY <2>3, AddressesOf DEF Overlap
    <3>0. /\ \A i, j \in Symbols :
               In(area.table[i], a) /\ In(area.table[j], a) => i = j
          /\ \A k, l \in 1 .. Len(area.free) :
               In(area.free[k], a) /\ In(area.free[l], a) => k = l
      BY <2>1 DEF Partitioned, Disjoint
    <3>1. CASE x[1] = "used" /\ y[1] = "used"
      <4>1. /\ x[2] \in Symbols /\ In(area.table[x[2]], a) /\ x = <<"used", x[2]>>
            /\ y[2] \in Symbols /\ In(area.table[y[2]], a) /\ y = <<"used", y[2]>>
        BY <2>3, <3>1
      <4>2. x[2] = y[2]
        BY <3>0, <4>1
      <4> QED
        BY <2>4, <4>1, <4>2
    <3>2. CASE x[1] = "free" /\ y[1] = "free"
      <4>1. /\ x[2] \in 1 .. Len(area.free) /\ In(area.free[x[2]], a)
            /\ y[2] \in 1 .. Len(area.free) /\ In(area.free[y[2]], a)
            /\ x = <<"free", x[2]>> /\ y = <<"free", y[2]>>
        BY <2>3, <3>2
      <4>2. x[2] = y[2]
        BY <3>0, <4>1
      <4> QED
        BY <2>4, <4>1, <4>2
    <3>3. ASSUME NEW i \in Symbols, NEW k \in 1 .. Len(area.free),
                 In(area.table[i], a), In(area.free[k], a)
          PROVE  FALSE
      BY <2>1, <3>3 DEF Partitioned, Holds
    <3> QED
      BY <2>3, <3>1, <3>2, <3>3
  <2>5. ASSUME NEW a \in Nat
        PROVE  a < area.sbrk <=> \E x \in Pieces : In(Piece(x), a)
    <3>1. ASSUME NEW x \in Pieces, In(Piece(x), a) PROVE a < area.sbrk
      BY <2>1, <2>3, <3>1 DEF Partitioned, Holds
    <3>2. ASSUME NEW i \in Symbols, In(area.table[i], a)
          PROVE  \E x \in Pieces : In(Piece(x), a)
      <4>1. <<"used", i>> \in Pieces /\ Piece(<<"used", i>>) = area.table[i]
        BY DEF Pieces, Piece
      <4> QED
        BY <3>2, <4>1
    <3>3. ASSUME NEW k \in 1 .. Len(area.free), In(area.free[k], a)
          PROVE  \E x \in Pieces : In(Piece(x), a)
      <4>1. <<"free", k>> \in Pieces /\ Piece(<<"free", k>>) = area.free[k]
        BY <2>2 DEF Pieces, Piece
      <4> QED
        BY <3>3, <4>1
    <3> QED
      BY <2>1, <3>1, <3>2, <3>3 DEF Partitioned, Holds
  <2>6. UNION {Addresses(Piece(x)) : x \in Pieces} = 0 .. area.sbrk - 1
    <3>1. \A a : a \in 0 .. area.sbrk - 1 <=> a \in Nat /\ a < area.sbrk
      BY <2>2
    <3>2. \A x \in Pieces : \A a : a \in Addresses(Piece(x)) <=> a \in Nat /\ In(Piece(x), a)
      BY <2>3, AddressesOf
    <3> QED
      BY <2>5, <3>1, <3>2
  <2> QED
    BY <2>4, <2>6 DEF RegionsPartition
<1> QED
  BY <1>1, VmaInvHolds, PTL

\* An access that passes the checks touches mapped memory, inside the one region
\* of the table it was resolved to.
THEOREM AccessesContained == Spec => []AccessInRegion
<1>1. VmaInv => AccessInRegion
  <2> SUFFICES ASSUME VmaInv, NEW r \in Regs, NEW d \in Offsets, Accessible(r, d)
               PROVE  /\ Target(r, d) < area.end
                      /\ SymbolsAt(area, Target(r, d)) = {SymbolAt(area, reg[r] + d)}
    BY DEF AccessInRegion
  <2> DEFINE s == SymbolAt(area, reg[r] + d)
             x == Target(r, d)
  <2>1. s \in Symbols
    BY SymbolAtProperties DEF Accessible, Found
  <2>2. /\ Partitioned(area.table, area.free, area.sbrk)
        /\ \A i \in Symbols : area.table[i] \in Spans
        /\ area.sbrk \in Nat /\ area.end \in Nat /\ area.sbrk <= area.end
    BY DEF VmaInv, AreaInv, Areas, Partitioned
  <2>3. x = area.table[s].from + d /\ x < area.table[s].to
    BY DEF Accessible, Target, Sought
  <2> HIDE DEF s, x
  <2>4. x \in Nat /\ In(area.table[s], x)
    BY <2>1, <2>2, <2>3, VmaAssumption DEF In, Offsets, Spans
  <2>5. x < area.sbrk
    BY <2>1, <2>2, <2>4 DEF Partitioned
  <2>6. x < area.end
    BY <2>2, <2>4, <2>5
  <2>7. \A i \in Symbols : x \in Addresses(area.table[i]) <=> i = s
    BY <2>1, <2>2, <2>4, AddressesOf DEF Partitioned
  <2>8. SymbolsAt(area, x) = {s}
    BY <2>1, <2>7 DEF SymbolsAt
  <2> QED
    BY <2>6, <2>8 DEF s, x
<1> QED
  BY <1>1, VmaInvHolds, PTL

-----------------------------------------------------------------------------
(* The table is an allocator of blocks.                                       *)

\* The blocks of a table.
Blocks(t) == {t[i] : i \in {j \in Symbols : Addresses(t[j]) # {}}}

LEMMA BlocksOfArea ==
  /\ BlocksInUse = Blocks(area.table)
  /\ BlocksInUse' = Blocks(area'.table)
BY DEF BlocksInUse, Blocks

\* The regions that hold an address are the blocks; two of them are apart.
LEMMA BlocksAre ==
  ASSUME NEW t, NEW f, NEW b, Partitioned(t, f, b)
  PROVE  /\ \A x : x \in Blocks(t) <=> \E i \in Symbols : x = t[i] /\ x.from < x.to
         /\ \A i, j \in Symbols :
              /\ t[i].from < t[i].to /\ t[j].from < t[j].to /\ i # j
              => t[i] # t[j] /\ HEAP!Apart(t[i], t[j])
<1>1. \A i \in Symbols : t[i] \in Spans /\ t[i].from \in Nat /\ t[i].to \in Nat
  BY DEF Partitioned, Spans
<1>2. ASSUME NEW i \in Symbols
      PROVE  Addresses(t[i]) # {} <=> t[i].from < t[i].to
  BY <1>1 DEF Addresses
<1>3. \A x : x \in Blocks(t) <=> \E i \in Symbols : x = t[i] /\ x.from < x.to
  BY <1>2 DEF Blocks
<1>4. ASSUME NEW i \in Symbols, NEW j \in Symbols, i # j,
             t[i].from < t[i].to, t[j].from < t[j].to
      PROVE  t[i] # t[j] /\ HEAP!Apart(t[i], t[j])
  <2>1. \A x \in Nat : ~(In(t[i], x) /\ In(t[j], x))
    BY <1>4 DEF Partitioned
  <2>2. ~In(t[j], t[i].from) /\ ~In(t[i], t[j].from) /\ In(t[i], t[i].from)
    BY <1>1, <1>4, <2>1 DEF In
  <2> QED
    BY <1>1, <1>4, <2>2 DEF In, HEAP!Apart
<1> QED
  BY <1>3, <1>4

\* An entry of the table takes a region: a block more, unless it is empty.
LEMMA TakeIsAlloc ==
  ASSUME VmaInv, AreaInv(area'), NEW s \in Symbols, area.table[s] = Unused,
         NEW r \in Spans, r.to <= MaxAddr,
         area'.table = [area.table EXCEPT ![s] = r]
  PROVE  HEAP!AllocBlock \/ UNCHANGED BlocksInUse
<1>1. /\ Partitioned(area.table, area.free, area.sbrk)
      /\ Partitioned(area'.table, area'.free, area'.sbrk)
  BY DEF VmaInv, AreaInv
<1>2. /\ area'.table[s] = r
      /\ \A i \in Symbols : i # s => area'.table[i] = area.table[i]
      /\ area.table[s].from = 0 /\ area.table[s].to = 0
  BY <1>1 DEF Partitioned, Unused, Region
<1>3. \A x : x \in BlocksInUse <=> \E i \in Symbols : x = area.table[i] /\ x.from < x.to
  BY <1>1, BlocksAre, BlocksOfArea
<1>4. \A x : x \in BlocksInUse' <=> \E i \in Symbols : x = area'.table[i] /\ x.from < x.to
  BY <1>1, BlocksAre, BlocksOfArea
<1>5. CASE r.from < r.to
  <2>1. r \in HEAP!Block
    BY <1>5, VmaAssumption DEF HEAP!Block, Spans
  <2>2. ASSUME NEW c \in BlocksInUse PROVE HEAP!Apart(r, c)
    <3>1. PICK i \in Symbols : c = area.table[i] /\ c.from < c.to
      BY <1>3, <2>2
    <3>2. i # s /\ area'.table[i] = c
      BY <1>2, <3>1
    <3>3. HEAP!Apart(area'.table[s], area'.table[i])
      BY <1>1, <1>2, <1>5, <3>1, <3>2, BlocksAre
    <3> QED
      BY <1>2, <3>2, <3>3
  <2>3. BlocksInUse' = BlocksInUse \cup {r}
    <3>1. ASSUME NEW x
          PROVE  x \in BlocksInUse' <=> x \in BlocksInUse \/ x = r
      BY <1>2, <1>3, <1>4, <1>5
    <3> QED
      BY <3>1
  <2> QED
    BY <2>1, <2>2, <2>3 DEF HEAP!AllocBlock
<1>6. CASE ~(r.from < r.to)
  <2>1. ASSUME NEW x PROVE x \in BlocksInUse' <=> x \in BlocksInUse
    BY <1>2, <1>3, <1>4, <1>6
  <2> QED
    BY <2>1
<1> QED
  BY <1>5, <1>6

\* An entry of the table is emptied: its block, if it held one, is freed.
LEMMA EmptyIsFree ==
  ASSUME VmaInv, AreaInv(area'), NEW s \in Symbols,
         area'.table = [area.table EXCEPT ![s] = Unused]
  PROVE  HEAP!FreeBlock \/ UNCHANGED BlocksInUse
<1> DEFINE b == area.table[s]
<1>1. /\ Partitioned(area.table, area.free, area.sbrk)
      /\ Partitioned(area'.table, area'.free, area'.sbrk)
  BY DEF VmaInv, AreaInv
<1>2. /\ area'.table[s].from = 0 /\ area'.table[s].to = 0
      /\ \A i \in Symbols : i # s => area'.table[i] = area.table[i]
  BY <1>1 DEF Partitioned, Unused, Region
<1>3. \A x : x \in BlocksInUse <=> \E i \in Symbols : x = area.table[i] /\ x.from < x.to
  BY <1>1, BlocksAre, BlocksOfArea
<1>4. \A x : x \in BlocksInUse' <=> \E i \in Symbols : x = area'.table[i] /\ x.from < x.to
  BY <1>1, BlocksAre, BlocksOfArea
<1>5. CASE b.from < b.to
  <2>1. b \in BlocksInUse
    BY <1>3, <1>5
  <2>2. \A i \in Symbols : i # s /\ area.table[i].from < area.table[i].to
                             => area.table[i] # b
    BY <1>1, <1>5, BlocksAre
  <2>3. ASSUME NEW x
        PROVE  x \in BlocksInUse' <=> x \in BlocksInUse /\ x # b
    BY <1>2, <1>3, <1>4, <2>2
  <2>4. BlocksInUse' = BlocksInUse \ {b}
    BY <2>3
  <2> QED
    BY <2>1, <2>4 DEF HEAP!FreeBlock
<1>6. CASE ~(b.from < b.to)
  <2>1. ASSUME NEW x PROVE x \in BlocksInUse' <=> x \in BlocksInUse
    BY <1>2, <1>3, <1>4, <1>6
  <2> QED
    BY <2>1
<1> QED
  BY <1>5, <1>6

LEMMA InitIsHeapInit == Init => HEAP!HeapInit
<1> SUFFICES ASSUME Init PROVE BlocksInUse = {}
  BY DEF HEAP!HeapInit
<1>1. \A i \in Symbols : area.table[i].from = 0 /\ area.table[i].to = 0
  BY DEF Init, EmptyArea, Unused, Region
<1>2. \A i \in Symbols : Addresses(area.table[i]) = {}
  BY <1>1 DEF Addresses
<1> QED
  BY <1>2 DEF BlocksInUse

LEMMA NextIsHeapNext == VmaInv /\ [Next]_vars => [HEAP!HeapNext]_BlocksInUse
<1> SUFFICES ASSUME VmaInv, [Next]_vars
             PROVE  HEAP!HeapNext \/ UNCHANGED BlocksInUse
  OBVIOUS
<1>1. CASE UNCHANGED area
  BY <1>1 DEF BlocksInUse
<1>2. ASSUME NEW r \in Regs, NEW n \in Sizes, Alloc(r, n), UnusedSymbols(area) # {}
      PROVE  HEAP!AllocBlock \/ UNCHANGED BlocksInUse
  BY <1>2, AllocStep, TakeIsAlloc
<1>3. ASSUME NEW r \in Regs, Free(r), SymbolsAt(area, reg[r]) # {}
      PROVE  HEAP!FreeBlock \/ UNCHANGED BlocksInUse
  BY <1>3, FreeStep, EmptyIsFree
<1> QED
  BY <1>1, <1>2, <1>3, OtherSteps DEF HEAP!HeapNext

\* The table is an allocator: a block it hands out is apart from those in use,
\* and a block stays until it is freed.
THEOREM VmaImplementsHeap == Spec => RefinesHeap
<1>1. VmaInv /\ [Next]_vars => [HEAP!HeapNext]_BlocksInUse
  BY NextIsHeapNext
<1> QED
  BY <1>1, InitIsHeapInit, VmaInvHolds, PTL DEF Spec, RefinesHeap, HEAP!HeapSpec
=============================================================================
