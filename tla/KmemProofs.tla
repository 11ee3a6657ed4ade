----------------------------- MODULE KmemProofs -------------------------------
(* Kernel memory for every number of CPUs, pools and symbols and every size   *)
(* of pages, slabs and objects: until a refill has raced for a symbol, kernel *)
(* memory is partitioned, an object is free or in use once, and a block a     *)
(* program was given is listed once.                                          *)
EXTENDS Kmem, RegionProofs, FiniteSetTheorems

-----------------------------------------------------------------------------
(* Types, which hold with and without a race.                                 *)

Objects == 0 .. NumObjects - 1
SlabType == [addr : Nat, avail : Seq(Objects)]

\* The locals of a call, by where it is.
Fetching == [op : {"create", "alloc"}, pool : Pools, sym : Symbols \cup {NoSymbol}]
Pushing  == [op : {"create", "alloc"}, pool : Pools, sym : Symbols \cup {NoSymbol},
             slab : SlabType]
Freeing  == [op : {"free"}, pools : SUBSET Pools, sym : Symbols]
Copies   == [op : {"copy"}, block : Spans, sym : Symbols]
Calls    == {NoCall} \cup Fetching \cup Pushing \cup Freeing \cup Copies

CallTypes ==
  /\ pc \in [Cpus -> {"idle", "region", "push", "retry", "free", "copy"}]
  /\ call \in [Cpus -> Calls]
  /\ \A c \in Cpus :
       /\ pc[c] = "idle" => call[c] = NoCall
       /\ pc[c] \in {"region", "retry"} => call[c] \in Fetching
       /\ pc[c] = "push" => call[c] \in Pushing
       /\ pc[c] = "free" => call[c] \in Freeing
       /\ pc[c] = "copy" => call[c] \in Copies
       /\ pc[c] = "retry" => call[c].op = "alloc"
       /\ pc[c] \in {"region", "push", "retry"} /\ call[c].op = "alloc"
            => call[c].sym \in Symbols

\* A region of kernel space, below what was handed out.
Within(r, top) == Base <= r.from /\ r.to <= top
InUse(r, top)  == Within(r, top) /\ r.from < r.to

KernelArea(a) ==
  /\ AreaShape(a) /\ Base <= a.sbrk /\ a.sbrk <= MaxAddr
  /\ \A i \in Symbols : a.table[i] = Unused \/ InUse(a.table[i], a.sbrk)
  /\ \A k \in 1 .. Len(a.free) : Within(a.free[k], a.sbrk)

SlabTypes ==
  /\ slabs \in [Pools -> Seq(SlabType)]
  /\ \A x \in SlabPlaces : Within(Extent(SlabAt(x)), area.sbrk)

HeldTypes ==
  /\ held \subseteq Spans
  /\ \A b \in held : InUse(b, area.sbrk)
  /\ \A c \in Cpus : pc[c] = "copy" => InUse(call[c].block, area.sbrk)

Types == CallTypes /\ KernelArea(area) /\ SlabTypes /\ HeldTypes /\ raced \in BOOLEAN

-----------------------------------------------------------------------------
(* What holds until a refill has raced for a symbol.                          *)

\* The addresses that may still be handed out, those of an entry of the table,
\* and those of a slab: entries and slabs share no address with what is left,
\* nor with their like, and together they are all of kernel space.
InEntry(i, a) == In(area.table[i], a)
InSlabAt(x, a) == In(Extent(SlabAt(x)), a)

Apart ==
  /\ Disjoint(area.free)
  /\ \A i, j \in Symbols, a \in Nat : InEntry(i, a) /\ InEntry(j, a) => i = j
  /\ \A x, y \in SlabPlaces, a \in Nat : InSlabAt(x, a) /\ InSlabAt(y, a) => x = y
  /\ \A a \in Nat : Available(area, a) =>
       /\ \A i \in Symbols : ~InEntry(i, a)
       /\ \A x \in SlabPlaces : ~InSlabAt(x, a)
  /\ \A a \in Nat : Base <= a =>
       \/ Available(area, a)
       \/ \E i \in Symbols : InEntry(i, a)
       \/ \E x \in SlabPlaces : InSlabAt(x, a)

\* An entry that has an address in a slab is one of its objects; the objects on
\* the list of a slab are those that are no entry, each once; and a slab on its
\* way to a pool has all of them.
Entered(x, k) == \E i \in Symbols : area.table[i] = ObjectAt(SlabAt(x), k)
Kept(x, k)    == \E m \in 1 .. Len(SlabAt(x).avail) : SlabAt(x).avail[m] = k
OnceIn(s)     == \A m, n \in 1 .. Len(s) : s[m] = s[n] => m = n

ObjectsInv ==
  /\ \A i \in Symbols, x \in SlabPlaces, a \in Nat : InEntry(i, a) /\ InSlabAt(x, a)
       => \E k \in Objects : area.table[i] = ObjectAt(SlabAt(x), k)
  /\ \A x \in SlabPlaces :
       /\ OnceIn(SlabAt(x).avail)
       /\ \A k \in Objects : Kept(x, k) <=> ~Entered(x, k)
       /\ x[2] = 0 => \A k \in Objects : Kept(x, k)

\* What a program was given is an entry of the table; the entry that libfree or
\* a copy has found stays in use, by this call alone, and in the same pool.
InHand(c) == area.table[call[c].sym]
Working   == {c \in Cpus : pc[c] \in {"free", "copy"}}
PoolHas(p, a) == \E i \in 1 .. Len(slabs[p]) : InSlabAt(<<p, i>>, a)

GrantsInv ==
  /\ \A b \in held : \E i \in Symbols : area.table[i] = b
  /\ \A c \in Working : InHand(c) # Unused /\ InHand(c) \notin held
  /\ \A c, d \in Working : call[c].sym = call[d].sym => c = d
  /\ \A c \in Cpus : pc[c] = "copy" => call[c].block = InHand(c)
  /\ \A c \in Cpus : pc[c] = "free" =>
       \A p \in Pools : p \in call[c].pools <=> PoolHas(p, InHand(c).from)

KmemInv == Types /\ (raced \/ (Apart /\ ObjectsInv /\ GrantsInv))

-----------------------------------------------------------------------------
(* Slabs and their objects.                                                   *)

\* The objects of a slab lie in it side by side.
LEMMA ObjectProperties ==
  ASSUME NEW s, s.addr \in Nat
  PROVE  /\ Extent(s) \in Spans /\ Extent(s).from = s.addr
         /\ Extent(s).to = s.addr + PoolSize /\ Extent(s).from < Extent(s).to
         /\ \A k \in Objects :
              LET o == ObjectAt(s, k)
              IN  /\ o \in Spans /\ o.from < o.to
                  /\ s.addr <= o.from /\ o.to <= s.addr + PoolSize
                  /\ (o.from - s.addr) \div PoolAlign = k
                  /\ \A x \in Nat : In(o, x) => In(Extent(s), x)
         /\ \A k, l \in Objects, x \in Nat :
              In(ObjectAt(s, k), x) /\ In(ObjectAt(s, l), x) => k = l
<1>1. /\ PoolAlign \in Nat \ {0} /\ PoolSize \in Nat \ {0}
      /\ PoolSize % PoolAlign = 0
  BY KmemAssumption
<1>2. NumObjects \in Nat /\ PoolSize = NumObjects * PoolAlign
  BY <1>1 DEF NumObjects
<1>3. /\ Extent(s) \in Spans /\ Extent(s).from = s.addr
      /\ Extent(s).to = s.addr + PoolSize /\ Extent(s).from < Extent(s).to
  BY <1>1 DEF Extent, Region, Spans
<1>4. ASSUME NEW k \in Objects
      PROVE  /\ k \in Nat /\ k * PoolAlign \in Nat /\ (k + 1) * PoolAlign \in Nat
             /\ (k + 1) * PoolAlign = k * PoolAlign + PoolAlign
             /\ (k + 1) * PoolAlign <= PoolSize
             /\ (k * PoolAlign) \div PoolAlign = k
  <2>1. k \in Nat /\ k + 1 <= NumObjects
    BY <1>2 DEF Objects
  <2>2. k * PoolAlign \in Nat /\ (k + 1) * PoolAlign = k * PoolAlign + PoolAlign
    BY <1>1, <2>1
  <2>3. (k + 1) * PoolAlign <= NumObjects * PoolAlign
    BY <1>1, <1>2, <2>1
  <2>4. (k * PoolAlign) \div PoolAlign = k
    BY <1>1, <2>1
  <2> QED
    BY <1>1, <1>2, <2>1, <2>2, <2>3, <2>4
<1>5. \A k \in Objects : /\ ObjectAt(s, k).from = s.addr + k * PoolAlign
                         /\ ObjectAt(s, k).to = s.addr + (k + 1) * PoolAlign
                         /\ ObjectAt(s, k) \in Spans
  BY <1>1, <1>4 DEF ObjectAt, Region, Spans
<1>6. ASSUME NEW k \in Objects
      PROVE  LET o == ObjectAt(s, k)
             IN  /\ o \in Spans /\ o.from < o.to
                 /\ s.addr <= o.from /\ o.to <= s.addr + PoolSize
                 /\ (o.from - s.addr) \div PoolAlign = k
                 /\ \A x \in Nat : In(o, x) => In(Extent(s), x)
  <2> DEFINE o == ObjectAt(s, k)
             u == k * PoolAlign
  <2>1. /\ o.from = s.addr + u /\ o.to = s.addr + (k + 1) * PoolAlign /\ u \in Nat
        /\ (k + 1) * PoolAlign = u + PoolAlign /\ (k + 1) * PoolAlign \in Nat
        /\ (k + 1) * PoolAlign <= PoolSize /\ u \div PoolAlign = k /\ o \in Spans
    BY <1>4, <1>5
  <2> HIDE DEF o, u
  <2>2. o.from < o.to /\ s.addr <= o.from /\ o.to <= s.addr + PoolSize
    BY <1>1, <2>1
  <2>3. o.from - s.addr = u
    BY <2>1
  <2>4. \A x \in Nat : In(o, x) => In(Extent(s), x)
    BY <1>1, <1>3, <2>1, <2>2 DEF In
  <2> QED
    BY <2>1, <2>2, <2>3, <2>4 DEF o
<1>7. ASSUME NEW k \in Objects, NEW l \in Objects, NEW x \in Nat, k < l,
             In(ObjectAt(s, k), x), In(ObjectAt(s, l), x)
      PROVE  FALSE
  <2>1. k \in Nat /\ l \in Nat /\ k + 1 <= l
    BY <1>4, <1>7
  <2>2. (k + 1) * PoolAlign <= l * PoolAlign
    BY <1>1, <2>1
  <2>3. x < s.addr + (k + 1) * PoolAlign /\ s.addr + l * PoolAlign <= x
    BY <1>5, <1>7 DEF In
  <2> QED
    BY <1>4, <2>2, <2>3
<1>8. ASSUME NEW k \in Objects, NEW l \in Objects, NEW x \in Nat,
             In(ObjectAt(s, k), x), In(ObjectAt(s, l), x)
      PROVE  k = l
  <2>1. k \in Nat /\ l \in Nat
    BY <1>4
  <2>2. ~(k < l) /\ ~(l < k)
    BY <1>7, <1>8
  <2> QED
    BY <2>1, <2>2
<1> QED
  BY <1>3, <1>6, <1>8

\* Where the slabs are.
PlacesInv ==
  /\ SlabTypes =>
       /\ \A x : x \in SlabPlaces <=>
            \/ \E p \in Pools : \E i \in 1 .. Len(slabs[p]) : x = <<p, i>>
            \/ \E c \in Cpus : pc[c] = "push" /\ x = <<c, 0>>
       /\ \A p \in Pools : \A i \in 1 .. Len(slabs[p]) :
            SlabAt(<<p, i>>) = slabs[p][i]
  /\ \A c \in Cpus : SlabAt(<<c, 0>>) = call[c].slab

LEMMA PlacesAre == PlacesInv
<1>1. \A c \in Cpus : SlabAt(<<c, 0>>) = call[c].slab
  BY DEF SlabAt
<1>2. ASSUME SlabTypes
      PROVE  /\ \A x : x \in SlabPlaces <=>
                  \/ \E p \in Pools : \E i \in 1 .. Len(slabs[p]) : x = <<p, i>>
                  \/ \E c \in Cpus : pc[c] = "push" /\ x = <<c, 0>>
             /\ \A p \in Pools : \A i \in 1 .. Len(slabs[p]) :
                  SlabAt(<<p, i>>) = slabs[p][i]
  <2>1. \A p \in Pools : Len(slabs[p]) \in Nat /\ DOMAIN slabs[p] = 1 .. Len(slabs[p])
    BY <1>2, LenProperties DEF SlabTypes
  <2>2. \A p \in Pools : \A i \in 1 .. Len(slabs[p]) : SlabAt(<<p, i>>) = slabs[p][i]
    BY <2>1 DEF SlabAt
  <2>3. ASSUME NEW x
        PROVE  x \in SlabPlaces <=>
                 \/ \E p \in Pools : \E i \in 1 .. Len(slabs[p]) : x = <<p, i>>
                 \/ \E c \in Cpus : pc[c] = "push" /\ x = <<c, 0>>
    <3>1. x \in SlabPlaces <=>
            \/ \E p \in Pools : \E i \in DOMAIN slabs[p] : x = <<p, i>>
            \/ \E c \in Cpus : pc[c] = "push" /\ x = <<c, 0>>
      BY DEF SlabPlaces
    <3>4. (\E p \in Pools : \E i \in DOMAIN slabs[p] : x = <<p, i>>) <=>
          (\E p \in Pools : \E i \in 1 .. Len(slabs[p]) : x = <<p, i>>)
      BY <2>1
    <3> QED
      BY <3>1, <3>4
  <2> QED
    BY <2>2, <2>3
<1> QED
  BY <1>1, <1>2 DEF PlacesInv

\* The same after a step, before the slabs are known to stay within the area.
LEMMA SlabPlacesNext ==
  ASSUME slabs' \in [Pools -> Seq(SlabType)]
  PROVE  \A x : x \in SlabPlaces' <=>
           \/ \E p \in Pools : \E i \in 1 .. Len(slabs'[p]) : x = <<p, i>>
           \/ \E c \in Cpus : pc'[c] = "push" /\ x = <<c, 0>>
<1>1. \A p \in Pools : DOMAIN slabs'[p] = 1 .. Len(slabs'[p])
  BY LenProperties
<1> TAKE x
<1>2. x \in SlabPlaces' <=>
        \/ \E p \in Pools : \E i \in DOMAIN slabs'[p] : x = <<p, i>>
        \/ \E c \in Cpus : pc'[c] = "push" /\ x = <<c, 0>>
  BY DEF SlabPlaces
<1> QED
  BY <1>1, <1>2

-----------------------------------------------------------------------------
(* The area.                                                                  *)

\* A region for n addresses, in use or under way to be.
LEMMA KernelObtain ==
  ASSUME NEW a, KernelArea(a), NEW n \in Nat \ {0}, Obtain(a, n).area.sbrk <= MaxAddr
  PROVE  LET r == Obtain(a, n).region
             b == Obtain(a, n).area
         IN  /\ KernelArea(b) /\ b.table = a.table /\ a.sbrk <= b.sbrk
             /\ r \in Spans /\ r.to = r.from + n /\ InUse(r, b.sbrk)
             /\ \A x \in Nat : In(r, x) => Available(a, x)
             /\ Disjoint(a.free) =>
                  /\ Disjoint(b.free)
                  /\ \A x \in Nat : Available(b, x) <=> Available(a, x) /\ ~In(r, x)
<1> DEFINE r == Obtain(a, n).region
           b == Obtain(a, n).area
<1>1. AreaShape(a) /\ n \in Nat
  BY DEF KernelArea
<1>2. /\ AreaShape(b) /\ b.table = a.table /\ a.sbrk <= b.sbrk
      /\ r \in Spans /\ r.to = r.from + n /\ r.to <= b.sbrk
      /\ a.sbrk <= r.from \/ \E l \in 1 .. Len(a.free) : a.free[l].from = r.from
      /\ \A k \in 1 .. Len(b.free) : \E l \in 1 .. Len(a.free) :
           a.free[l].from <= b.free[k].from
      /\ \A x \in Nat : In(r, x) => Available(a, x)
      /\ Disjoint(a.free) =>
           /\ Disjoint(b.free)
           /\ \A x \in Nat : Available(b, x) <=> Available(a, x) /\ ~In(r, x)
  BY <1>1, ObtainProperties
<1>3. b.sbrk <= MaxAddr
  OBVIOUS
<1> HIDE DEF r, b
<1>4. /\ a.sbrk \in Nat /\ b.sbrk \in Nat /\ Base \in Nat /\ MaxAddr \in Nat
      /\ a.table \in [Symbols -> Spans] /\ a.free \in Seq(Spans) /\ b.free \in Seq(Spans)
      /\ r.from \in Nat /\ r.to \in Nat /\ Base <= a.sbrk
  BY <1>2, KmemAssumption DEF KernelArea, AreaShape, Areas, Spans
<1>5. Base <= r.from
  <2>1. CASE a.sbrk <= r.from
    BY <1>4, <2>1
  <2>2. ASSUME NEW l \in 1 .. Len(a.free), a.free[l].from = r.from
        PROVE  Base <= r.from
    <3>1. Base <= a.free[l].from
      BY DEF KernelArea, Within
    <3> QED
      BY <2>2, <3>1
  <2> QED
    BY <1>2, <2>1, <2>2
<1>6. InUse(r, b.sbrk)
  BY <1>2, <1>4, <1>5 DEF InUse, Within
<1>7. \A i \in Symbols : a.table[i] = Unused \/ InUse(a.table[i], b.sbrk)
  <2> SUFFICES ASSUME NEW i \in Symbols, a.table[i] # Unused
               PROVE  InUse(a.table[i], b.sbrk)
    OBVIOUS
  <2>1. a.table[i].to \in Nat /\ InUse(a.table[i], a.sbrk)
    BY <1>4 DEF KernelArea, Spans
  <2> QED
    BY <1>2, <1>4, <2>1 DEF InUse, Within
<1>8. ASSUME NEW k \in 1 .. Len(b.free) PROVE Within(b.free[k], b.sbrk)
  <2>1. PICK l \in 1 .. Len(a.free) : a.free[l].from <= b.free[k].from
    BY <1>2
  <2>2. a.free[l].from \in Nat /\ b.free[k].from \in Nat /\ Base <= a.free[l].from
    BY <1>4, ListType DEF KernelArea, Within
  <2> QED
    BY <1>2, <1>4, <2>1, <2>2 DEF AreaShape, Within
<1>9. KernelArea(b)
  BY <1>2, <1>3, <1>4, <1>7, <1>8 DEF KernelArea
<1> QED
  BY <1>2, <1>6, <1>9 DEF r, b

\* An entry of the table is set.
LEMMA KernelSet ==
  ASSUME NEW a, KernelArea(a), NEW s \in Symbols, NEW r \in Spans,
         r = Unused \/ InUse(r, a.sbrk)
  PROVE  LET b == [a EXCEPT !.table[s] = r]
         IN  /\ KernelArea(b) /\ b.table = [a.table EXCEPT ![s] = r]
             /\ b.sbrk = a.sbrk /\ b.free = a.free
             /\ \A x : Available(b, x) <=> Available(a, x)
<1> DEFINE b == [a EXCEPT !.table[s] = r]
           t == [a.table EXCEPT ![s] = r]
<1>1. /\ a.table \in [Symbols -> Spans] /\ a.free \in Seq(Spans) /\ a.sbrk \in Nat
      /\ a.end \in Nat
      /\ a = [table |-> a.table, free |-> a.free, sbrk |-> a.sbrk, end |-> a.end]
  BY DEF KernelArea, AreaShape, Areas
<1>2. b = [table |-> t, free |-> a.free, sbrk |-> a.sbrk, end |-> a.end]
  <2>1. [[table |-> a.table, free |-> a.free, sbrk |-> a.sbrk, end |-> a.end]
           EXCEPT !.table[s] = r] =
          [table |-> t, free |-> a.free, sbrk |-> a.sbrk, end |-> a.end]
    OBVIOUS
  <2> QED
    BY <1>1, <2>1
<1>3. /\ t \in [Symbols -> Spans] /\ t[s] = r
      /\ \A i \in Symbols : i # s => t[i] = a.table[i]
  BY <1>1
<1> HIDE DEF b, t
<1>4. /\ b.table = t /\ b.free = a.free /\ b.sbrk = a.sbrk /\ b.end = a.end /\ b \in Areas
  BY <1>1, <1>2, <1>3 DEF Areas
<1>5. \A i \in Symbols : t[i] = Unused \/ InUse(t[i], a.sbrk)
  BY <1>3 DEF KernelArea
<1>6. KernelArea(b)
  BY <1>4, <1>5 DEF KernelArea, AreaShape
<1>7. \A x : Available(b, x) <=> Available(a, x)
  BY <1>4 DEF Available
<1> QED
  BY <1>4, <1>6, <1>7 DEF b, t

\* An entry that is in use goes to the free list.
LEMMA KernelRelease ==
  ASSUME NEW a, KernelArea(a), NEW s \in Symbols, a.table[s] # Unused
  PROVE  LET b == Release(a, s)
         IN  /\ KernelArea(b) /\ b.table = [a.table EXCEPT ![s] = Unused]
             /\ b.sbrk = a.sbrk
             /\ \A x \in Nat : Available(b, x) <=> Available(a, x) \/ In(a.table[s], x)
             /\ Disjoint(a.free) /\ (\A x \in Nat : In(a.table[s], x) => ~Available(a, x))
                  => Disjoint(b.free)
<1> DEFINE b == Release(a, s)
<1>1. AreaShape(a) /\ InUse(a.table[s], a.sbrk) /\ a.table[s].to <= a.sbrk
  BY DEF KernelArea, InUse, Within
<1>2. /\ AreaShape(b) /\ b.table = [a.table EXCEPT ![s] = Unused]
      /\ b.sbrk = a.sbrk
      /\ \A k \in 1 .. Len(b.free) :
           \/ b.free[k] = a.table[s]
           \/ \E l \in 1 .. Len(a.free) : b.free[k] = a.free[l]
      /\ \A x \in Nat : /\ Available(b, x) <=> Available(a, x) \/ In(a.table[s], x)
                        /\ Holds(b.free, x) <=> Holds(a.free, x) \/ In(a.table[s], x)
      /\ Disjoint(a.free) /\ (\A x \in Nat : In(a.table[s], x) => ~Available(a, x))
           => Disjoint(b.free)
  BY <1>1, ReleaseProperties
<1> HIDE DEF b
<1>3. \A k \in 1 .. Len(b.free) : Within(b.free[k], b.sbrk)
  BY <1>1, <1>2 DEF KernelArea, InUse
<1>4. \A i \in Symbols : b.table[i] = Unused \/ InUse(b.table[i], b.sbrk)
  BY <1>2 DEF KernelArea, AreaShape, Areas
<1>5. KernelArea(b)
  BY <1>2, <1>3, <1>4 DEF KernelArea
<1> QED
  BY <1>2, <1>5 DEF b

-----------------------------------------------------------------------------
(* The slabs and the calls.                                                   *)

\* The list of free objects of one slab changes.
SetAvail(p, i, s) == slabs' = [slabs EXCEPT ![p][i].avail = s]

LEMMA SlabEdit ==
  ASSUME SlabTypes, NEW p \in Pools, NEW i \in 1 .. Len(slabs[p]), NEW s \in Seq(Objects),
         SetAvail(p, i, s)
  PROVE  /\ slabs' \in [Pools -> Seq(SlabType)]
         /\ \A q \in Pools : Len(slabs'[q]) = Len(slabs[q])
         /\ slabs'[p][i] = [addr |-> slabs[p][i].addr, avail |-> s]
         /\ \A q \in Pools : \A j \in 1 .. Len(slabs[q]) :
              q # p \/ j # i => slabs'[q][j] = slabs[q][j]
<1> DEFINE new == [addr |-> slabs[p][i].addr, avail |-> s]
           list == [slabs[p] EXCEPT ![i] = new]
<1>1. /\ slabs \in [Pools -> Seq(SlabType)] /\ slabs[p] \in Seq(SlabType)
      /\ slabs[p][i] \in SlabType
  BY ElementOfSeq DEF SlabTypes
<1>2. new \in SlabType
  BY <1>1 DEF SlabType
<1>3. [slabs[p][i] EXCEPT !.avail = s] = new
  <2>1. slabs[p][i] = [addr |-> slabs[p][i].addr, avail |-> slabs[p][i].avail]
    BY <1>1 DEF SlabType
  <2>2. \A u, v : [[addr |-> u, avail |-> v] EXCEPT !.avail = s]
                  = [addr |-> u, avail |-> s]
    OBVIOUS
  <2> QED
    BY <2>1, <2>2
<1>4. [slabs EXCEPT ![p][i].avail = s] =
        [slabs EXCEPT ![p] = [slabs[p] EXCEPT ![i] = [slabs[p][i] EXCEPT !.avail = s]]]
  OBVIOUS
<1>5. slabs' = [slabs EXCEPT ![p] = list]
  BY <1>3, <1>4 DEF SetAvail
<1> HIDE DEF new
<1>6. /\ list \in Seq(SlabType) /\ Len(list) = Len(slabs[p])
      /\ \A j \in 1 .. Len(slabs[p]) : list[j] = IF j = i THEN new ELSE slabs[p][j]
  BY <1>1, <1>2, ExceptSeq
<1> HIDE DEF list
<1>7. /\ slabs' \in [Pools -> Seq(SlabType)] /\ slabs'[p] = list
      /\ \A q \in Pools : q # p => slabs'[q] = slabs[q]
  BY <1>1, <1>5, <1>6
<1> QED
  BY <1>6, <1>7 DEF new

\* A call goes on.
LEMMA GotoCalls ==
  ASSUME CallTypes, NEW c \in Cpus, NEW label, NEW locals, Goto(c, label, locals),
         \/ label = "idle" /\ locals = NoCall
         \/ label = "region" /\ locals \in Fetching
              /\ (locals.op = "alloc" => locals.sym \in Symbols)
         \/ label = "retry" /\ locals \in Fetching
              /\ locals.op = "alloc" /\ locals.sym \in Symbols
         \/ label = "push" /\ locals \in Pushing
              /\ (locals.op = "alloc" => locals.sym \in Symbols)
         \/ label = "free" /\ locals \in Freeing
         \/ label = "copy" /\ locals \in Copies
  PROVE  /\ CallTypes' /\ pc'[c] = label /\ call'[c] = locals
         /\ \A d \in Cpus : d # c => pc'[d] = pc[d] /\ call'[d] = call[d]
<1>1. locals \in Calls
  BY DEF Calls
<1>2. /\ pc' \in [Cpus -> {"idle", "region", "push", "retry", "free", "copy"}]
      /\ call' \in [Cpus -> Calls] /\ pc'[c] = label /\ call'[c] = locals
      /\ \A d \in Cpus : d # c => pc'[d] = pc[d] /\ call'[d] = call[d]
  BY <1>1 DEF CallTypes, Goto
<1>3. ASSUME NEW d \in Cpus
      PROVE  /\ pc'[d] = "idle" => call'[d] = NoCall
             /\ pc'[d] \in {"region", "retry"} => call'[d] \in Fetching
             /\ pc'[d] = "push" => call'[d] \in Pushing
             /\ pc'[d] = "free" => call'[d] \in Freeing
             /\ pc'[d] = "copy" => call'[d] \in Copies
             /\ pc'[d] = "retry" => call'[d].op = "alloc"
             /\ pc'[d] \in {"region", "push", "retry"} /\ call'[d].op = "alloc"
                  => call'[d].sym \in Symbols
  <2>1. CASE d = c
    BY <1>2, <2>1
  <2>2. CASE d # c
    BY <1>2, <2>2 DEF CallTypes
  <2> QED
    BY <2>1, <2>2
<1> QED
  BY <1>2, <1>3 DEF CallTypes

\* Slabs stay where they are; only lists of free objects change.
SlabsStay ==
  /\ SlabPlaces' = SlabPlaces
  /\ \A x \in SlabPlaces :
       /\ SlabAt(x)'.addr = SlabAt(x).addr
       /\ \A a : InSlabAt(x, a)' <=> InSlabAt(x, a)
       /\ \A k : ObjectAt(SlabAt(x), k)' = ObjectAt(SlabAt(x), k)

LEMMA KeepPlaces ==
  ASSUME SlabTypes, slabs' \in [Pools -> Seq(SlabType)],
         \A p \in Pools : Len(slabs'[p]) = Len(slabs[p]),
         \A p \in Pools : \A i \in 1 .. Len(slabs[p]) :
           slabs'[p][i].addr = slabs[p][i].addr,
         \A c \in Cpus : /\ pc'[c] = "push" <=> pc[c] = "push"
                         /\ pc[c] = "push" => call'[c] = call[c],
         area.sbrk \in Nat, area'.sbrk \in Nat, area.sbrk <= area'.sbrk,
         CallTypes
  PROVE  SlabTypes' /\ SlabsStay
<1>1. /\ \A x : x \in SlabPlaces <=>
            \/ \E p \in Pools : \E i \in 1 .. Len(slabs[p]) : x = <<p, i>>
            \/ \E c \in Cpus : pc[c] = "push" /\ x = <<c, 0>>
      /\ \A p \in Pools : \A i \in 1 .. Len(slabs[p]) : SlabAt(<<p, i>>) = slabs[p][i]
      /\ \A c \in Cpus : SlabAt(<<c, 0>>) = call[c].slab
  BY PlacesAre DEF PlacesInv
<1>2. \A x : x \in SlabPlaces' <=>
            \/ \E p \in Pools : \E i \in 1 .. Len(slabs'[p]) : x = <<p, i>>
            \/ \E c \in Cpus : pc'[c] = "push" /\ x = <<c, 0>>
  BY SlabPlacesNext
<1>3. SlabPlaces' = SlabPlaces
  BY <1>1, <1>2
<1>4. ASSUME NEW x \in SlabPlaces
      PROVE  SlabAt(x)'.addr = SlabAt(x).addr /\ SlabAt(x).addr \in Nat
  <2>1. ASSUME NEW p \in Pools, NEW i \in 1 .. Len(slabs[p]), x = <<p, i>>
        PROVE  SlabAt(x)'.addr = SlabAt(x).addr /\ SlabAt(x).addr \in Nat
    <3>1. SlabAt(x) = slabs[p][i] /\ SlabAt(x)' = slabs'[p][i]
      BY <2>1 DEF SlabAt
    <3>2. slabs[p][i] \in SlabType
      BY ElementOfSeq DEF SlabTypes
    <3> QED
      BY <3>1, <3>2 DEF SlabType
  <2>2. ASSUME NEW c \in Cpus, pc[c] = "push", x = <<c, 0>>
        PROVE  SlabAt(x)'.addr = SlabAt(x).addr /\ SlabAt(x).addr \in Nat
    <3>1. SlabAt(x) = call[c].slab /\ SlabAt(x)' = call'[c].slab
      BY <2>2 DEF SlabAt
    <3>2. call[c].slab \in SlabType /\ call'[c] = call[c]
      BY <2>2 DEF CallTypes, Pushing
    <3> QED
      BY <3>1, <3>2 DEF SlabType
  <2> QED
    BY <1>1, <2>1, <2>2
<1>5. ASSUME NEW x \in SlabPlaces
      PROVE  /\ Extent(SlabAt(x))' = Extent(SlabAt(x))
             /\ \A k : ObjectAt(SlabAt(x), k)' = ObjectAt(SlabAt(x), k)
             /\ \A a : InSlabAt(x, a)' <=> InSlabAt(x, a)
  BY <1>4 DEF Extent, ObjectAt, InSlabAt
<1>6. SlabsStay
  BY <1>3, <1>4, <1>5 DEF SlabsStay
<1>7. ASSUME NEW x \in SlabPlaces
      PROVE  Within(Extent(SlabAt(x)), area.sbrk)' /\ SlabAt(x)'.addr \in Nat
  <2>1. Within(Extent(SlabAt(x)), area.sbrk) /\ Extent(SlabAt(x)).to \in Nat
    BY <1>4, ObjectProperties DEF SlabTypes, Spans
  <2> QED
    BY <1>4, <1>5, <2>1 DEF Within
<1> QED
  BY <1>3, <1>6, <1>7 DEF SlabTypes

\* A call that is not about to push a slab leaves the slabs as they were.
LEMMA SameSlabs ==
  ASSUME SlabTypes, slabs' = slabs,
         \A d \in Cpus : /\ pc'[d] = "push" <=> pc[d] = "push"
                         /\ pc[d] = "push" => call'[d] = call[d]
  PROVE  /\ SlabPlaces' = SlabPlaces
         /\ \A x \in SlabPlaces : SlabAt(x)' = SlabAt(x)
<1>1. slabs' \in [Pools -> Seq(SlabType)]
  BY DEF SlabTypes
<1>2. /\ \A x : x \in SlabPlaces <=>
            \/ \E p \in Pools : \E i \in 1 .. Len(slabs[p]) : x = <<p, i>>
            \/ \E c \in Cpus : pc[c] = "push" /\ x = <<c, 0>>
      /\ \A p \in Pools : \A i \in 1 .. Len(slabs[p]) : SlabAt(<<p, i>>) = slabs[p][i]
      /\ \A c \in Cpus : SlabAt(<<c, 0>>) = call[c].slab
  BY PlacesAre DEF PlacesInv
<1>3. \A x : x \in SlabPlaces' <=>
            \/ \E p \in Pools : \E i \in 1 .. Len(slabs'[p]) : x = <<p, i>>
            \/ \E c \in Cpus : pc'[c] = "push" /\ x = <<c, 0>>
  BY <1>1, SlabPlacesNext
<1>4. SlabPlaces' = SlabPlaces
  BY <1>2, <1>3
<1>5. ASSUME NEW x \in SlabPlaces PROVE SlabAt(x)' = SlabAt(x)
  <2>1. ASSUME NEW p \in Pools, NEW i \in 1 .. Len(slabs[p]), x = <<p, i>>
        PROVE  SlabAt(x)' = SlabAt(x)
    BY <2>1 DEF SlabAt
  <2>2. ASSUME NEW c \in Cpus, pc[c] = "push", x = <<c, 0>>
        PROVE  SlabAt(x)' = SlabAt(x)
    BY <2>2 DEF SlabAt
  <2> QED
    BY <1>2, <2>1, <2>2
<1> QED
  BY <1>4, <1>5

\* What programs hold stays within an area that only grows.
LEMMA HeldStay ==
  ASSUME Types, KernelArea(area)', area.sbrk <= area'.sbrk, held' \subseteq Spans,
         \A b \in held' : b \in held \/ InUse(b, area'.sbrk),
         \A c \in Cpus : pc'[c] = "copy" =>
           \/ pc[c] = "copy" /\ call'[c] = call[c]
           \/ InUse(call'[c].block, area'.sbrk)
  PROVE  HeldTypes'
<1>1. area.sbrk \in Nat /\ area'.sbrk \in Nat
  BY DEF Types, KernelArea, AreaShape, Areas
<1>2. ASSUME NEW b \in Spans, InUse(b, area.sbrk) PROVE InUse(b, area'.sbrk)
  BY <1>1, <1>2 DEF InUse, Within, Spans
<1>3. \A b \in held' : InUse(b, area'.sbrk)
  BY <1>2 DEF Types, HeldTypes
<1>4. \A c \in Cpus : pc[c] = "copy" => call[c].block \in Spans
  BY DEF Types, CallTypes, Copies
<1>5. \A c \in Cpus : pc'[c] = "copy" => InUse(call'[c].block, area'.sbrk)
  BY <1>2, <1>4 DEF Types, HeldTypes
<1> QED
  BY <1>3, <1>5 DEF HeldTypes

-----------------------------------------------------------------------------
(* Memory is partitioned: what each change of it must obey.                   *)

\* Nothing changes.
LEMMA SameMemory ==
  ASSUME area' = area, SlabPlaces' = SlabPlaces,
         \A x \in SlabPlaces : SlabAt(x)' = SlabAt(x), Apart, ObjectsInv
  PROVE  Apart' /\ ObjectsInv'
<1>1. \A x \in SlabPlaces : /\ \A a : InSlabAt(x, a)' <=> InSlabAt(x, a)
                            /\ \A k : Kept(x, k)' <=> Kept(x, k)
                            /\ \A k : Entered(x, k)' <=> Entered(x, k)
                            /\ \A k : ObjectAt(SlabAt(x), k)' = ObjectAt(SlabAt(x), k)
                            /\ OnceIn(SlabAt(x).avail)' <=> OnceIn(SlabAt(x).avail)
  BY DEF InSlabAt, Kept, Entered, OnceIn, ObjectAt
<1>2. \A i, a : InEntry(i, a)' <=> InEntry(i, a)
  BY DEF InEntry
<1>3. Apart'
  BY <1>1, <1>2 DEF Apart
<1>4. ObjectsInv'
  BY <1>1, <1>2 DEF ObjectsInv
<1> QED
  BY <1>3, <1>4

\* One entry of the table changes.
LEMMA ApartEdit ==
  ASSUME Apart, SlabsStay, area.table \in [Symbols -> Spans],
         NEW s \in Symbols, NEW r \in Spans,
         area'.table = [area.table EXCEPT ![s] = r], Disjoint(area.free)',
         \A i \in Symbols, a \in Nat : i # s /\ In(r, a) => ~InEntry(i, a),
         \A a \in Nat : Available(area', a) =>
           /\ ~In(r, a)
           /\ \/ Available(area, a)
              \/ InEntry(s, a) /\ \A x \in SlabPlaces : ~InSlabAt(x, a),
         \A a \in Nat : Base <= a /\ (Available(area, a) \/ InEntry(s, a)) =>
           Available(area', a) \/ In(r, a) \/ \E x \in SlabPlaces : InSlabAt(x, a)
  PROVE  Apart'
<1>1. /\ SlabPlaces' = SlabPlaces
      /\ \A x \in SlabPlaces : \A a : InSlabAt(x, a)' <=> InSlabAt(x, a)
  BY DEF SlabsStay
<1>2. /\ \A a : InEntry(s, a)' <=> In(r, a)
      /\ \A i \in Symbols : i # s => \A a : InEntry(i, a)' <=> InEntry(i, a)
  BY DEF InEntry
<1>3. \A i, j \in Symbols, a \in Nat : InEntry(i, a)' /\ InEntry(j, a)' => i = j
  <2> SUFFICES ASSUME NEW i \in Symbols, NEW j \in Symbols, NEW a \in Nat,
                      InEntry(i, a)', InEntry(j, a)', i # j
               PROVE  FALSE
    OBVIOUS
  <2>1. CASE i # s /\ j # s
    BY <1>2, <2>1 DEF Apart
  <2>2. CASE i = s
    BY <1>2, <2>2
  <2>3. CASE j = s
    BY <1>2, <2>3
  <2> QED
    BY <2>1, <2>2, <2>3
<1>4. \A x, y \in SlabPlaces', a \in Nat : InSlabAt(x, a)' /\ InSlabAt(y, a)' => x = y
  BY <1>1 DEF Apart
<1>5. ASSUME NEW a \in Nat, Available(area', a)
      PROVE  /\ \A i \in Symbols : ~InEntry(i, a)'
             /\ \A x \in SlabPlaces' : ~InSlabAt(x, a)'
  <2>1. ~In(r, a)
    BY <1>5
  <2>2. CASE Available(area, a)
    BY <1>1, <1>2, <2>1, <2>2 DEF Apart
  <2>3. CASE InEntry(s, a) /\ \A x \in SlabPlaces : ~InSlabAt(x, a)
    BY <1>1, <1>2, <2>1, <2>3 DEF Apart
  <2> QED
    BY <1>5, <2>2, <2>3
<1>6. ASSUME NEW a \in Nat, Base <= a
      PROVE  \/ Available(area', a)
             \/ \E i \in Symbols : InEntry(i, a)'
             \/ \E x \in SlabPlaces' : InSlabAt(x, a)'
  <2>1. CASE Available(area, a) \/ InEntry(s, a)
    BY <1>1, <1>2, <1>6, <2>1
  <2>2. CASE \E x \in SlabPlaces : InSlabAt(x, a)
    BY <1>1, <2>2
  <2>3. CASE \E i \in Symbols : i # s /\ InEntry(i, a)
    BY <1>2, <2>3
  <2> QED
    BY <1>6, <2>1, <2>2, <2>3 DEF Apart
<1> QED
  BY <1>3, <1>4, <1>5, <1>6 DEF Apart

\* Slabs change places: m says where each one was.
LEMMA MovedPlaces ==
  ASSUME area' = area, Apart, ObjectsInv, NEW m \in [SlabPlaces' -> SlabPlaces],
         \A x, y \in SlabPlaces' : m[x] = m[y] => x = y,
         \A y \in SlabPlaces : \E x \in SlabPlaces' : m[x] = y,
         \A x \in SlabPlaces' : /\ SlabAt(x)' = SlabAt(m[x])
                                /\ x[2] = 0 => m[x][2] = 0
  PROVE  Apart' /\ ObjectsInv'
<1>1. ASSUME NEW x \in SlabPlaces'
      PROVE  /\ m[x] \in SlabPlaces
             /\ \A a : InSlabAt(x, a)' <=> InSlabAt(m[x], a)
             /\ \A k : Kept(x, k)' <=> Kept(m[x], k)
             /\ \A k : Entered(x, k)' <=> Entered(m[x], k)
             /\ \A k : ObjectAt(SlabAt(x), k)' = ObjectAt(SlabAt(m[x]), k)
             /\ OnceIn(SlabAt(x).avail)' <=> OnceIn(SlabAt(m[x]).avail)
  <2>1. m[x] \in SlabPlaces /\ SlabAt(x)' = SlabAt(m[x])
    OBVIOUS
  <2> QED
    BY <2>1 DEF InSlabAt, Kept, Entered, OnceIn, ObjectAt
<1>2. \A i, a : InEntry(i, a)' <=> InEntry(i, a)
  BY DEF InEntry
<1>3. \A x, y \in SlabPlaces', a \in Nat : InSlabAt(x, a)' /\ InSlabAt(y, a)' => x = y
  <2> TAKE x, y \in SlabPlaces', a \in Nat
  <2> HAVE InSlabAt(x, a)' /\ InSlabAt(y, a)'
  <2>1. m[x] = m[y]
    BY <1>1 DEF Apart
  <2> QED
    BY <2>1
<1>4. \A a \in Nat : Available(area', a) =>
        /\ \A i \in Symbols : ~InEntry(i, a)'
        /\ \A x \in SlabPlaces' : ~InSlabAt(x, a)'
  BY <1>1, <1>2 DEF Apart
<1>5. ASSUME NEW a \in Nat, Base <= a
      PROVE  \/ Available(area', a)
             \/ \E i \in Symbols : InEntry(i, a)'
             \/ \E x \in SlabPlaces' : InSlabAt(x, a)'
  <2>1. CASE \E y \in SlabPlaces : InSlabAt(y, a)
    BY <1>1, <2>1
  <2> QED
    BY <1>2, <1>5, <2>1 DEF Apart
<1>6. Apart'
  <2>1. Disjoint(area'.free)
    BY DEF Apart
  <2>2. Disjoint(area.free)'
    BY <2>1
  <2>3. \A i, j \in Symbols, a \in Nat : InEntry(i, a)' /\ InEntry(j, a)' => i = j
    BY <1>2 DEF Apart
  <2> QED
    BY <1>3, <1>4, <1>5, <2>2, <2>3 DEF Apart
<1>7. \A i \in Symbols, x \in SlabPlaces', a \in Nat : InEntry(i, a)' /\ InSlabAt(x, a)'
        => \E k \in Objects : area'.table[i] = ObjectAt(SlabAt(x), k)'
  BY <1>1, <1>2 DEF ObjectsInv
<1>8. \A x \in SlabPlaces' :
        /\ OnceIn(SlabAt(x).avail)'
        /\ \A k \in Objects : Kept(x, k)' <=> ~Entered(x, k)'
        /\ x[2] = 0 => \A k \in Objects : Kept(x, k)'
  BY <1>1 DEF ObjectsInv
<1>9. ObjectsInv'
  BY <1>7, <1>8 DEF ObjectsInv
<1> QED
  BY <1>6, <1>9

\* Every slab has its objects, and each of them an address of the slab.
LEMMA SlabIsTyped ==
  ASSUME SlabTypes, CallTypes
  PROVE  \A x \in SlabPlaces :
           /\ SlabAt(x) \in SlabType
           /\ \A k \in Objects :
                /\ ObjectAt(SlabAt(x), k) \in Spans
                /\ ObjectAt(SlabAt(x), k) # Unused
                /\ \A a \in Nat : In(ObjectAt(SlabAt(x), k), a) => InSlabAt(x, a)
                /\ In(ObjectAt(SlabAt(x), k), ObjectAt(SlabAt(x), k).from)
                /\ InSlabAt(x, ObjectAt(SlabAt(x), k).from)
<1> TAKE x \in SlabPlaces
<1>1. SlabAt(x) \in SlabType
  <2>1. ASSUME NEW p \in Pools, NEW i \in 1 .. Len(slabs[p]), x = <<p, i>>
        PROVE  SlabAt(x) \in SlabType
    BY <2>1, PlacesAre, ElementOfSeq DEF PlacesInv, SlabTypes
  <2>2. ASSUME NEW c \in Cpus, pc[c] = "push", x = <<c, 0>>
        PROVE  SlabAt(x) \in SlabType
    BY <2>2 DEF SlabAt, CallTypes, Pushing
  <2> QED
    BY <2>1, <2>2, PlacesAre DEF PlacesInv
<1>2. SlabAt(x).addr \in Nat
  BY <1>1 DEF SlabType
<1>3. ASSUME NEW k \in Objects
      PROVE  /\ ObjectAt(SlabAt(x), k) \in Spans
             /\ ObjectAt(SlabAt(x), k) # Unused
             /\ \A a \in Nat : In(ObjectAt(SlabAt(x), k), a) => InSlabAt(x, a)
             /\ In(ObjectAt(SlabAt(x), k), ObjectAt(SlabAt(x), k).from)
             /\ InSlabAt(x, ObjectAt(SlabAt(x), k).from)
  <2> DEFINE o == ObjectAt(SlabAt(x), k)
  <2>1. /\ o \in Spans /\ o.from < o.to
        /\ \A a \in Nat : In(o, a) => In(Extent(SlabAt(x)), a)
    BY <1>2, ObjectProperties
  <2> HIDE DEF o
  <2>2. o.from \in Nat /\ In(o, o.from)
    BY <2>1 DEF Spans, In
  <2>3. o # Unused
    BY <2>1, UnusedProperties
  <2> QED
    BY <2>1, <2>2, <2>3 DEF InSlabAt, o
<1> QED
  BY <1>1, <1>3

\* An entry that was and is no object of a slab changes.
LEMMA PlainEdit ==
  ASSUME SlabTypes, CallTypes, ObjectsInv, area.table \in [Symbols -> Spans],
         SlabPlaces' = SlabPlaces, \A x \in SlabPlaces : SlabAt(x)' = SlabAt(x),
         NEW s \in Symbols, NEW r \in Spans,
         area'.table = [area.table EXCEPT ![s] = r],
         \A x \in SlabPlaces, a \in Nat : InSlabAt(x, a) => ~InEntry(s, a) /\ ~In(r, a)
  PROVE  ObjectsInv'
<1>1. /\ \A a : InEntry(s, a)' <=> In(r, a)
      /\ \A i \in Symbols : i # s => \A a : InEntry(i, a)' <=> InEntry(i, a)
      /\ area'.table[s] = r
      /\ \A i \in Symbols : i # s => area'.table[i] = area.table[i]
  BY DEF InEntry
<1>2. \A x \in SlabPlaces : /\ \A a : InSlabAt(x, a)' <=> InSlabAt(x, a)
                            /\ \A k : Kept(x, k)' <=> Kept(x, k)
                            /\ \A k : ObjectAt(SlabAt(x), k)' = ObjectAt(SlabAt(x), k)
                            /\ OnceIn(SlabAt(x).avail)' <=> OnceIn(SlabAt(x).avail)
  BY DEF InSlabAt, Kept, OnceIn, ObjectAt
<1>3. ASSUME NEW x \in SlabPlaces, NEW k \in Objects
      PROVE  Entered(x, k)' <=> Entered(x, k)
  <2> DEFINE o == ObjectAt(SlabAt(x), k)
  <2>1. o \in Spans /\ In(o, o.from) /\ InSlabAt(x, o.from)
    BY SlabIsTyped
  <2>2. o.from \in Nat
    BY <2>1 DEF Spans
  <2>3. o # r /\ o # area.table[s]
    BY <2>1, <2>2 DEF InEntry
  <2>4. o = ObjectAt(SlabAt(x), k)'
    BY <1>2
  <2> QED
    BY <1>1, <2>3, <2>4 DEF Entered
<1>4. \A i \in Symbols, x \in SlabPlaces, a \in Nat : InEntry(i, a)' /\ InSlabAt(x, a)'
        => \E k \in Objects : area'.table[i] = ObjectAt(SlabAt(x), k)'
  <2> TAKE i \in Symbols, x \in SlabPlaces, a \in Nat
  <2> HAVE InEntry(i, a)' /\ InSlabAt(x, a)'
  <2>1. i # s
    BY <1>1, <1>2
  <2>2. \E k \in Objects : area.table[i] = ObjectAt(SlabAt(x), k)
    BY <1>1, <1>2, <2>1 DEF ObjectsInv
  <2> QED
    BY <1>1, <1>2, <2>1, <2>2
<1>5. \A x \in SlabPlaces :
        /\ OnceIn(SlabAt(x).avail)'
        /\ \A k \in Objects : Kept(x, k)' <=> ~Entered(x, k)'
        /\ x[2] = 0 => \A k \in Objects : Kept(x, k)'
  BY <1>2, <1>3 DEF ObjectsInv
<1> QED
  BY <1>4, <1>5 DEF ObjectsInv

-----------------------------------------------------------------------------
(* Objects that are taken and given back.                                     *)

\* No two objects are the same region.
LEMMA DistinctObjects ==
  ASSUME SlabTypes, CallTypes, Apart
  PROVE  \A x, y \in SlabPlaces, k, l \in Objects :
           ObjectAt(SlabAt(x), k) = ObjectAt(SlabAt(y), l) => x = y /\ k = l
<1> SUFFICES ASSUME NEW x \in SlabPlaces, NEW y \in SlabPlaces,
                    NEW k \in Objects, NEW l \in Objects,
                    ObjectAt(SlabAt(x), k) = ObjectAt(SlabAt(y), l)
             PROVE  x = y /\ k = l
  OBVIOUS
<1> DEFINE o == ObjectAt(SlabAt(x), k)
<1>1. o.from \in Nat /\ In(o, o.from) /\ InSlabAt(x, o.from) /\ InSlabAt(y, o.from)
  BY SlabIsTyped DEF Spans
<1>2. x = y
  BY <1>1 DEF Apart
<1>3. SlabAt(x) \in SlabType
  BY SlabIsTyped
<1>4. SlabAt(x).addr \in Nat
  BY <1>3 DEF SlabType
<1>5. k = l
  BY <1>1, <1>2, <1>4, ObjectProperties
<1> QED
  BY <1>2, <1>5

\* One slab has another list of free objects.
LEMMA EditPlaces ==
  ASSUME Types, KernelArea(area)', area.sbrk <= area'.sbrk,
         NEW p \in Pools, NEW i \in 1 .. Len(slabs[p]), NEW s \in Seq(Objects),
         SetAvail(p, i, s),
         \A c \in Cpus : /\ pc'[c] = "push" <=> pc[c] = "push"
                         /\ pc[c] = "push" => call'[c] = call[c]
  PROVE  /\ SlabTypes' /\ SlabsStay
         /\ <<p, i>> \in SlabPlaces /\ SlabAt(<<p, i>>) = slabs[p][i]
         /\ SlabAt(<<p, i>>)'.avail = s
         /\ \A x \in SlabPlaces : x # <<p, i>> => SlabAt(x)' = SlabAt(x)
<1>1. SlabTypes /\ CallTypes /\ area.sbrk \in Nat /\ area'.sbrk \in Nat
  BY DEF Types, KernelArea, AreaShape, Areas
<1>2. /\ slabs' \in [Pools -> Seq(SlabType)]
      /\ \A q \in Pools : Len(slabs'[q]) = Len(slabs[q])
      /\ slabs'[p][i] = [addr |-> slabs[p][i].addr, avail |-> s]
      /\ \A q \in Pools : \A j \in 1 .. Len(slabs[q]) :
           q # p \/ j # i => slabs'[q][j] = slabs[q][j]
  BY <1>1, SlabEdit
<1>3. \A q \in Pools : \A j \in 1 .. Len(slabs[q]) :
        slabs'[q][j].addr = slabs[q][j].addr
  BY <1>2
<1>4. SlabTypes' /\ SlabsStay
  BY <1>1, <1>2, <1>3, KeepPlaces
<1>5. /\ \A x : x \in SlabPlaces <=>
            \/ \E q \in Pools : \E j \in 1 .. Len(slabs[q]) : x = <<q, j>>
            \/ \E c \in Cpus : pc[c] = "push" /\ x = <<c, 0>>
      /\ \A q \in Pools : \A j \in 1 .. Len(slabs[q]) : SlabAt(<<q, j>>) = slabs[q][j]
  BY <1>1, PlacesAre DEF PlacesInv
<1>6. \A q \in Pools : \A j \in 1 .. Len(slabs[q]) : SlabAt(<<q, j>>)' = slabs'[q][j]
  BY DEF SlabAt
<1>7. ASSUME NEW x \in SlabPlaces, x # <<p, i>> PROVE SlabAt(x)' = SlabAt(x)
  <2>1. ASSUME NEW q \in Pools, NEW j \in 1 .. Len(slabs[q]), x = <<q, j>>
        PROVE  SlabAt(x)' = SlabAt(x)
    <3>1. q # p \/ j # i
      BY <1>7, <2>1
    <3>2. slabs'[q][j] = slabs[q][j]
      BY <1>2, <3>1
    <3> QED
      BY <1>5, <1>6, <2>1, <3>2
  <2>2. ASSUME NEW c \in Cpus, pc[c] = "push", x = <<c, 0>>
        PROVE  SlabAt(x)' = SlabAt(x)
    BY <2>2 DEF SlabAt
  <2> QED
    BY <1>5, <2>1, <2>2
<1> QED
  BY <1>2, <1>4, <1>5, <1>6, <1>7

\* An object goes from the list of its slab to an empty entry of the table.
LEMMA ObjectTaken ==
  ASSUME SlabTypes, CallTypes, Apart, ObjectsInv, SlabsStay,
         area.table \in [Symbols -> Spans],
         NEW x0 \in SlabPlaces, x0[2] # 0, NEW k0 \in Objects, NEW s \in Symbols,
         area.table[s] = Unused,
         area'.table = [area.table EXCEPT ![s] = ObjectAt(SlabAt(x0), k0)],
         \A x \in SlabPlaces : x # x0 => SlabAt(x)' = SlabAt(x),
         OnceIn(SlabAt(x0).avail)', ~Kept(x0, k0)',
         \A k \in Objects : k # k0 => (Kept(x0, k)' <=> Kept(x0, k))
  PROVE  ObjectsInv'
<1> DEFINE o == ObjectAt(SlabAt(x0), k0)
<1>1. /\ area'.table[s] = o
      /\ \A i \in Symbols : i # s => area'.table[i] = area.table[i]
      /\ \A a : InEntry(s, a)' <=> In(o, a)
      /\ \A i \in Symbols : i # s => \A a : InEntry(i, a)' <=> InEntry(i, a)
  BY DEF InEntry
<1>2. /\ SlabPlaces' = SlabPlaces
      /\ \A x \in SlabPlaces :
           /\ \A a : InSlabAt(x, a)' <=> InSlabAt(x, a)
           /\ \A k : ObjectAt(SlabAt(x), k)' = ObjectAt(SlabAt(x), k)
  BY DEF SlabsStay
<1>3. ASSUME NEW x \in SlabPlaces, x # x0
      PROVE  /\ \A k : Kept(x, k)' <=> Kept(x, k)
             /\ OnceIn(SlabAt(x).avail)' <=> OnceIn(SlabAt(x).avail)
  BY <1>3 DEF Kept, OnceIn
<1>4. ASSUME NEW x \in SlabPlaces, NEW k \in Objects
      PROVE  Entered(x, k)' <=> Entered(x, k) \/ (x = x0 /\ k = k0)
  <2>1. /\ ObjectAt(SlabAt(x), k) # Unused
        /\ ObjectAt(SlabAt(x), k) = o <=> x = x0 /\ k = k0
        /\ ObjectAt(SlabAt(x), k)' = ObjectAt(SlabAt(x), k)
    BY <1>2, SlabIsTyped, DistinctObjects
  <2> HIDE DEF o
  <2> QED
    BY <1>1, <2>1 DEF Entered
<1>5. \A i \in Symbols, x \in SlabPlaces, a \in Nat : InEntry(i, a)' /\ InSlabAt(x, a)'
        => \E k \in Objects : area'.table[i] = ObjectAt(SlabAt(x), k)'
  <2> TAKE i \in Symbols, x \in SlabPlaces, a \in Nat
  <2> HAVE InEntry(i, a)' /\ InSlabAt(x, a)'
  <2>1. CASE i # s
    BY <1>1, <1>2, <2>1 DEF ObjectsInv
  <2>2. CASE i = s
    <3>1. In(o, a) /\ InSlabAt(x, a)
      BY <1>1, <1>2, <2>2
    <3>2. InSlabAt(x0, a)
      BY <3>1, SlabIsTyped
    <3>3. x = x0
      BY <3>1, <3>2 DEF Apart
    <3> QED
      BY <1>1, <1>2, <2>2, <3>3
  <2> QED
    BY <2>1, <2>2
<1>6. ASSUME NEW x \in SlabPlaces
      PROVE  /\ OnceIn(SlabAt(x).avail)'
             /\ \A k \in Objects : Kept(x, k)' <=> ~Entered(x, k)'
             /\ x[2] = 0 => \A k \in Objects : Kept(x, k)'
  <2>1. CASE x # x0
    BY <1>3, <1>4, <2>1 DEF ObjectsInv
  <2>2. CASE x = x0
    <3>1. \A k \in Objects : Kept(x, k)' <=> ~Entered(x, k)'
      BY <1>4, <2>2 DEF ObjectsInv
    <3> QED
      BY <2>2, <3>1
  <2> QED
    BY <2>1, <2>2
<1> QED
  BY <1>2, <1>5, <1>6 DEF ObjectsInv

\* An object goes from the table back to the list of its slab.
LEMMA ObjectGiven ==
  ASSUME SlabTypes, CallTypes, Apart, ObjectsInv, SlabsStay,
         area.table \in [Symbols -> Spans],
         NEW x0 \in SlabPlaces, x0[2] # 0, NEW k0 \in Objects, NEW s \in Symbols,
         area.table[s] = ObjectAt(SlabAt(x0), k0),
         area'.table = [area.table EXCEPT ![s] = Unused],
         \A x \in SlabPlaces : x # x0 => SlabAt(x)' = SlabAt(x),
         OnceIn(SlabAt(x0).avail)', Kept(x0, k0)',
         \A k \in Objects : k # k0 => (Kept(x0, k)' <=> Kept(x0, k))
  PROVE  ObjectsInv'
<1> DEFINE o == ObjectAt(SlabAt(x0), k0)
<1>1. /\ area'.table[s] = Unused
      /\ \A i \in Symbols : i # s => area'.table[i] = area.table[i]
      /\ \A a \in Nat : ~InEntry(s, a)'
      /\ \A i \in Symbols : i # s => \A a : InEntry(i, a)' <=> InEntry(i, a)
  BY UnusedProperties DEF InEntry
<1>2. /\ SlabPlaces' = SlabPlaces
      /\ \A x \in SlabPlaces :
           /\ \A a : InSlabAt(x, a)' <=> InSlabAt(x, a)
           /\ \A k : ObjectAt(SlabAt(x), k)' = ObjectAt(SlabAt(x), k)
  BY DEF SlabsStay
<1>3. ASSUME NEW x \in SlabPlaces, x # x0
      PROVE  /\ \A k : Kept(x, k)' <=> Kept(x, k)
             /\ OnceIn(SlabAt(x).avail)' <=> OnceIn(SlabAt(x).avail)
  BY <1>3 DEF Kept, OnceIn
<1>4. o.from \in Nat /\ In(o, o.from)
  BY SlabIsTyped DEF Spans
<1>5. \A i \in Symbols : i # s => area.table[i] # o
  BY <1>4 DEF Apart, InEntry
<1>6. ASSUME NEW x \in SlabPlaces, NEW k \in Objects
      PROVE  Entered(x, k)' <=> Entered(x, k) /\ ~(x = x0 /\ k = k0)
  <2>1. /\ ObjectAt(SlabAt(x), k) # Unused
        /\ ObjectAt(SlabAt(x), k) = o <=> x = x0 /\ k = k0
        /\ ObjectAt(SlabAt(x), k)' = ObjectAt(SlabAt(x), k)
        /\ area.table[s] = o
    BY <1>2, SlabIsTyped, DistinctObjects
  <2> HIDE DEF o
  <2> QED
    BY <1>1, <1>5, <2>1 DEF Entered
<1>7. \A i \in Symbols, x \in SlabPlaces, a \in Nat : InEntry(i, a)' /\ InSlabAt(x, a)'
        => \E k \in Objects : area'.table[i] = ObjectAt(SlabAt(x), k)'
  <2> TAKE i \in Symbols, x \in SlabPlaces, a \in Nat
  <2> HAVE InEntry(i, a)' /\ InSlabAt(x, a)'
  <2> QED
    BY <1>1, <1>2 DEF ObjectsInv
<1>8. ASSUME NEW x \in SlabPlaces
      PROVE  /\ OnceIn(SlabAt(x).avail)'
             /\ \A k \in Objects : Kept(x, k)' <=> ~Entered(x, k)'
             /\ x[2] = 0 => \A k \in Objects : Kept(x, k)'
  <2>1. CASE x # x0
    BY <1>3, <1>6, <2>1 DEF ObjectsInv
  <2>2. CASE x = x0
    <3>1. \A k \in Objects : Kept(x, k)' <=> ~Entered(x, k)'
      BY <1>6, <2>2 DEF ObjectsInv
    <3> QED
      BY <2>2, <3>1
  <2> QED
    BY <2>1, <2>2
<1> QED
  BY <1>2, <1>7, <1>8 DEF ObjectsInv

-----------------------------------------------------------------------------
(* What programs hold and what calls have found.                              *)

\* An entry in use has addresses.
LEMMA EntryInUse ==
  ASSUME KernelArea(area), NEW i \in Symbols, area.table[i] # Unused
  PROVE  /\ area.table[i] \in Spans /\ area.table[i].from \in Nat
         /\ InEntry(i, area.table[i].from)
<1>1. area.table[i] \in Spans /\ InUse(area.table[i], area.sbrk)
  BY DEF KernelArea, AreaShape, Areas
<1> QED
  BY <1>1 DEF InUse, InEntry, In, Spans

\* No call has found an entry in this step; those that had found one keep it.
LEMMA GrantsFrame ==
  ASSUME GrantsInv, CallTypes, KernelArea(area),
         \A c \in Cpus : pc'[c] \in {"free", "copy"} =>
                          pc'[c] = pc[c] /\ call'[c] = call[c],
         \A c \in Cpus : pc'[c] \in {"free", "copy"} =>
           /\ area'.table[call[c].sym] = area.table[call[c].sym]
           /\ area.table[call[c].sym] \notin held',
         \A b \in held' : \E i \in Symbols : area'.table[i] = b,
         \A c \in Cpus : pc'[c] = "free" => \A p \in Pools, a \in Nat :
           InEntry(call[c].sym, a) => (PoolHas(p, a)' <=> PoolHas(p, a))
  PROVE  GrantsInv'
<1>1. \A c \in Cpus : c \in Working' =>
        /\ c \in Working /\ call'[c] = call[c] /\ pc'[c] = pc[c]
        /\ InHand(c)' = InHand(c)
  BY DEF Working, InHand
<1>2. \A c \in Working : call[c].sym \in Symbols
  BY DEF Working, CallTypes, Freeing, Copies
<1>3. \A c \in Working' : InHand(c)' # Unused /\ InHand(c)' \notin held'
  <2> TAKE c \in Working'
  <2>1. c \in Cpus
    BY DEF Working
  <2> QED
    BY <1>1, <2>1 DEF GrantsInv, InHand, Working
<1>4. \A c, d \in Working' : call'[c].sym = call'[d].sym => c = d
  <2> TAKE c, d \in Working'
  <2>1. c \in Cpus /\ d \in Cpus
    BY DEF Working
  <2> QED
    BY <1>1, <2>1 DEF GrantsInv
<1>5. \A c \in Cpus : pc'[c] = "copy" => call'[c].block = InHand(c)'
  <2> SUFFICES ASSUME NEW c \in Cpus, pc'[c] = "copy"
               PROVE  call'[c].block = InHand(c)'
    OBVIOUS
  <2>1. c \in Working'
    BY DEF Working
  <2> QED
    BY <1>1, <2>1 DEF GrantsInv
<1>6. ASSUME NEW c \in Cpus, pc'[c] = "free", NEW p \in Pools
      PROVE  p \in call'[c].pools <=> PoolHas(p, InHand(c).from)'
  <2>1. c \in Working'
    BY <1>6 DEF Working
  <2>2. InHand(c) # Unused
    BY <1>1, <2>1 DEF GrantsInv
  <2>3. InHand(c).from \in Nat /\ InEntry(call[c].sym, InHand(c).from)
    BY <1>1, <1>2, <2>1, <2>2, EntryInUse DEF InHand
  <2>4. PICK x \in Nat : x = InHand(c).from
    BY <2>3
  <2>5. PoolHas(p, x)' <=> PoolHas(p, x)
    BY <1>6, <2>3, <2>4
  <2>6. InHand(c)'.from = x
    BY <1>1, <2>1, <2>4
  <2>7. PoolHas(p, InHand(c).from)' <=> PoolHas(p, x)'
    BY <2>6 DEF PoolHas
  <2>8. p \in call[c].pools <=> PoolHas(p, x)
    BY <1>1, <1>6, <2>1, <2>4 DEF GrantsInv
  <2> QED
    BY <1>1, <2>1, <2>5, <2>7, <2>8
<1> QED
  BY <1>3, <1>4, <1>5, <1>6, <1>1 DEF GrantsInv

\* The pool that an address lies in stays the same.
LEMMA SamePools ==
  ASSUME slabs' = slabs
  PROVE  \A p \in Pools, a \in Nat : PoolHas(p, a)' <=> PoolHas(p, a)
<1> SUFFICES ASSUME NEW p \in Pools, NEW a \in Nat, NEW i \in 1 .. Len(slabs[p])
             PROVE  InSlabAt(<<p, i>>, a)' <=> InSlabAt(<<p, i>>, a)
  BY DEF PoolHas
<1> QED
  BY DEF InSlabAt, SlabAt

LEMMA StayPools ==
  ASSUME SlabTypes, SlabsStay, \A p \in Pools : Len(slabs'[p]) = Len(slabs[p])
  PROVE  \A p \in Pools, a \in Nat : PoolHas(p, a)' <=> PoolHas(p, a)
<1> SUFFICES ASSUME NEW p \in Pools, NEW a \in Nat, NEW i \in 1 .. Len(slabs[p])
             PROVE  InSlabAt(<<p, i>>, a)' <=> InSlabAt(<<p, i>>, a)
  BY DEF PoolHas
<1>1. <<p, i>> \in SlabPlaces
  BY PlacesAre DEF PlacesInv
<1> QED
  BY <1>1 DEF SlabsStay

-----------------------------------------------------------------------------
(* The steps.                                                                 *)

\* Without a race now there was none before.
Good == Apart /\ ObjectsInv /\ GrantsInv

\* A call that found no memory or no object left goes elsewhere.
LEMMA FetchStep ==
  ASSUME KmemInv, NEW c \in Cpus, pc[c] \notin {"push", "free", "copy"},
         NEW label, NEW locals, Goto(c, label, locals),
         \/ label = "idle" /\ locals = NoCall
         \/ label = "region" /\ locals \in Fetching
              /\ (locals.op = "alloc" => locals.sym \in Symbols),
         UNCHANGED <<area, slabs, held, raced>>
  PROVE  KmemInv'
<1>1. /\ Types /\ CallTypes /\ KernelArea(area) /\ SlabTypes /\ HeldTypes
      /\ raced \in BOOLEAN /\ area.sbrk \in Nat
  BY DEF KmemInv, Types, KernelArea, AreaShape, Areas
<1>2. /\ CallTypes' /\ pc'[c] = label /\ call'[c] = locals
      /\ \A d \in Cpus : d # c => pc'[d] = pc[d] /\ call'[d] = call[d]
  BY <1>1, GotoCalls
<1>3. \A d \in Cpus : /\ pc'[d] \in {"push", "free", "copy"} => pc'[d] = pc[d]
                      /\ pc[d] \in {"push", "free", "copy"} =>
                           pc'[d] = pc[d] /\ call'[d] = call[d]
  BY <1>2
<1>4. SlabPlaces' = SlabPlaces /\ \A x \in SlabPlaces : SlabAt(x)' = SlabAt(x)
  BY <1>1, <1>3, SameSlabs
<1>5. KernelArea(area)' /\ area.sbrk <= area'.sbrk /\ held' \subseteq Spans
  BY <1>1 DEF HeldTypes
<1>6. HeldTypes'
  BY <1>1, <1>3, <1>5, HeldStay
<1>7. SlabTypes'
  <2>1. \A x \in SlabPlaces' : Within(Extent(SlabAt(x)), area.sbrk)'
    BY <1>1, <1>4 DEF SlabTypes, Extent
  <2> QED
    BY <1>1, <2>1 DEF SlabTypes
<1>8. Types'
  BY <1>1, <1>2, <1>5, <1>6, <1>7 DEF Types
<1>9. ASSUME ~raced' PROVE Good'
  <2>1. Good
    BY <1>9 DEF KmemInv, Good
  <2>2. Apart' /\ ObjectsInv'
    BY <1>4, <2>1, SameMemory DEF Good
  <2>3. \A d \in Cpus : pc'[d] \in {"free", "copy"} =>
          /\ area'.table[call[d].sym] = area.table[call[d].sym]
          /\ area.table[call[d].sym] \notin held'
    BY <1>3, <2>1 DEF Good, GrantsInv, Working, InHand
  <2>4. \A b \in held' : \E i \in Symbols : area'.table[i] = b
    BY <2>1 DEF Good, GrantsInv
  <2>5. \A p \in Pools, a \in Nat : PoolHas(p, a)' <=> PoolHas(p, a)
    BY SamePools
  <2>6. GrantsInv'
    BY <1>1, <1>3, <2>1, <2>3, <2>4, <2>5, GrantsFrame DEF Good
  <2> QED
    BY <2>2, <2>6 DEF Good
<1> QED
  BY <1>8, <1>9 DEF KmemInv, Good

\* Slabs that stay as they are stay where they are.
LEMMA SameStay ==
  ASSUME SlabPlaces' = SlabPlaces, \A x \in SlabPlaces : SlabAt(x)' = SlabAt(x)
  PROVE  SlabsStay
BY DEF SlabsStay, InSlabAt, Extent, ObjectAt

\* kmalloc: a region that was to be had is entered in the table.
LEMMA KmallocStep ==
  ASSUME KmemInv, NEW c \in Cpus, NEW n \in Sizes, Kmalloc(c, n)
  PROVE  KmemInv'
<1> DEFINE s == NextSymbol(area)
           r == Obtain(area, n).region
           b == Obtain(area, n).area
<1>1. /\ Types /\ CallTypes /\ KernelArea(area) /\ SlabTypes /\ HeldTypes
      /\ raced \in BOOLEAN /\ area.sbrk \in Nat /\ area.table \in [Symbols -> Spans]
  BY DEF KmemInv, Types, KernelArea, AreaShape, Areas
<1>2. /\ area' = [b EXCEPT !.table[s] = r] /\ held' = held \cup {r}
      /\ b.sbrk <= MaxAddr /\ n \in Nat \ {0}
      /\ slabs' = slabs /\ pc' = pc /\ call' = call /\ raced' = raced
  BY KmemAssumption DEF Kmalloc, CanObtain
<1>3. s \in Symbols /\ area.table[s] = Unused
  BY NextSymbolProperties DEF Kmalloc
<1>4. /\ KernelArea(b) /\ b.table = area.table /\ area.sbrk <= b.sbrk
      /\ r \in Spans /\ r.to = r.from + n /\ InUse(r, b.sbrk)
      /\ \A x \in Nat : In(r, x) => Available(area, x)
      /\ Disjoint(area.free) =>
           /\ Disjoint(b.free)
           /\ \A x \in Nat : Available(b, x) <=> Available(area, x) /\ ~In(r, x)
  BY <1>1, <1>2, KernelObtain
<1> HIDE DEF s, r, b
<1>5. /\ KernelArea(area') /\ area'.table = [b.table EXCEPT ![s] = r]
      /\ area'.sbrk = b.sbrk /\ area'.free = b.free
      /\ \A x : Available(area', x) <=> Available(b, x)
  BY <1>2, <1>3, <1>4, KernelSet
<1>6. SlabPlaces' = SlabPlaces /\ \A x \in SlabPlaces : SlabAt(x)' = SlabAt(x)
  BY <1>1, <1>2, SameSlabs
<1>7. SlabsStay
  BY <1>6, SameStay
<1>8. KernelArea(area)' /\ area.sbrk <= area'.sbrk
  BY <1>4, <1>5
<1>9. HeldTypes'
  <2>1. held' \subseteq Spans /\ \A d \in held' : d \in held \/ InUse(d, area'.sbrk)
    BY <1>1, <1>2, <1>4, <1>5 DEF HeldTypes
  <2> QED
    BY <1>1, <1>2, <1>8, <2>1, HeldStay
<1>10. SlabTypes'
  <2>1. \A p \in Pools : \A i \in 1 .. Len(slabs[p]) : slabs'[p][i].addr = slabs[p][i].addr
    BY <1>2
  <2>2. /\ slabs' \in [Pools -> Seq(SlabType)]
        /\ \A p \in Pools : Len(slabs'[p]) = Len(slabs[p])
        /\ \A d \in Cpus : /\ pc'[d] = "push" <=> pc[d] = "push"
                           /\ pc[d] = "push" => call'[d] = call[d]
    BY <1>1, <1>2 DEF SlabTypes
  <2>3. area'.sbrk \in Nat
    BY <1>5 DEF KernelArea, AreaShape, Areas
  <2> QED
    BY <1>1, <1>8, <2>1, <2>2, <2>3, KeepPlaces
<1>11. Types'
  <2>1. CallTypes'
    BY <1>1, <1>2 DEF CallTypes
  <2> QED
    BY <1>1, <1>2, <1>8, <1>9, <1>10, <2>1 DEF Types
<1>12. ASSUME ~raced' PROVE Good'
  <2>1. Good
    BY <1>2, <1>12 DEF KmemInv, Good
  <2>2. /\ Disjoint(area'.free)
        /\ \A x \in Nat : Available(area', x) <=> Available(area, x) /\ ~In(r, x)
    BY <1>4, <1>5, <2>1 DEF Good, Apart
  <2>3. \A i \in Symbols, x \in Nat : In(r, x) => ~InEntry(i, x)
    BY <1>4, <2>1 DEF Good, Apart
  <2>4. \A x \in SlabPlaces, a \in Nat : InSlabAt(x, a) => ~In(r, a)
    BY <1>4, <2>1 DEF Good, Apart
  <2>5. \A a \in Nat : ~InEntry(s, a)
    BY <1>3, UnusedProperties DEF InEntry
  <2>6. Apart'
    <3>1. Disjoint(area.free)'
      BY <2>2
    <3> QED
      BY <1>1, <1>3, <1>4, <1>5, <1>7, <2>1, <2>2, <2>3, <2>5, <3>1, ApartEdit DEF Good
  <2>7. ObjectsInv'
    BY <1>1, <1>3, <1>4, <1>5, <1>6, <2>1, <2>4, <2>5, PlainEdit DEF Good
  <2>8. \A i \in Symbols : area.table[i] # r
    <3> SUFFICES ASSUME NEW i \in Symbols, area.table[i] = r PROVE FALSE
      OBVIOUS
    <3>1. In(r, r.from) /\ r.from \in Nat
      BY <1>2, <1>4 DEF In, Spans
    <3> QED
      BY <2>3, <3>1 DEF InEntry
  <2>9. \A d \in Cpus : pc'[d] \in {"free", "copy"} =>
          /\ area'.table[call[d].sym] = area.table[call[d].sym]
          /\ area.table[call[d].sym] \notin held'
    <3> SUFFICES ASSUME NEW d \in Cpus, pc'[d] \in {"free", "copy"}
                 PROVE  /\ area'.table[call[d].sym] = area.table[call[d].sym]
                        /\ area.table[call[d].sym] \notin held'
      OBVIOUS
    <3>1. /\ area.table[call[d].sym] # Unused
          /\ area.table[call[d].sym] \notin held
      BY <1>2, <2>1 DEF Good, GrantsInv, Working, InHand
    <3>2. call[d].sym \in Symbols
      BY <1>1, <1>2 DEF CallTypes, Freeing, Copies
    <3> QED
      BY <1>1, <1>2, <1>3, <1>4, <1>5, <2>8, <3>1, <3>2
  <2>10. \A d \in held' : \E i \in Symbols : area'.table[i] = d
    <3> TAKE d \in held'
    <3>1. CASE d = r
      BY <1>1, <1>3, <1>4, <1>5, <3>1
    <3>2. CASE d \in held
      <4>1. d # Unused
        BY <1>1, <3>2, UnusedProperties DEF HeldTypes, InUse
      <4> QED
        BY <1>1, <1>3, <1>4, <1>5, <2>1, <3>2, <4>1 DEF Good, GrantsInv
    <3> QED
      BY <1>2, <3>1, <3>2
  <2>11. \A p \in Pools, a \in Nat : PoolHas(p, a)' <=> PoolHas(p, a)
    BY <1>2, SamePools
  <2>12. GrantsInv'
    BY <1>1, <1>2, <2>1, <2>9, <2>10, <2>11, GrantsFrame DEF Good
  <2> QED
    BY <2>6, <2>7, <2>12 DEF Good
<1> QED
  BY <1>11, <1>12 DEF KmemInv, Good

\* A list of objects without its first.
LEMMA WithoutFirst ==
  ASSUME NEW S, NEW f \in Seq(S), f # <<>>
  PROVE  /\ Head(f) \in S /\ Tail(f) \in Seq(S)
         /\ \E m \in 1 .. Len(f) : f[m] = Head(f)
         /\ OnceIn(f) =>
              /\ OnceIn(Tail(f))
              /\ \A k : (\E m \in 1 .. Len(Tail(f)) : Tail(f)[m] = k) <=>
                         (\E m \in 1 .. Len(f) : f[m] = k) /\ k # Head(f)
<1> DEFINE g == Tail(f)
<1>1. /\ Head(f) \in S /\ Head(f) = f[1] /\ g \in Seq(S)
      /\ Len(f) \in Nat \ {0} /\ Len(g) = Len(f) - 1
      /\ \A m \in 1 .. Len(f) - 1 : g[m] = f[m + 1]
  BY HeadTailProperties, EmptySeq, LenProperties
<1> HIDE DEF g
<1>2. ASSUME OnceIn(f) PROVE OnceIn(g)
  <2> SUFFICES ASSUME NEW m \in 1 .. Len(g), NEW n \in 1 .. Len(g), g[m] = g[n]
               PROVE  m = n
    BY DEF OnceIn
  <2>1. m + 1 \in 1 .. Len(f) /\ n + 1 \in 1 .. Len(f) /\ f[m + 1] = f[n + 1]
    BY <1>1
  <2>2. m + 1 = n + 1
    BY <1>2, <2>1 DEF OnceIn
  <2> QED
    BY <1>1, <2>2
<1>3. ASSUME OnceIn(f), NEW k
      PROVE  (\E m \in 1 .. Len(g) : g[m] = k) <=>
             (\E m \in 1 .. Len(f) : f[m] = k) /\ k # Head(f)
  <2>1. ASSUME NEW m \in 1 .. Len(g), g[m] = k
        PROVE  (\E n \in 1 .. Len(f) : f[n] = k) /\ k # Head(f)
    <3>1. m + 1 \in 1 .. Len(f) /\ f[m + 1] = k /\ 1 \in 1 .. Len(f) /\ m + 1 # 1
      BY <1>1, <2>1
    <3> QED
      BY <1>1, <1>3, <3>1 DEF OnceIn
  <2>2. ASSUME NEW m \in 1 .. Len(f), f[m] = k, k # Head(f)
        PROVE  \E n \in 1 .. Len(g) : g[n] = k
    <3>1. m # 1
      BY <1>1, <2>2
    <3>2. m - 1 \in 1 .. Len(g) /\ g[m - 1] = f[m]
      BY <1>1, <3>1
    <3> QED
      BY <2>2, <3>2
  <2> QED
    BY <2>1, <2>2
<1>4. 1 \in 1 .. Len(f)
  BY <1>1
<1> QED
  BY <1>1, <1>2, <1>3, <1>4 DEF g

\* A list of objects with one more at its head.
Prepended(h, f) == <<h>> \o f

LEMMA WithFirst ==
  ASSUME NEW S, NEW f \in Seq(S), NEW h \in S
  PROVE  LET g == Prepended(h, f)
         IN  /\ g \in Seq(S) /\ Len(g) = Len(f) + 1 /\ Len(f) \in Nat
             /\ g[1] = h
             /\ \A m \in 1 .. Len(f) : g[m + 1] = f[m]
             /\ \A k : (\E m \in 1 .. Len(g) : g[m] = k) <=>
                        (\E m \in 1 .. Len(f) : f[m] = k) \/ k = h
             /\ OnceIn(f) /\ (\A m \in 1 .. Len(f) : f[m] # h) => OnceIn(g)
<1> DEFINE g == Prepended(h, f)
<1>1. <<h>> \in Seq(S) /\ Len(<<h>>) = 1 /\ <<h>>[1] = h /\ Len(f) \in Nat
  BY LenProperties
<1>2. /\ g \in Seq(S) /\ Len(g) = 1 + Len(f)
      /\ \A m \in 1 .. 1 + Len(f) : g[m] = IF m <= 1 THEN <<h>>[m] ELSE f[m - 1]
  BY <1>1, ConcatProperties DEF Prepended
<1> HIDE DEF g
<1>3. g[1] = h /\ 1 \in 1 .. Len(g)
  BY <1>1, <1>2
<1>4. \A m \in 1 .. Len(f) : m + 1 \in 1 .. Len(g) /\ g[m + 1] = f[m]
  BY <1>1, <1>2
<1>5. \A m \in 1 .. Len(g) : m = 1 \/ (m - 1 \in 1 .. Len(f) /\ g[m] = f[m - 1])
  BY <1>1, <1>2
<1>6. \A k : (\E m \in 1 .. Len(g) : g[m] = k) <=>
               (\E m \in 1 .. Len(f) : f[m] = k) \/ k = h
  BY <1>3, <1>4, <1>5
<1>7. ASSUME OnceIn(f), \A m \in 1 .. Len(f) : f[m] # h PROVE OnceIn(g)
  <2> SUFFICES ASSUME NEW m \in 1 .. Len(g), NEW n \in 1 .. Len(g), g[m] = g[n]
               PROVE  m = n
    BY DEF OnceIn
  <2>1. CASE m = 1 \/ n = 1
    BY <1>3, <1>5, <1>7, <2>1
  <2>2. CASE m # 1 /\ n # 1
    <3>1. /\ m - 1 \in 1 .. Len(f) /\ n - 1 \in 1 .. Len(f)
          /\ f[m - 1] = f[n - 1]
      BY <1>5, <2>2
    <3>2. m - 1 = n - 1
      BY <1>7, <3>1 DEF OnceIn
    <3> QED
      BY <1>1, <1>2, <3>2
  <2> QED
    BY <2>1, <2>2
<1>8. Len(g) = Len(f) + 1
  BY <1>1, <1>2
<1>9. /\ g \in Seq(S) /\ Len(g) = Len(f) + 1 /\ Len(f) \in Nat /\ g[1] = h
      /\ \A m \in 1 .. Len(f) : g[m + 1] = f[m]
  BY <1>1, <1>2, <1>3, <1>4, <1>8
<1> QED
  BY <1>6, <1>7, <1>9 DEF g

\* An object goes from the first slab that has one to the table.
LEMMA TakeStep ==
  ASSUME KmemInv, NEW c \in Cpus, pc[c] \notin {"push", "free", "copy"},
         NEW p \in Pools, NEW sym \in Symbols, Stocked(p) # {}, TakeObject(c, p, sym)
  PROVE  KmemInv'
<1>1. /\ Types /\ CallTypes /\ KernelArea(area) /\ SlabTypes /\ HeldTypes
      /\ raced \in BOOLEAN /\ area.sbrk \in Nat /\ area.table \in [Symbols -> Spans]
  BY DEF KmemInv, Types, KernelArea, AreaShape, Areas
<1>2. PICK i \in 1 .. Len(slabs[p]) : i = FirstStocked(p) /\ slabs[p][i].avail # <<>>
  <2>1. DOMAIN slabs[p] = 1 .. Len(slabs[p]) /\ Len(slabs[p]) \in Nat
    BY <1>1, LenProperties DEF SlabTypes
  <2>2. Stocked(p) \subseteq Nat
    BY <2>1 DEF Stocked
  <2>3. FirstStocked(p) \in Stocked(p)
    BY <2>2, LeastIndex DEF FirstStocked
  <2> QED
    BY <2>1, <2>3 DEF Stocked
<1> DEFINE x0 == <<p, i>>
<1>3. PICK f \in Seq(Objects) : /\ slabs[p][i] \in SlabType
                               /\ f = slabs[p][i].avail /\ f # <<>> /\ i # 0
  <2>1. slabs[p][i] \in SlabType
    BY <1>1, <1>2, ElementOfSeq DEF SlabTypes
  <2> QED
    BY <1>2, <2>1 DEF SlabType
<1>5. PICK k0 \in Objects : k0 = Head(f)
  BY <1>3, WithoutFirst
<1>6. /\ Tail(f) \in Seq(Objects)
      /\ \E m \in 1 .. Len(f) : f[m] = k0
      /\ OnceIn(f) =>
           /\ OnceIn(Tail(f))
           /\ \A k : (\E m \in 1 .. Len(Tail(f)) : Tail(f)[m] = k) <=>
                      (\E m \in 1 .. Len(f) : f[m] = k) /\ k # k0
  <2>1. /\ Head(f) \in Objects /\ Tail(f) \in Seq(Objects)
        /\ \E m \in 1 .. Len(f) : f[m] = Head(f)
        /\ OnceIn(f) =>
             /\ OnceIn(Tail(f))
             /\ \A k : (\E m \in 1 .. Len(Tail(f)) : Tail(f)[m] = k) <=>
                        (\E m \in 1 .. Len(f) : f[m] = k) /\ k # Head(f)
    <3>1. f # <<>>
      BY <1>3
    <3> QED
      BY <3>1, WithoutFirst
  <2> QED
    BY <1>5, <2>1
<1>7. x0 \in SlabPlaces /\ SlabAt(x0) = slabs[p][i] /\ x0[2] # 0
  BY <1>1, <1>3, PlacesAre DEF PlacesInv
<1>8. PICK o \in Spans :
         /\ o = ObjectAt(SlabAt(x0), k0) /\ o # Unused
         /\ In(o, o.from) /\ InSlabAt(x0, o.from) /\ o.from \in Nat
         /\ \A a \in Nat : In(o, a) => InSlabAt(x0, a)
  <2> DEFINE o == ObjectAt(SlabAt(x0), k0)
  <2>1. /\ o \in Spans /\ o # Unused /\ In(o, o.from) /\ InSlabAt(x0, o.from)
        /\ \A a \in Nat : In(o, a) => InSlabAt(x0, a)
    BY <1>1, <1>7, SlabIsTyped
  <2>2. o.from \in Nat
    BY <2>1 DEF Spans
  <2> QED
    BY <2>1, <2>2
<1>4. /\ slabs' = [slabs EXCEPT ![p][i].avail = Tail(f)]
      /\ area' = [area EXCEPT !.table[sym] = o] /\ held' = held \cup {o}
      /\ raced' = (raced \/ area.table[sym] # Unused)
      /\ Goto(c, "idle", NoCall)
  BY <1>2, <1>3, <1>5, <1>7, <1>8 DEF TakeObject, Return
<1>18. SetAvail(p, i, Tail(f))
  BY <1>4 DEF SetAvail
<1>9. InUse(o, area.sbrk)
  <2>1. Within(Extent(SlabAt(x0)), area.sbrk)
    BY <1>1, <1>7 DEF SlabTypes
  <2>2. SlabAt(x0).addr \in Nat
    BY <1>3, <1>7 DEF SlabType
  <2>3. /\ o.from < o.to /\ SlabAt(x0).addr <= o.from
        /\ o.to <= SlabAt(x0).addr + PoolSize
        /\ Extent(SlabAt(x0)).from = SlabAt(x0).addr
        /\ Extent(SlabAt(x0)).to = SlabAt(x0).addr + PoolSize
    BY <1>8, <2>2, ObjectProperties
  <2>4. o.from \in Nat /\ o.to \in Nat /\ PoolSize \in Nat /\ Base \in Nat
    BY <1>8, KmemAssumption DEF Spans
  <2> HIDE DEF x0
  <2> QED
    BY <1>1, <2>1, <2>2, <2>3, <2>4 DEF InUse, Within
<1> HIDE DEF x0
<1>10. /\ KernelArea(area') /\ area'.table = [area.table EXCEPT ![sym] = o]
       /\ area'.sbrk = area.sbrk /\ area'.free = area.free
       /\ \A a : Available(area', a) <=> Available(area, a)
  <2>1. area' = [area EXCEPT !.table[sym] = o]
    BY <1>4
  <2>2. KernelArea(area) /\ o \in Spans /\ InUse(o, area.sbrk)
    BY <1>1, <1>8, <1>9
  <2> DEFINE b == [area EXCEPT !.table[sym] = o]
  <2>3. /\ KernelArea(b) /\ b.table = [area.table EXCEPT ![sym] = o]
        /\ b.sbrk = area.sbrk /\ b.free = area.free
        /\ \A a : Available(b, a) <=> Available(area, a)
    BY <2>2, KernelSet
  <2> HIDE DEF b
  <2>4. area' = b
    BY <2>1 DEF b
  <2> QED
    BY <2>3, <2>4
<1>11. KernelArea(area)' /\ area.sbrk <= area'.sbrk
  BY <1>1, <1>10
<1>12. /\ CallTypes' /\ pc'[c] = "idle"
       /\ \A d \in Cpus : d # c => pc'[d] = pc[d] /\ call'[d] = call[d]
  BY <1>1, <1>4, GotoCalls
<1>13. \A d \in Cpus : /\ pc'[d] \in {"push", "free", "copy"} =>
                            pc'[d] = pc[d] /\ call'[d] = call[d]
                       /\ pc'[d] = "push" <=> pc[d] = "push"
  BY <1>12
<1>14. /\ SlabTypes' /\ SlabsStay /\ SlabAt(x0)'.avail = Tail(f)
       /\ \A x \in SlabPlaces : x # x0 => SlabAt(x)' = SlabAt(x)
  <2>1. \A d \in Cpus : /\ pc'[d] = "push" <=> pc[d] = "push"
                        /\ pc[d] = "push" => call'[d] = call[d]
    BY <1>13
  <2>2. Tail(f) \in Seq(Objects) /\ i \in 1 .. Len(slabs[p]) /\ Types
    BY <1>1, <1>6
  <2>3. PICK s \in Seq(Objects) : s = Tail(f)
    BY <2>2
  <2>4. SetAvail(p, i, s) /\ KernelArea(area)' /\ area.sbrk <= area'.sbrk
    BY <1>11, <1>18, <2>3
  <2>5. i \in 1 .. Len(slabs[p]) /\ Types
    BY <2>2
  <2>6. /\ SlabTypes' /\ SlabsStay
        /\ <<p, i>> \in SlabPlaces /\ SlabAt(<<p, i>>) = slabs[p][i]
        /\ SlabAt(<<p, i>>)'.avail = s
        /\ \A x \in SlabPlaces : x # <<p, i>> => SlabAt(x)' = SlabAt(x)
    BY <2>1, <2>4, <2>5, EditPlaces
  <2> QED
    BY <2>3, <2>6 DEF x0
<1>15. HeldTypes'
  <2>1. held' \subseteq Spans /\ \A b \in held' : b \in held \/ InUse(b, area'.sbrk)
    BY <1>1, <1>4, <1>8, <1>9, <1>10 DEF HeldTypes
  <2> QED
    BY <1>1, <1>11, <1>13, <2>1, HeldStay
<1>16. Types'
  BY <1>1, <1>4, <1>11, <1>12, <1>14, <1>15 DEF Types
<1>17. ASSUME ~raced' PROVE Good'
  <2>1. Good /\ area.table[sym] = Unused
    BY <1>4, <1>17 DEF KmemInv, Good
  <2>2. OnceIn(f) /\ Kept(x0, k0)
    BY <1>3, <1>6, <1>7, <2>1 DEF Good, ObjectsInv, Kept
  <2>3. ~Entered(x0, k0)
    BY <1>6, <1>7, <2>1, <2>2 DEF Good, ObjectsInv
  <2>4. o = ObjectAt(SlabAt(x0), k0)
    BY <1>8
  <2>5. \A j \in Symbols, a \in Nat : In(o, a) => ~InEntry(j, a)
    <3> SUFFICES ASSUME NEW j \in Symbols, NEW a \in Nat, In(o, a), InEntry(j, a)
                 PROVE  FALSE
      OBVIOUS
    <3>1. PICK k \in Objects : area.table[j] = ObjectAt(SlabAt(x0), k)
      BY <1>7, <1>8, <2>1 DEF Good, ObjectsInv
    <3>2. SlabAt(x0).addr \in Nat
      BY <1>3, <1>7 DEF SlabType
    <3>3. k = k0
      BY <1>6, <2>4, <3>1, <3>2, ObjectProperties DEF InEntry
    <3> QED
      BY <2>3, <3>1, <3>3 DEF Entered
  <2>6. \A a \in Nat : ~InEntry(sym, a)
    BY <2>1, UnusedProperties DEF InEntry
  <2>7. Apart'
    <3>1. Disjoint(area.free)'
      BY <1>10, <2>1 DEF Good, Apart
    <3>2. \A a \in Nat : Available(area', a) =>
            /\ ~In(o, a)
            /\ \/ Available(area, a)
               \/ InEntry(sym, a) /\ \A x \in SlabPlaces : ~InSlabAt(x, a)
      BY <1>7, <1>8, <1>10, <2>1 DEF Good, Apart
    <3>3. \A a \in Nat : Base <= a /\ (Available(area, a) \/ InEntry(sym, a)) =>
            Available(area', a) \/ In(o, a) \/ \E x \in SlabPlaces : InSlabAt(x, a)
      BY <1>10, <2>6
    <3>4. \A j \in Symbols, a \in Nat : j # sym /\ In(o, a) => ~InEntry(j, a)
      BY <2>5
    <3> QED
      BY <1>1, <1>8, <1>10, <1>14, <2>1, <3>1, <3>2, <3>3, <3>4, ApartEdit DEF Good
  <2>8. ObjectsInv'
    <3>1. /\ OnceIn(SlabAt(x0).avail)' /\ ~Kept(x0, k0)'
          /\ \A k \in Objects : k # k0 => (Kept(x0, k)' <=> Kept(x0, k))
      <4>1. OnceIn(SlabAt(x0)'.avail) /\ SlabAt(x0).avail = f
        BY <1>3, <1>6, <1>7, <1>14, <2>2
      <4>2. /\ \A k : Kept(x0, k)' <=> \E m \in 1 .. Len(Tail(f)) : Tail(f)[m] = k
            /\ \A k : Kept(x0, k) <=> \E m \in 1 .. Len(f) : f[m] = k
        BY <1>14, <4>1 DEF Kept
      <4>3. \A k : Kept(x0, k)' <=> Kept(x0, k) /\ k # k0
        BY <1>6, <2>2, <4>2
      <4>4. OnceIn(SlabAt(x0).avail)'
        BY <4>1 DEF OnceIn
      <4> QED
        BY <4>3, <4>4
    <3> QED
      BY <1>1, <1>6, <1>7, <1>10, <1>14, <2>1, <2>4, <3>1, ObjectTaken DEF Good
  <2>9. \A d \in Cpus : pc'[d] \in {"free", "copy"} =>
          /\ area'.table[call[d].sym] = area.table[call[d].sym]
          /\ area.table[call[d].sym] \notin held'
    <3> SUFFICES ASSUME NEW d \in Cpus, pc'[d] \in {"free", "copy"}
                 PROVE  /\ area'.table[call[d].sym] = area.table[call[d].sym]
                        /\ area.table[call[d].sym] \notin held'
      OBVIOUS
    <3>1. /\ area.table[call[d].sym] # Unused
          /\ area.table[call[d].sym] \notin held
      BY <1>13, <2>1 DEF Good, GrantsInv, Working, InHand
    <3>2. call[d].sym \in Symbols
      BY <1>1, <1>13 DEF CallTypes, Freeing, Copies
    <3>3. area.table[call[d].sym] # o
      BY <1>8, <2>5, <3>2 DEF InEntry
    <3> QED
      BY <1>1, <1>4, <1>10, <2>1, <3>1, <3>2, <3>3
  <2>10. \A b \in held' : \E j \in Symbols : area'.table[j] = b
    <3> TAKE b \in held'
    <3>1. CASE b = o
      BY <1>1, <1>10, <3>1
    <3>2. CASE b \in held
      <4>1. b # Unused
        BY <1>1, <3>2, UnusedProperties DEF HeldTypes, InUse
      <4> QED
        BY <1>1, <1>10, <2>1, <3>2, <4>1 DEF Good, GrantsInv
    <3> QED
      BY <1>4, <3>1, <3>2
  <2>11. \A q \in Pools, a \in Nat : PoolHas(q, a)' <=> PoolHas(q, a)
    <3>1. \A q \in Pools : Len(slabs'[q]) = Len(slabs[q])
      BY <1>1, <1>6, <1>18, SlabEdit
    <3> QED
      BY <1>1, <1>14, <3>1, StayPools
  <2>12. GrantsInv'
    BY <1>1, <1>13, <2>1, <2>9, <2>10, <2>11, GrantsFrame DEF Good
  <2> QED
    BY <2>7, <2>8, <2>12 DEF Good
<1> QED
  BY <1>16, <1>17 DEF KmemInv, Good

\* The area and the slabs stay; calls go on and blocks change hands.
LEMMA StillTypes ==
  ASSUME Types, CallTypes', UNCHANGED <<area, slabs>>, raced' \in BOOLEAN,
         \A d \in Cpus : /\ pc'[d] = "push" <=> pc[d] = "push"
                         /\ pc[d] = "push" => call'[d] = call[d],
         held' \subseteq Spans,
         \A b \in held' : b \in held \/ InUse(b, area.sbrk),
         \A d \in Cpus : pc'[d] = "copy" =>
           \/ pc[d] = "copy" /\ call'[d] = call[d]
           \/ InUse(call'[d].block, area.sbrk)
  PROVE  /\ Types' /\ SlabPlaces' = SlabPlaces
         /\ \A x \in SlabPlaces : SlabAt(x)' = SlabAt(x)
<1>1. KernelArea(area) /\ SlabTypes /\ area.sbrk \in Nat
  BY DEF Types, KernelArea, AreaShape, Areas
<1>2. KernelArea(area)' /\ area.sbrk <= area'.sbrk
  BY <1>1
<1>3. SlabPlaces' = SlabPlaces /\ \A x \in SlabPlaces : SlabAt(x)' = SlabAt(x)
  BY <1>1, SameSlabs
<1>4. SlabTypes'
  <2>1. \A x \in SlabPlaces' : Within(Extent(SlabAt(x)), area.sbrk)'
    BY <1>1, <1>3 DEF SlabTypes, Extent
  <2> QED
    BY <1>1, <2>1 DEF SlabTypes
<1>5. HeldTypes'
  <2>1. \A b \in held' : b \in held \/ InUse(b, area'.sbrk)
    OBVIOUS
  <2>2. \A d \in Cpus : pc'[d] = "copy" =>
          \/ pc[d] = "copy" /\ call'[d] = call[d]
          \/ InUse(call'[d].block, area'.sbrk)
    OBVIOUS
  <2> QED
    BY <1>2, <2>1, <2>2, HeldStay
<1> QED
  BY <1>2, <1>3, <1>4, <1>5 DEF Types

\* A block is the one entry that its first address is found in.
LEMMA FoundEntry ==
  ASSUME KernelArea(area), HeldTypes, Apart, GrantsInv, NEW b \in held
  PROVE  /\ SymbolsAt(area, b.from) # {}
         /\ SymbolAt(area, b.from) \in Symbols
         /\ area.table[SymbolAt(area, b.from)] = b
<1>1. PICK i \in Symbols : area.table[i] = b
  BY DEF GrantsInv
<1>2. b # Unused /\ b.from \in Nat
  BY UnusedProperties DEF HeldTypes, InUse, Spans
<1>3. InEntry(i, b.from) /\ area.table \in [Symbols -> Spans]
  BY <1>1, <1>2, EntryInUse DEF KernelArea, AreaShape, Areas
<1>4. \A j \in Symbols : b.from \in Addresses(area.table[j]) <=> InEntry(j, b.from)
  BY <1>2, <1>3, AddressesOf DEF InEntry
<1>5. SymbolsAt(area, b.from) # {}
  BY <1>3, <1>4 DEF SymbolsAt
<1>6. /\ SymbolAt(area, b.from) \in SymbolsAt(area, b.from)
      /\ SymbolAt(area, b.from) \in Symbols
  BY <1>5, SymbolAtProperties
<1>7. InEntry(SymbolAt(area, b.from), b.from)
  BY <1>4, <1>6 DEF SymbolsAt
<1>8. SymbolAt(area, b.from) = i
  BY <1>2, <1>3, <1>6, <1>7 DEF Apart
<1> QED
  BY <1>1, <1>5, <1>6, <1>8

\* The pools that an address is looked up in.
LEMMA PoolsFound ==
  ASSUME SlabTypes, NEW a \in Nat
  PROVE  \A p \in Pools : p \in PoolsAt(a) <=> PoolHas(p, a)
<1> TAKE p \in Pools
<1>1. DOMAIN slabs[p] = 1 .. Len(slabs[p])
  BY LenProperties DEF SlabTypes
<1>2. ASSUME NEW i \in 1 .. Len(slabs[p])
      PROVE  a \in Addresses(Extent(slabs[p][i])) <=> InSlabAt(<<p, i>>, a)
  <2>1. SlabAt(<<p, i>>) = slabs[p][i] /\ slabs[p][i] \in SlabType
    BY PlacesAre, ElementOfSeq DEF PlacesInv, SlabTypes
  <2>2. Extent(slabs[p][i]) \in Spans
    BY <2>1, ObjectProperties DEF SlabType
  <2> QED
    BY <2>1, <2>2, AddressesOf DEF InSlabAt
<1> QED
  BY <1>1, <1>2 DEF PoolsAt, PoolHas

\* libfree and the copies find the entry of a block.
LEMMA LookupStep ==
  ASSUME KmemInv, NEW c \in Cpus, pc[c] = "idle", NEW b \in held,
         SymbolsAt(area, b.from) # {}, held' = held \ {b},
         NEW label, NEW locals, Goto(c, label, locals),
         locals.sym = SymbolAt(area, b.from),
         \/ label = "free" /\ locals \in Freeing /\ locals.pools = PoolsAt(b.from)
         \/ label = "copy" /\ locals \in Copies /\ locals.block = b,
         UNCHANGED <<area, slabs, raced>>
  PROVE  KmemInv'
<1>1. /\ Types /\ CallTypes /\ KernelArea(area) /\ SlabTypes /\ HeldTypes
      /\ raced \in BOOLEAN
  BY DEF KmemInv, Types
<1>2. /\ CallTypes' /\ pc'[c] = label /\ call'[c] = locals
      /\ \A d \in Cpus : d # c => pc'[d] = pc[d] /\ call'[d] = call[d]
  BY <1>1, GotoCalls
<1>3. b \in Spans /\ InUse(b, area.sbrk) /\ b.from \in Nat
  BY <1>1 DEF HeldTypes, Spans
<1>4. /\ Types' /\ SlabPlaces' = SlabPlaces
      /\ \A x \in SlabPlaces : SlabAt(x)' = SlabAt(x)
  <2>1. \A d \in Cpus : /\ pc'[d] = "push" <=> pc[d] = "push"
                        /\ pc[d] = "push" => call'[d] = call[d]
    BY <1>2
  <2>2. \A d \in Cpus : pc'[d] = "copy" =>
          \/ pc[d] = "copy" /\ call'[d] = call[d]
          \/ InUse(call'[d].block, area.sbrk)
    BY <1>2, <1>3
  <2>3. held' \subseteq Spans /\ \A d \in held' : d \in held \/ InUse(d, area.sbrk)
    BY <1>1 DEF HeldTypes
  <2>4. raced' \in BOOLEAN /\ UNCHANGED <<area, slabs>>
    BY <1>1
  <2> QED
    BY <1>1, <1>2, <2>1, <2>2, <2>3, <2>4, StillTypes
<1>5. ASSUME ~raced' PROVE Good'
  <2>1. Good
    BY <1>5 DEF KmemInv, Good
  <2>2. Apart' /\ ObjectsInv'
    BY <1>4, <2>1, SameMemory DEF Good
  <2>3. locals.sym \in Symbols /\ area.table[locals.sym] = b
    BY <1>1, <2>1, FoundEntry DEF Good
  <2>4. b # Unused
    BY <1>3, UnusedProperties DEF InUse
  <2>5. \A d \in Cpus : d # c /\ pc'[d] \in {"free", "copy"} =>
          /\ d \in Working /\ call'[d] = call[d] /\ InHand(d)' = InHand(d)
          /\ InHand(d) # Unused /\ InHand(d) \notin held /\ call[d].sym # locals.sym
    <3> SUFFICES ASSUME NEW d \in Cpus, d # c, pc'[d] \in {"free", "copy"}
                 PROVE  /\ d \in Working /\ call'[d] = call[d] /\ InHand(d)' = InHand(d)
                        /\ InHand(d) # Unused /\ InHand(d) \notin held
                        /\ call[d].sym # locals.sym
      OBVIOUS
    <3>1. d \in Working /\ call'[d] = call[d] /\ InHand(d)' = InHand(d)
      BY <1>2 DEF Working, InHand
    <3>2. InHand(d) # Unused /\ InHand(d) \notin held
      BY <2>1, <3>1 DEF Good, GrantsInv
    <3>3. call[d].sym # locals.sym
      BY <2>3, <3>2 DEF InHand
    <3> QED
      BY <3>1, <3>2, <3>3
  <2>6. InHand(c)' = b
    BY <1>2, <2>3 DEF InHand
  <2>7. \A e \in held' : \E i \in Symbols : area'.table[i] = e
    BY <2>1 DEF Good, GrantsInv
  <2>8. \A d \in Working' : InHand(d)' # Unused /\ InHand(d)' \notin held'
    BY <2>4, <2>5, <2>6 DEF Working
  <2>9. \A d, e \in Working' : call'[d].sym = call'[e].sym => d = e
    <3> SUFFICES ASSUME NEW d \in Cpus, NEW e \in Cpus, pc'[d] \in {"free", "copy"},
                        pc'[e] \in {"free", "copy"}, call'[d].sym = call'[e].sym
                 PROVE  d = e
      BY DEF Working
    <3>1. CASE d # c /\ e # c
      BY <2>1, <2>5, <3>1 DEF Good, GrantsInv
    <3>2. CASE d = c \/ e = c
      BY <1>2, <2>5, <3>2
    <3> QED
      BY <3>1, <3>2
  <2>10. ASSUME NEW d \in Cpus, pc'[d] = "copy" PROVE call'[d].block = InHand(d)'
    <3>1. CASE d = c
      BY <1>2, <2>6, <2>10, <3>1
    <3>2. CASE d # c
      BY <1>2, <2>1, <2>5, <2>10, <3>2 DEF Good, GrantsInv
    <3> QED
      BY <3>1, <3>2
  <2>11. ASSUME NEW d \in Cpus, pc'[d] = "free", NEW p \in Pools
         PROVE  p \in call'[d].pools <=> PoolHas(p, InHand(d).from)'
    <3>1. PICK a : a = InHand(d)'.from
      OBVIOUS
    <3>2. PoolHas(p, InHand(d).from)' <=> PoolHas(p, a)'
      BY <3>1 DEF PoolHas
    <3>3. a \in Nat
      <4>1. CASE d = c
        BY <1>3, <2>6, <3>1, <4>1
      <4>2. CASE d # c
        <5>1. call[d].sym \in Symbols
          BY <1>1, <2>5, <2>11, <4>2 DEF CallTypes, Freeing, Working, Copies
        <5> QED
          BY <1>1, <2>5, <2>11, <3>1, <4>2, <5>1, EntryInUse DEF InHand
      <4> QED
        BY <4>1, <4>2
    <3>4. PoolHas(p, a)' <=> PoolHas(p, a)
      BY <3>3, SamePools
    <3>5. CASE d = c
      <4>1. a = b.from /\ call'[c].pools = PoolsAt(b.from)
        BY <1>2, <2>6, <2>11, <3>1, <3>5
      <4> QED
        BY <1>1, <3>2, <3>3, <3>4, <3>5, <4>1, PoolsFound
    <3>6. CASE d # c
      <4>1. /\ pc[d] = "free" /\ call'[d] = call[d] /\ a = InHand(d).from
        BY <1>2, <2>5, <2>11, <3>1, <3>6
      <4>2. p \in call[d].pools <=> PoolHas(p, a)
        BY <2>1, <4>1 DEF Good, GrantsInv
      <4> QED
        BY <3>2, <3>4, <4>1, <4>2
    <3> QED
      BY <3>5, <3>6
  <2>12. GrantsInv'
    BY <2>7, <2>8, <2>9, <2>10, <2>11 DEF GrantsInv
  <2> QED
    BY <2>2, <2>12 DEF Good
<1> QED
  BY <1>4, <1>5 DEF KmemInv, Good

\* libfree without the lock.
LEMMA FreeLookupStep ==
  ASSUME KmemInv, NEW c \in Cpus, NEW b \in held, FreeLookup(c, b)
  PROVE  KmemInv'
<1>1. /\ Types /\ CallTypes /\ KernelArea(area) /\ SlabTypes /\ HeldTypes
      /\ raced \in BOOLEAN
  BY DEF KmemInv, Types
<1>2. CASE SymbolsAt(area, b.from) # {}
  <2> DEFINE locals == [op |-> "free", pools |-> PoolsAt(b.from),
                        sym |-> SymbolAt(area, b.from)]
  <2>1. SymbolAt(area, b.from) \in Symbols
    BY <1>2, SymbolAtProperties
  <2>2. PoolsAt(b.from) \in SUBSET Pools
    BY DEF PoolsAt
  <2>3. /\ locals \in Freeing /\ locals.sym = SymbolAt(area, b.from)
        /\ locals.pools = PoolsAt(b.from)
    BY <2>1, <2>2 DEF Freeing
  <2>4. /\ pc[c] = "idle" /\ held' = held \ {b} /\ Goto(c, "free", locals)
        /\ UNCHANGED <<area, slabs, raced>>
    BY <1>2 DEF FreeLookup
  <2> HIDE DEF locals
  <2> QED
    BY <1>2, <2>3, <2>4, LookupStep
<1>3. CASE SymbolsAt(area, b.from) = {}
  <2>1. /\ held' = held \ {b} /\ pc' = pc /\ call' = call
        /\ UNCHANGED <<area, slabs, raced>>
    BY <1>3 DEF FreeLookup
  <2>2. CallTypes'
    BY <1>1, <2>1 DEF CallTypes
  <2>3. /\ Types' /\ SlabPlaces' = SlabPlaces
        /\ \A x \in SlabPlaces : SlabAt(x)' = SlabAt(x)
    <3>1. /\ held' \subseteq Spans
          /\ \A d \in held' : d \in held \/ InUse(d, area.sbrk)
      BY <1>1, <2>1 DEF HeldTypes
    <3>2. \A d \in Cpus : /\ pc'[d] = "push" <=> pc[d] = "push"
                          /\ pc[d] = "push" => call'[d] = call[d]
      BY <2>1
    <3>3. \A d \in Cpus : pc'[d] = "copy" =>
            \/ pc[d] = "copy" /\ call'[d] = call[d]
            \/ InUse(call'[d].block, area.sbrk)
      BY <2>1
    <3>4. raced' \in BOOLEAN /\ UNCHANGED <<area, slabs>>
      BY <1>1, <2>1
    <3> QED
      BY <1>1, <2>2, <3>1, <3>2, <3>3, <3>4, StillTypes
  <2>4. ASSUME ~raced' PROVE FALSE
    BY <1>1, <1>3, <2>1, <2>4, FoundEntry DEF KmemInv
  <2> QED
    BY <2>3, <2>4 DEF KmemInv
<1> QED
  BY <1>2, <1>3

\* A copy begins.
LEMMA CopyLookupStep ==
  ASSUME KmemInv, NEW c \in Cpus, NEW b \in held, CopyLookup(c, b)
  PROVE  KmemInv'
<1> DEFINE locals == [op |-> "copy", block |-> b, sym |-> SymbolAt(area, b.from)]
<1>1. b \in Spans
  BY DEF KmemInv, Types, HeldTypes
<1>2. SymbolAt(area, b.from) \in Symbols
  BY SymbolAtProperties DEF CopyLookup
<1>3. /\ locals \in Copies /\ locals.sym = SymbolAt(area, b.from)
      /\ locals.block = b
  BY <1>1, <1>2 DEF Copies
<1>4. /\ pc[c] = "idle" /\ held' = held \ {b} /\ Goto(c, "copy", locals)
      /\ SymbolsAt(area, b.from) # {} /\ UNCHANGED <<area, slabs, raced>>
  BY DEF CopyLookup
<1> HIDE DEF locals
<1> QED
  BY <1>3, <1>4, LookupStep

\* A copy ends: its block is the program's again.
LEMMA CopyEndStep ==
  ASSUME KmemInv, NEW c \in Cpus, CopyEnd(c)
  PROVE  KmemInv'
<1>1. /\ Types /\ CallTypes /\ KernelArea(area) /\ SlabTypes /\ HeldTypes
      /\ raced \in BOOLEAN
  BY DEF KmemInv, Types
<1>2. PICK b : b = call[c].block
  OBVIOUS
<1>3. /\ pc[c] = "copy" /\ held' = held \cup {b} /\ Goto(c, "idle", NoCall)
      /\ UNCHANGED <<area, slabs, raced>>
  BY <1>2 DEF CopyEnd, Return
<1>4. b \in Spans /\ InUse(b, area.sbrk)
  BY <1>1, <1>2, <1>3 DEF CallTypes, Copies, HeldTypes
<1>5. /\ CallTypes' /\ pc'[c] = "idle"
      /\ \A d \in Cpus : d # c => pc'[d] = pc[d] /\ call'[d] = call[d]
  BY <1>1, <1>3, GotoCalls
<1>6. \A d \in Cpus : /\ pc'[d] \in {"push", "free", "copy"} =>
                           d # c /\ pc'[d] = pc[d] /\ call'[d] = call[d]
                      /\ pc'[d] = "push" <=> pc[d] = "push"
                      /\ pc[d] = "push" => call'[d] = call[d]
  BY <1>3, <1>5
<1>7. /\ Types' /\ SlabPlaces' = SlabPlaces
      /\ \A x \in SlabPlaces : SlabAt(x)' = SlabAt(x)
  <2>1. held' \subseteq Spans /\ \A d \in held' : d \in held \/ InUse(d, area.sbrk)
    BY <1>1, <1>3, <1>4 DEF HeldTypes
  <2>2. raced' \in BOOLEAN /\ UNCHANGED <<area, slabs>>
    BY <1>1, <1>3
  <2> QED
    BY <1>1, <1>5, <1>6, <2>1, <2>2, StillTypes
<1>8. ASSUME ~raced' PROVE Good'
  <2>1. Good
    BY <1>3, <1>8 DEF KmemInv, Good
  <2>2. Apart' /\ ObjectsInv'
    BY <1>3, <1>7, <2>1, SameMemory DEF Good
  <2>3. /\ c \in Working /\ b = InHand(c) /\ call[c].sym \in Symbols
        /\ b # Unused /\ b = area.table[call[c].sym]
    BY <1>1, <1>2, <1>3, <2>1
    DEF Good, GrantsInv, Working, InHand, CallTypes, Copies
  <2>4. b.from \in Nat /\ InEntry(call[c].sym, b.from)
    BY <1>1, <2>3, EntryInUse
  <2>5. \A d \in Cpus : pc'[d] \in {"free", "copy"} =>
          /\ area'.table[call[d].sym] = area.table[call[d].sym]
          /\ area.table[call[d].sym] \notin held'
    <3> SUFFICES ASSUME NEW d \in Cpus, pc'[d] \in {"free", "copy"}
                 PROVE  /\ area'.table[call[d].sym] = area.table[call[d].sym]
                        /\ area.table[call[d].sym] \notin held'
      OBVIOUS
    <3>1. /\ d # c /\ d \in Working /\ area.table[call[d].sym] \notin held
          /\ call[d].sym # call[c].sym /\ call[d].sym \in Symbols
      BY <1>1, <1>6, <2>1, <2>3
      DEF Good, GrantsInv, Working, InHand, CallTypes, Copies, Freeing
    <3>2. area.table[call[d].sym] # b
      BY <2>1, <2>3, <2>4, <3>1 DEF Good, Apart, InEntry
    <3> QED
      BY <1>3, <3>1, <3>2
  <2>6. \A e \in held' : \E i \in Symbols : area'.table[i] = e
    BY <1>3, <2>1, <2>3 DEF Good, GrantsInv
  <2>7. \A p \in Pools, a \in Nat : PoolHas(p, a)' <=> PoolHas(p, a)
    BY <1>3, SamePools
  <2>8. GrantsInv'
    BY <1>1, <1>6, <2>1, <2>5, <2>6, <2>7, GrantsFrame DEF Good
  <2> QED
    BY <2>2, <2>8 DEF Good
<1> QED
  BY <1>7, <1>8 DEF KmemInv, Good

\* An entry that is in no slab of a pool is in no slab at all.
LEMMA PlainEntry ==
  ASSUME SlabTypes, KernelArea(area), Apart, ObjectsInv,
         NEW s \in Symbols, area.table[s] # Unused,
         \A p \in Pools : ~PoolHas(p, area.table[s].from)
  PROVE  \A x \in SlabPlaces, a \in Nat : InSlabAt(x, a) => ~InEntry(s, a)
<1> SUFFICES ASSUME NEW x \in SlabPlaces, NEW a \in Nat, InSlabAt(x, a), InEntry(s, a)
             PROVE  FALSE
  OBVIOUS
<1>1. PICK k \in Objects : area.table[s] = ObjectAt(SlabAt(x), k)
  BY DEF ObjectsInv
<1>2. x[2] # 0
  BY <1>1 DEF ObjectsInv, Entered
<1>8. PICK p \in Pools : \E i \in 1 .. Len(slabs[p]) : x = <<p, i>>
  BY <1>2, PlacesAre DEF PlacesInv
<1>3. PICK i \in 1 .. Len(slabs[p]) : x = <<p, i>>
  BY <1>8
<1>4. SlabAt(x) = slabs[p][i] /\ slabs[p][i] \in SlabType
  BY <1>3, PlacesAre, ElementOfSeq DEF PlacesInv, SlabTypes
<1>5. SlabAt(x).addr \in Nat
  BY <1>4 DEF SlabType
<1>6. /\ ObjectAt(SlabAt(x), k) \in Spans
      /\ ObjectAt(SlabAt(x), k).from < ObjectAt(SlabAt(x), k).to
      /\ \A y \in Nat : In(ObjectAt(SlabAt(x), k), y) => In(Extent(SlabAt(x)), y)
  BY <1>5, ObjectProperties
<1>7. InSlabAt(x, area.table[s].from)
  BY <1>1, <1>6 DEF InSlabAt, In, Spans
<1> QED
  BY <1>3, <1>7 DEF PoolHas

\* kfree: an entry that is no object goes to the free list.
LEMMA KfreeStep ==
  ASSUME KmemInv, NEW c \in Cpus, Kfree(c)
  PROVE  KmemInv'
<1>1. /\ Types /\ CallTypes /\ KernelArea(area) /\ SlabTypes /\ HeldTypes
      /\ raced \in BOOLEAN /\ area.sbrk \in Nat /\ area.table \in [Symbols -> Spans]
  BY DEF KmemInv, Types, KernelArea, AreaShape, Areas
<1>2. PICK s \in Symbols, e \in Spans : s = call[c].sym /\ e = area.table[s]
  BY <1>1 DEF Kfree, CallTypes, Freeing
<1>3. /\ pc[c] = "free" /\ call[c].pools = {} /\ Goto(c, "idle", NoCall)
      /\ slabs' = slabs /\ held' = held /\ raced' = raced
  BY DEF Kfree, Return
<1>4. area' = IF e = Unused THEN area ELSE Release(area, s)
  BY <1>2 DEF Kfree
<1>5. /\ CallTypes' /\ pc'[c] = "idle"
      /\ \A d \in Cpus : d # c => pc'[d] = pc[d] /\ call'[d] = call[d]
  BY <1>1, <1>3, GotoCalls
<1>6. \A d \in Cpus : /\ pc'[d] \in {"push", "free", "copy"} =>
                           d # c /\ pc'[d] = pc[d] /\ call'[d] = call[d]
                      /\ pc'[d] = "push" <=> pc[d] = "push"
                      /\ pc[d] = "push" => call'[d] = call[d]
  BY <1>3, <1>5
<1>7. ASSUME e # Unused
      PROVE  /\ KernelArea(area') /\ area'.table = [area.table EXCEPT ![s] = Unused]
             /\ area'.sbrk = area.sbrk
             /\ \A x \in Nat : Available(area', x) <=> Available(area, x) \/ In(e, x)
             /\ Disjoint(area.free) /\ (\A x \in Nat : In(e, x) => ~Available(area, x))
                  => Disjoint(area'.free)
  <2> DEFINE b == Release(area, s)
  <2>1. /\ KernelArea(b) /\ b.table = [area.table EXCEPT ![s] = Unused]
        /\ b.sbrk = area.sbrk
        /\ \A x \in Nat : Available(b, x) <=> Available(area, x) \/ In(area.table[s], x)
        /\ Disjoint(area.free)
             /\ (\A x \in Nat : In(area.table[s], x) => ~Available(area, x))
             => Disjoint(b.free)
    BY <1>1, <1>2, <1>7, KernelRelease
  <2>2. area' = b
    BY <1>4, <1>7
  <2> HIDE DEF b
  <2> QED
    BY <1>2, <2>1, <2>2
<1>8. KernelArea(area)' /\ area'.sbrk = area.sbrk /\ area.sbrk <= area'.sbrk
  <2>1. CASE e = Unused
    BY <1>1, <1>4, <2>1
  <2>2. CASE e # Unused
    BY <1>1, <1>7, <2>2
  <2> QED
    BY <2>1, <2>2
<1>9. SlabPlaces' = SlabPlaces /\ \A x \in SlabPlaces : SlabAt(x)' = SlabAt(x)
  BY <1>1, <1>3, <1>6, SameSlabs
<1>10. SlabsStay
  BY <1>9, SameStay
<1>11. SlabTypes'
  <2>1. \A x \in SlabPlaces' : Within(Extent(SlabAt(x)), area.sbrk)'
    BY <1>1, <1>8, <1>9 DEF SlabTypes, Extent
  <2> QED
    BY <1>1, <1>3, <2>1 DEF SlabTypes
<1>12. HeldTypes'
  <2>1. held' \subseteq Spans /\ \A d \in held' : d \in held \/ InUse(d, area'.sbrk)
    BY <1>1, <1>3 DEF HeldTypes
  <2> QED
    BY <1>1, <1>6, <1>8, <2>1, HeldStay
<1>13. Types'
  BY <1>1, <1>3, <1>5, <1>8, <1>11, <1>12 DEF Types
<1>14. ASSUME ~raced' PROVE Good'
  <2>1. Good
    BY <1>3, <1>14 DEF KmemInv, Good
  <2>2. c \in Working /\ e = InHand(c) /\ e # Unused /\ e \notin held
    BY <1>2, <1>3, <2>1 DEF Good, GrantsInv, Working, InHand
  <2>3. \A p \in Pools : ~PoolHas(p, e.from)
    BY <1>3, <2>1, <2>2 DEF Good, GrantsInv
  <2>4. \A x \in SlabPlaces, a \in Nat : InSlabAt(x, a) => ~InEntry(s, a)
    BY <1>1, <1>2, <2>1, <2>2, <2>3, PlainEntry DEF Good
  <2>5. \A a \in Nat : In(e, a) <=> InEntry(s, a)
    BY <1>2 DEF InEntry
  <2>6. Unused \in Spans /\ \A a \in Nat : ~In(Unused, a)
    BY UnusedProperties
  <2>7. Apart'
    <3>1. \A a \in Nat : In(e, a) => ~Available(area, a)
      BY <2>1, <2>5 DEF Good, Apart
    <3>2. Disjoint(area.free)'
      BY <1>7, <2>1, <2>2, <3>1 DEF Good, Apart
    <3>3. \A a \in Nat : Available(area', a) <=> Available(area, a) \/ InEntry(s, a)
      BY <1>7, <2>2, <2>5
    <3>4. \A a \in Nat : Available(area', a) =>
            /\ ~In(Unused, a)
            /\ \/ Available(area, a)
               \/ InEntry(s, a) /\ \A x \in SlabPlaces : ~InSlabAt(x, a)
      BY <2>4, <2>6, <3>3
    <3>5. \A a \in Nat : Base <= a /\ (Available(area, a) \/ InEntry(s, a)) =>
            Available(area', a) \/ In(Unused, a) \/ \E x \in SlabPlaces : InSlabAt(x, a)
      BY <3>3
    <3>6. \A j \in Symbols, a \in Nat : j # s /\ In(Unused, a) => ~InEntry(j, a)
      BY <2>6
    <3>7. area'.table = [area.table EXCEPT ![s] = Unused]
      BY <1>7, <2>2
    <3> QED
      BY <1>1, <1>10, <2>1, <2>6, <3>2, <3>4, <3>5, <3>6, <3>7, ApartEdit DEF Good
  <2>8. ObjectsInv'
    <3>1. area'.table = [area.table EXCEPT ![s] = Unused]
      BY <1>7, <2>2
    <3>2. \A x \in SlabPlaces, a \in Nat : InSlabAt(x, a) =>
            ~InEntry(s, a) /\ ~In(Unused, a)
      BY <2>4, <2>6
    <3> QED
      BY <1>1, <1>9, <2>1, <2>6, <3>1, <3>2, PlainEdit DEF Good
  <2>9. \A d \in Cpus : pc'[d] \in {"free", "copy"} =>
          /\ area'.table[call[d].sym] = area.table[call[d].sym]
          /\ area.table[call[d].sym] \notin held'
    <3> SUFFICES ASSUME NEW d \in Cpus, pc'[d] \in {"free", "copy"}
                 PROVE  /\ area'.table[call[d].sym] = area.table[call[d].sym]
                        /\ area.table[call[d].sym] \notin held'
      OBVIOUS
    <3>1. /\ d # c /\ d \in Working /\ area.table[call[d].sym] \notin held
          /\ call[d].sym # s /\ call[d].sym \in Symbols
      BY <1>1, <1>2, <1>6, <2>1, <2>2
      DEF Good, GrantsInv, Working, InHand, CallTypes, Copies, Freeing
    <3>2. area'.table = [area.table EXCEPT ![s] = Unused]
      BY <1>7, <2>2
    <3> QED
      BY <1>1, <1>3, <3>1, <3>2
  <2>10. \A b \in held' : \E i \in Symbols : area'.table[i] = b
    <3>1. area'.table = [area.table EXCEPT ![s] = Unused]
      BY <1>7, <2>2
    <3>2. \A j \in Symbols : j # s => area'.table[j] = area.table[j]
      BY <1>1, <3>1
    <3> TAKE b \in held'
    <3>3. PICK j \in Symbols : area.table[j] = b
      BY <1>3, <2>1 DEF Good, GrantsInv
    <3>4. j # s
      BY <1>2, <1>3, <2>2, <3>3
    <3> QED
      BY <3>2, <3>3, <3>4
  <2>11. \A p \in Pools, a \in Nat : PoolHas(p, a)' <=> PoolHas(p, a)
    BY <1>3, SamePools
  <2>12. GrantsInv'
    BY <1>1, <1>6, <2>1, <2>9, <2>10, <2>11, GrantsFrame DEF Good
  <2> QED
    BY <2>7, <2>8, <2>12 DEF Good
<1> QED
  BY <1>13, <1>14 DEF KmemInv, Good

\* An address in a slab is one of its objects.
LEMMA IndexInSlab ==
  ASSUME NEW s, s.addr \in Nat, NEW a \in Nat, In(Extent(s), a)
  PROVE  (a - s.addr) \div PoolAlign \in Objects
<1> DEFINE d == a - s.addr
           q == d \div PoolAlign
<1>1. /\ PoolAlign \in Nat \ {0} /\ PoolSize \in Nat \ {0}
      /\ PoolSize % PoolAlign = 0
  BY KmemAssumption
<1>2. NumObjects \in Nat /\ PoolSize = NumObjects * PoolAlign
  BY <1>1 DEF NumObjects
<1>3. d \in Nat /\ d < PoolSize
  BY <1>1 DEF In, Extent, Region
<1> HIDE DEF d
<1>4. q \in Nat /\ q * PoolAlign <= d
  BY <1>1, <1>3
<1> HIDE DEF q
<1>5. ASSUME NumObjects <= q PROVE FALSE
  <2>1. NumObjects * PoolAlign <= q * PoolAlign
    BY <1>1, <1>2, <1>4, <1>5
  <2>2. q * PoolAlign \in Nat
    BY <1>1, <1>4
  <2> QED
    BY <1>1, <1>2, <1>3, <1>4, <2>1, <2>2
<1>6. q \in Objects
  BY <1>2, <1>4, <1>5 DEF Objects
<1> QED
  BY <1>6 DEF q, d

\* __kmem_cache_free: an object goes back to its slab.
LEMMA CacheFreeStep ==
  ASSUME KmemInv, NEW c \in Cpus, CacheFree(c)
  PROVE  KmemInv'
<1>1. /\ Types /\ CallTypes /\ KernelArea(area) /\ SlabTypes /\ HeldTypes
      /\ raced \in BOOLEAN /\ area.sbrk \in Nat /\ area.table \in [Symbols -> Spans]
  BY DEF KmemInv, Types, KernelArea, AreaShape, Areas
<1>2. PICK s \in Symbols, e \in Spans : s = call[c].sym /\ e = area.table[s]
  BY <1>1 DEF CacheFree, CallTypes, Freeing
<1>3. /\ pc[c] = "free" /\ Goto(c, "idle", NoCall)
      /\ held' = held /\ raced' = raced
  BY DEF CacheFree, Return
<1>4. PICK p \in Pools :
        LET at == {i \in DOMAIN slabs[p] : e.from \in Addresses(Extent(slabs[p][i]))}
        IN  /\ p \in call[c].pools
            /\ IF at = {} THEN UNCHANGED <<area, slabs>>
               ELSE \E i \in at :
                 /\ slabs' = [slabs EXCEPT ![p][i].avail =
                                <<(e.from - slabs[p][i].addr) \div PoolAlign>> \o @]
                 /\ area' = [area EXCEPT !.table[s] = Unused]
  <2>1. call[c].pools \in SUBSET Pools
    BY <1>1, <1>3 DEF CallTypes, Freeing
  <2> QED
    BY <1>2, <2>1 DEF CacheFree
<1>5. /\ CallTypes' /\ pc'[c] = "idle"
      /\ \A d \in Cpus : d # c => pc'[d] = pc[d] /\ call'[d] = call[d]
  BY <1>1, <1>3, GotoCalls
<1>6. \A d \in Cpus : /\ pc'[d] \in {"push", "free", "copy"} =>
                           d # c /\ pc'[d] = pc[d] /\ call'[d] = call[d]
                      /\ pc'[d] = "push" <=> pc[d] = "push"
                      /\ pc[d] = "push" => call'[d] = call[d]
  BY <1>3, <1>5
<1>7. e.from \in Nat
  BY <1>2 DEF Spans
<1> DEFINE at == {i \in DOMAIN slabs[p] : e.from \in Addresses(Extent(slabs[p][i]))}
<1>8. CASE at = {}
  <2>1. UNCHANGED <<area, slabs>>
    BY <1>4, <1>8
  <2>2. /\ Types' /\ SlabPlaces' = SlabPlaces
        /\ \A x \in SlabPlaces : SlabAt(x)' = SlabAt(x)
    <3>1. \A d \in Cpus : /\ pc'[d] = "push" <=> pc[d] = "push"
                          /\ pc[d] = "push" => call'[d] = call[d]
      BY <1>6
    <3>2. \A d \in Cpus : pc'[d] = "copy" =>
            \/ pc[d] = "copy" /\ call'[d] = call[d]
            \/ InUse(call'[d].block, area.sbrk)
      BY <1>6
    <3>3. held' \subseteq Spans /\ \A d \in held' : d \in held \/ InUse(d, area.sbrk)
      BY <1>1, <1>3 DEF HeldTypes
    <3>4. raced' \in BOOLEAN
      BY <1>1, <1>3
    <3> QED
      BY <1>1, <1>5, <2>1, <3>1, <3>2, <3>3, <3>4, StillTypes
  <2>3. ASSUME ~raced' PROVE FALSE
    <3>1. p \in PoolsAt(e.from)
      <4>1. Good
        BY <1>3, <2>3 DEF KmemInv, Good
      <4>2. PoolHas(p, e.from)
        BY <1>2, <1>3, <1>4, <4>1 DEF Good, GrantsInv, InHand
      <4> QED
        BY <1>1, <1>7, <4>2, PoolsFound
    <3> QED
      BY <1>8, <3>1 DEF PoolsAt
  <2> QED
    BY <2>2, <2>3 DEF KmemInv
<1>9. CASE at # {}
  <2>1. PICK i \in at :
          /\ slabs' = [slabs EXCEPT ![p][i].avail =
                         <<(e.from - slabs[p][i].addr) \div PoolAlign>> \o @]
          /\ area' = [area EXCEPT !.table[s] = Unused]
    BY <1>4, <1>9
  <2>2. i \in 1 .. Len(slabs[p]) /\ e.from \in Addresses(Extent(slabs[p][i])) /\ i # 0
    <3>1. DOMAIN slabs[p] = 1 .. Len(slabs[p]) /\ Len(slabs[p]) \in Nat
      BY <1>1, LenProperties DEF SlabTypes
    <3> QED
      BY <3>1
  <2>3. slabs[p][i] \in SlabType
    BY <1>1, <2>2, ElementOfSeq DEF SlabTypes
  <2>4. PICK f \in Seq(Objects) : f = slabs[p][i].avail
    BY <2>3 DEF SlabType
  <2> DEFINE x0 == <<p, i>>
  <2>5. x0 \in SlabPlaces /\ SlabAt(x0) = slabs[p][i] /\ x0[2] # 0
    BY <1>1, <2>2, PlacesAre DEF PlacesInv
  <2>6. InSlabAt(x0, e.from)
    <3>1. Extent(slabs[p][i]) \in Spans
      BY <2>3, ObjectProperties DEF SlabType
    <3> QED
      BY <2>2, <2>5, <3>1, AddressesOf DEF InSlabAt
  <2>7. PICK k0 \in Objects : k0 = (e.from - slabs[p][i].addr) \div PoolAlign
    <3>1. slabs[p][i].addr \in Nat /\ In(Extent(slabs[p][i]), e.from)
      BY <2>3, <2>5, <2>6 DEF SlabType, InSlabAt
    <3> QED
      BY <1>7, <3>1, IndexInSlab
  <2> DEFINE g == Prepended(k0, f)
  <2>8. SetAvail(p, i, g)
    BY <2>1, <2>4, <2>7 DEF SetAvail, Prepended
  <2>9. /\ g \in Seq(Objects) /\ Len(g) = Len(f) + 1 /\ Len(f) \in Nat
        /\ g[1] = k0
        /\ \A m \in 1 .. Len(f) : g[m + 1] = f[m]
        /\ \A k : (\E m \in 1 .. Len(g) : g[m] = k) <=>
                   (\E m \in 1 .. Len(f) : f[m] = k) \/ k = k0
        /\ OnceIn(f) /\ (\A m \in 1 .. Len(f) : f[m] # k0) => OnceIn(g)
    BY WithFirst
  <2> HIDE DEF x0, g, at
  <2>10. Unused \in Spans /\ \A a \in Nat : ~In(Unused, a)
    BY UnusedProperties
  <2>11. /\ KernelArea(area') /\ area'.table = [area.table EXCEPT ![s] = Unused]
         /\ area'.sbrk = area.sbrk /\ area'.free = area.free
         /\ \A a : Available(area', a) <=> Available(area, a)
    <3> DEFINE b == [area EXCEPT !.table[s] = Unused]
    <3>1. /\ KernelArea(b) /\ b.table = [area.table EXCEPT ![s] = Unused]
          /\ b.sbrk = area.sbrk /\ b.free = area.free
          /\ \A a : Available(b, a) <=> Available(area, a)
      BY <1>1, <2>10, KernelSet
    <3>2. area' = b
      BY <2>1
    <3> HIDE DEF b
    <3> QED
      BY <3>1, <3>2
  <2>12. KernelArea(area)' /\ area.sbrk <= area'.sbrk
    BY <1>1, <2>11
  <2>13. /\ SlabTypes' /\ SlabsStay /\ SlabAt(x0)'.avail = g
         /\ \A x \in SlabPlaces : x # x0 => SlabAt(x)' = SlabAt(x)
    <3>1. \A d \in Cpus : /\ pc'[d] = "push" <=> pc[d] = "push"
                          /\ pc[d] = "push" => call'[d] = call[d]
      BY <1>6
    <3>2. Types
      BY <1>1
    <3> QED
      BY <2>2, <2>8, <2>9, <2>12, <3>1, <3>2, EditPlaces DEF x0
  <2>14. HeldTypes'
    <3>1. held' \subseteq Spans /\ \A d \in held' : d \in held \/ InUse(d, area'.sbrk)
      BY <1>1, <1>3 DEF HeldTypes
    <3> QED
      BY <1>1, <1>6, <2>12, <3>1, HeldStay
  <2>15. Types'
    BY <1>1, <1>3, <1>5, <2>12, <2>13, <2>14 DEF Types
  <2>16. ASSUME ~raced' PROVE Good'
    <3>1. Good
      BY <1>3, <2>16 DEF KmemInv, Good
    <3>2. c \in Working /\ e = InHand(c) /\ e # Unused /\ e \notin held
      BY <1>2, <1>3, <3>1 DEF Good, GrantsInv, Working, InHand
    <3>3. \A a : In(e, a) <=> InEntry(s, a)
      BY <1>2 DEF InEntry
    <3>4. InEntry(s, e.from)
      BY <1>1, <1>2, <3>2, EntryInUse
    <3>5. e = ObjectAt(SlabAt(x0), k0)
      <4>1. PICK k \in Objects : e = ObjectAt(SlabAt(x0), k)
        BY <1>2, <1>7, <2>5, <2>6, <3>1, <3>4 DEF Good, ObjectsInv
      <4>2. SlabAt(x0).addr \in Nat
        BY <2>3, <2>5 DEF SlabType
      <4>3. (e.from - SlabAt(x0).addr) \div PoolAlign = k
        BY <4>1, <4>2, ObjectProperties
      <4> QED
        BY <2>5, <2>7, <4>1, <4>3
    <3>6. \A a \in Nat : In(e, a) => InSlabAt(x0, a)
      BY <1>1, <2>5, <3>5, SlabIsTyped
    <3>7. OnceIn(f) /\ ~Kept(x0, k0)
      <4>1. Entered(x0, k0)
        BY <1>2, <3>5 DEF Entered
      <4> QED
        BY <2>4, <2>5, <3>1, <4>1 DEF Good, ObjectsInv
    <3>8. Apart'
      <4>1. Disjoint(area.free)'
        BY <2>11, <3>1 DEF Good, Apart
      <4>2. \A a \in Nat : Available(area', a) =>
              /\ ~In(Unused, a)
              /\ \/ Available(area, a)
                 \/ InEntry(s, a) /\ \A x \in SlabPlaces : ~InSlabAt(x, a)
        BY <2>10, <2>11
      <4>3. \A a \in Nat : Base <= a /\ (Available(area, a) \/ InEntry(s, a)) =>
              \/ Available(area', a) \/ In(Unused, a)
              \/ \E x \in SlabPlaces : InSlabAt(x, a)
        BY <2>5, <2>11, <3>3, <3>6
      <4>4. \A j \in Symbols, a \in Nat : j # s /\ In(Unused, a) => ~InEntry(j, a)
        BY <2>10
      <4>5. area'.table = [area.table EXCEPT ![s] = Unused]
        BY <2>11
      <4> QED
        BY <1>1, <2>10, <2>13, <3>1, <4>1, <4>2, <4>3, <4>4, <4>5, ApartEdit DEF Good
    <3>9. ObjectsInv'
      <4>1. /\ \A k : Kept(x0, k)' <=> \E m \in 1 .. Len(g) : g[m] = k
            /\ \A k : Kept(x0, k) <=> \E m \in 1 .. Len(f) : f[m] = k
        BY <2>4, <2>5, <2>13 DEF Kept
      <4>2. \A k : Kept(x0, k)' <=> Kept(x0, k) \/ k = k0
        BY <2>9, <4>1
      <4>3. \A m \in 1 .. Len(f) : f[m] # k0
        BY <3>7, <4>1
      <4>4. OnceIn(SlabAt(x0).avail)'
        BY <2>9, <2>13, <3>7, <4>3 DEF OnceIn
      <4>5. Kept(x0, k0)' /\ \A k \in Objects : k # k0 => (Kept(x0, k)' <=> Kept(x0, k))
        BY <4>2
      <4>6. /\ area'.table = [area.table EXCEPT ![s] = Unused]
            /\ area.table[s] = ObjectAt(SlabAt(x0), k0)
        BY <1>2, <2>11, <3>5
      <4> QED
        BY <1>1, <2>5, <2>13, <3>1, <4>4, <4>5, <4>6, ObjectGiven DEF Good
    <3>10. area'.table = [area.table EXCEPT ![s] = Unused]
      BY <2>11
    <3>11. \A d \in Cpus : pc'[d] \in {"free", "copy"} =>
             /\ area'.table[call[d].sym] = area.table[call[d].sym]
             /\ area.table[call[d].sym] \notin held'
      <4> SUFFICES ASSUME NEW d \in Cpus, pc'[d] \in {"free", "copy"}
                   PROVE  /\ area'.table[call[d].sym] = area.table[call[d].sym]
                          /\ area.table[call[d].sym] \notin held'
        OBVIOUS
      <4>1. /\ d # c /\ d \in Working /\ area.table[call[d].sym] \notin held
            /\ call[d].sym # s /\ call[d].sym \in Symbols
        BY <1>1, <1>2, <1>6, <3>1, <3>2
        DEF Good, GrantsInv, Working, InHand, CallTypes, Copies, Freeing
      <4> QED
        BY <1>1, <1>3, <3>10, <4>1
    <3>12. \A b \in held' : \E j \in Symbols : area'.table[j] = b
      <4>1. \A j \in Symbols : j # s => area'.table[j] = area.table[j]
        BY <1>1, <3>10
      <4> TAKE b \in held'
      <4>2. PICK j \in Symbols : area.table[j] = b
        BY <1>3, <3>1 DEF Good, GrantsInv
      <4>3. j # s
        BY <1>2, <1>3, <3>2, <4>2
      <4> QED
        BY <4>1, <4>2, <4>3
    <3>13. \A q \in Pools, a \in Nat : PoolHas(q, a)' <=> PoolHas(q, a)
      <4>1. \A q \in Pools : Len(slabs'[q]) = Len(slabs[q])
        BY <1>1, <2>2, <2>8, <2>9, SlabEdit
      <4> QED
        BY <1>1, <2>13, <4>1, StayPools
    <3>14. GrantsInv'
      BY <1>1, <1>6, <3>1, <3>11, <3>12, <3>13, GrantsFrame DEF Good
    <3> QED
      BY <3>8, <3>9, <3>14 DEF Good
  <2> QED
    BY <2>15, <2>16 DEF KmemInv, Good
<1> QED
  BY <1>8, <1>9

\* A new slab has all of its objects.
LEMMA NewSlabProperties ==
  ASSUME NEW a \in Nat
  PROVE  /\ NewSlab(a) \in SlabType /\ NewSlab(a).addr = a
         /\ OnceIn(NewSlab(a).avail)
         /\ \A k \in Objects : \E m \in 1 .. Len(NewSlab(a).avail) :
              NewSlab(a).avail[m] = k
<1> DEFINE f == [i \in 1 .. NumObjects |-> i - 1]
<1>1. NumObjects \in Nat
  BY KmemAssumption DEF NumObjects
<1>2. \A i \in 1 .. NumObjects : i - 1 \in Objects /\ f[i] = i - 1
  BY <1>1 DEF Objects
<1>3. f \in [1 .. NumObjects -> Objects]
  BY <1>2
<1> HIDE DEF f
<1>4. f \in Seq(Objects) /\ Len(f) = NumObjects
  BY <1>1, <1>3, SeqDef
<1>5. OnceIn(f)
  <2> SUFFICES ASSUME NEW m \in 1 .. Len(f), NEW n \in 1 .. Len(f), f[m] = f[n]
               PROVE  m = n
    BY DEF OnceIn
  <2>1. m - 1 = n - 1
    BY <1>2, <1>4
  <2> QED
    BY <1>1, <1>4, <2>1
<1>6. ASSUME NEW k \in Objects PROVE \E m \in 1 .. Len(f) : f[m] = k
  <2>1. k + 1 \in 1 .. Len(f) /\ f[k + 1] = k
    BY <1>1, <1>2, <1>4 DEF Objects
  <2> QED
    BY <2>1
<1>7. NewSlab(a) = [addr |-> a, avail |-> f]
  BY DEF NewSlab, f
<1>8. NewSlab(a).avail = f /\ NewSlab(a).addr = a
  BY <1>7
<1>9. NewSlab(a) \in SlabType
  BY <1>4, <1>7 DEF SlabType
<1> QED
  BY <1>5, <1>6, <1>8, <1>9

\* __slab_alloc: a region that was to be had becomes a slab under way.
LEMMA SlabRegionStep ==
  ASSUME KmemInv, NEW c \in Cpus, SlabRegion(c)
  PROVE  KmemInv'
<1>1. /\ Types /\ CallTypes /\ KernelArea(area) /\ SlabTypes /\ HeldTypes
      /\ raced \in BOOLEAN /\ area.sbrk \in Nat /\ area.table \in [Symbols -> Spans]
  BY DEF KmemInv, Types, KernelArea, AreaShape, Areas
<1>2. pc[c] = "region" /\ UNCHANGED <<slabs, held, raced>> /\ call[c] \in Fetching
  BY <1>1 DEF SlabRegion, CallTypes
<1>3. CASE Return(c) /\ UNCHANGED area
  <2>1. Goto(c, "idle", NoCall) /\ UNCHANGED <<area, slabs, held, raced>>
    BY <1>2, <1>3 DEF Return
  <2> QED
    BY <1>2, <2>1, FetchStep
<1> DEFINE r == Obtain(area, PoolSize).region
           b == Obtain(area, PoolSize).area
           locals == [op |-> call[c].op, pool |-> call[c].pool, sym |-> call[c].sym,
                      slab |-> NewSlab(r.from)]
<1>4. CASE CanObtain(PoolSize) /\ area' = b /\ Goto(c, "push", locals)
  <2>1. PoolSize \in Nat \ {0} /\ b.sbrk <= MaxAddr
    BY <1>4, KmemAssumption DEF CanObtain
  <2>2. /\ KernelArea(b) /\ b.table = area.table /\ area.sbrk <= b.sbrk
        /\ r \in Spans /\ r.to = r.from + PoolSize /\ InUse(r, b.sbrk)
        /\ \A x \in Nat : In(r, x) => Available(area, x)
        /\ Disjoint(area.free) =>
             /\ Disjoint(b.free)
             /\ \A x \in Nat : Available(b, x) <=> Available(area, x) /\ ~In(r, x)
    BY <1>1, <2>1, KernelObtain
  <2> HIDE DEF r, b
  <2>3. PICK t \in Spans : t = r
    BY <2>2
  <2>4. /\ NewSlab(t.from) \in SlabType /\ NewSlab(t.from).addr = t.from
        /\ OnceIn(NewSlab(t.from).avail)
        /\ \A k \in Objects : \E m \in 1 .. Len(NewSlab(t.from).avail) :
             NewSlab(t.from).avail[m] = k
    <3>1. t.from \in Nat
      BY DEF Spans
    <3> QED
      BY <3>1, NewSlabProperties
  <2>5. Extent(NewSlab(t.from)) = t
    BY <2>1, <2>2, <2>3, <2>4 DEF Extent, Region, Spans
  <2>6. /\ locals \in Pushing /\ locals.slab = NewSlab(t.from)
        /\ locals.op = "alloc" => locals.sym \in Symbols
    BY <1>1, <1>2, <2>3, <2>4 DEF Pushing, Fetching, CallTypes
  <2> HIDE DEF locals
  <2>7. /\ CallTypes' /\ pc'[c] = "push" /\ call'[c] = locals
        /\ \A d \in Cpus : d # c => pc'[d] = pc[d] /\ call'[d] = call[d]
    BY <1>1, <1>4, <2>6, GotoCalls
  <2> DEFINE y == <<c, 0>>
  <2>8. /\ SlabPlaces' = SlabPlaces \cup {y} /\ y \notin SlabPlaces
        /\ SlabAt(y)' = NewSlab(t.from)
        /\ \A x \in SlabPlaces : SlabAt(x)' = SlabAt(x)
    <3>1. slabs' \in [Pools -> Seq(SlabType)] /\ slabs' = slabs
      BY <1>1, <1>2 DEF SlabTypes
    <3>2. \A x : x \in SlabPlaces' <=>
             \/ \E p \in Pools : \E i \in 1 .. Len(slabs'[p]) : x = <<p, i>>
             \/ \E d \in Cpus : pc'[d] = "push" /\ x = <<d, 0>>
      BY <3>1, SlabPlacesNext
    <3>3. \A x : x \in SlabPlaces <=>
             \/ \E p \in Pools : \E i \in 1 .. Len(slabs[p]) : x = <<p, i>>
             \/ \E d \in Cpus : pc[d] = "push" /\ x = <<d, 0>>
      BY <1>1, PlacesAre DEF PlacesInv
    <3>4. \A x : x \in SlabPlaces' <=> x \in SlabPlaces \/ x = y
      <4> TAKE x
      <4>1. (\E d \in Cpus : pc'[d] = "push" /\ x = <<d, 0>>) <=>
            (\E d \in Cpus : pc[d] = "push" /\ x = <<d, 0>>) \/ x = y
        BY <1>2, <2>7
      <4> QED
        BY <3>1, <3>2, <3>3, <4>1
    <3>5. y \notin SlabPlaces
      BY <1>2, <3>3
    <3>6. SlabAt(y)' = NewSlab(t.from)
      BY <2>6, <2>7 DEF SlabAt
    <3>7. ASSUME NEW x \in SlabPlaces PROVE SlabAt(x)' = SlabAt(x)
      <4>1. ASSUME NEW p \in Pools, NEW i \in 1 .. Len(slabs[p]), x = <<p, i>>
            PROVE  SlabAt(x)' = SlabAt(x)
        BY <3>1, <4>1 DEF SlabAt
      <4>2. ASSUME NEW d \in Cpus, pc[d] = "push", x = <<d, 0>>
            PROVE  SlabAt(x)' = SlabAt(x)
        BY <1>2, <2>7, <4>2 DEF SlabAt
      <4> QED
        BY <3>3, <4>1, <4>2
    <3> QED
      BY <3>4, <3>5, <3>6, <3>7
  <2>9. KernelArea(area') /\ area.sbrk <= area'.sbrk /\ area'.sbrk \in Nat
    BY <1>4, <2>2 DEF KernelArea, AreaShape, Areas
  <2>10. KernelArea(area)'
    BY <2>9
  <2>11. SlabTypes'
    <3>1. ASSUME NEW x \in SlabPlaces PROVE Within(Extent(SlabAt(x)), area.sbrk)'
      <4>1. SlabAt(x).addr \in Nat
        BY <1>1, SlabIsTyped DEF SlabType
      <4>2. Extent(SlabAt(x)).to \in Nat /\ Within(Extent(SlabAt(x)), area.sbrk)
        BY <1>1, <4>1, ObjectProperties DEF Spans, SlabTypes
      <4>3. Extent(SlabAt(x))' = Extent(SlabAt(x))
        BY <2>8 DEF Extent
      <4> QED
        BY <1>1, <2>9, <4>2, <4>3 DEF Within
    <3>2. Within(Extent(SlabAt(y)), area.sbrk)'
      <4>1. Extent(SlabAt(y))' = t
        BY <2>5, <2>8 DEF Extent
      <4>2. Within(t, area'.sbrk)
        BY <1>4, <2>2, <2>3 DEF InUse
      <4> QED
        BY <4>1, <4>2 DEF Within
    <3>3. \A x \in SlabPlaces' : Within(Extent(SlabAt(x)), area.sbrk)'
      BY <2>8, <3>1, <3>2
    <3>4. slabs' \in [Pools -> Seq(SlabType)]
      BY <1>1, <1>2 DEF SlabTypes
    <3> QED
      BY <3>3, <3>4 DEF SlabTypes
  <2>12. HeldTypes'
    <3>1. held' \subseteq Spans /\ \A d \in held' : d \in held \/ InUse(d, area'.sbrk)
      BY <1>1, <1>2 DEF HeldTypes
    <3>2. \A d \in Cpus : pc'[d] = "copy" =>
            \/ pc[d] = "copy" /\ call'[d] = call[d]
            \/ InUse(call'[d].block, area'.sbrk)
      BY <2>7
    <3> QED
      BY <1>1, <2>9, <2>10, <3>1, <3>2, HeldStay
  <2>13. Types'
    BY <1>1, <1>2, <2>7, <2>10, <2>11, <2>12 DEF Types
  <2>14. ASSUME ~raced' PROVE Good'
    <3>1. Good
      BY <1>2, <2>14 DEF KmemInv, Good
    <3>2. /\ area'.table = area.table /\ Disjoint(area'.free)
          /\ \A a \in Nat : Available(area', a) <=> Available(area, a) /\ ~In(t, a)
          /\ \A a \in Nat : In(t, a) => Available(area, a)
      BY <1>4, <2>2, <2>3, <3>1 DEF Good, Apart
    <3>3. /\ \A i, a : InEntry(i, a)' <=> InEntry(i, a)
          /\ \A x \in SlabPlaces : \A a : InSlabAt(x, a)' <=> InSlabAt(x, a)
          /\ \A a : InSlabAt(y, a)' <=> In(t, a)
      BY <2>5, <2>8, <3>2 DEF InEntry, InSlabAt, Extent
    <3>4. /\ \A i \in Symbols, a \in Nat : In(t, a) => ~InEntry(i, a)
          /\ \A x \in SlabPlaces, a \in Nat : In(t, a) => ~InSlabAt(x, a)
      BY <3>1, <3>2 DEF Good, Apart
    <3>5. Apart'
      <4>1. Disjoint(area.free)'
        BY <3>2
      <4>2. \A i, j \in Symbols, a \in Nat : InEntry(i, a)' /\ InEntry(j, a)' => i = j
        BY <3>1, <3>3 DEF Good, Apart
      <4>3. \A x, z \in SlabPlaces', a \in Nat :
              InSlabAt(x, a)' /\ InSlabAt(z, a)' => x = z
        BY <2>8, <3>1, <3>3, <3>4 DEF Good, Apart
      <4>4. \A a \in Nat : Available(area', a) =>
              /\ \A i \in Symbols : ~InEntry(i, a)'
              /\ \A x \in SlabPlaces' : ~InSlabAt(x, a)'
        BY <2>8, <3>1, <3>2, <3>3 DEF Good, Apart
      <4>5. ASSUME NEW a \in Nat, Base <= a
            PROVE  \/ Available(area', a)
                   \/ \E i \in Symbols : InEntry(i, a)'
                   \/ \E x \in SlabPlaces' : InSlabAt(x, a)'
        BY <2>8, <3>1, <3>2, <3>3, <4>5 DEF Good, Apart
      <4> QED
        BY <4>1, <4>2, <4>3, <4>4, <4>5 DEF Apart
    <3>6. ObjectsInv'
      <4>1. \A x \in SlabPlaces :
              /\ \A k : Kept(x, k)' <=> Kept(x, k)
              /\ \A k : Entered(x, k)' <=> Entered(x, k)
              /\ \A k : ObjectAt(SlabAt(x), k)' = ObjectAt(SlabAt(x), k)
              /\ OnceIn(SlabAt(x).avail)' <=> OnceIn(SlabAt(x).avail)
        BY <2>8, <3>2 DEF Kept, Entered, OnceIn, ObjectAt
      <4>2. \A i \in Symbols, x \in SlabPlaces', a \in Nat :
              InEntry(i, a)' /\ InSlabAt(x, a)' =>
                \E k \in Objects : area'.table[i] = ObjectAt(SlabAt(x), k)'
        <5> TAKE i \in Symbols, x \in SlabPlaces', a \in Nat
        <5> HAVE InEntry(i, a)' /\ InSlabAt(x, a)'
        <5>1. x \in SlabPlaces
          BY <2>8, <3>3, <3>4
        <5> QED
          BY <3>1, <3>2, <3>3, <4>1, <5>1 DEF Good, ObjectsInv
      <4>3. OnceIn(SlabAt(y).avail)' /\ \A k \in Objects : Kept(y, k)'
        BY <2>4, <2>8 DEF OnceIn, Kept
      <4>4. \A k \in Objects : ~Entered(y, k)'
        <5> SUFFICES ASSUME NEW k \in Objects, Entered(y, k)' PROVE FALSE
          OBVIOUS
        <5>1. SlabAt(y)' \in SlabType /\ SlabAt(y)'.addr \in Nat
          BY <2>4, <2>8 DEF SlabType
        <5>2. PICK o : o = ObjectAt(NewSlab(t.from), k)
          OBVIOUS
        <5>3. /\ o \in Spans /\ o.from < o.to
              /\ \A a \in Nat : In(o, a) => In(t, a)
          <6>1. NewSlab(t.from).addr \in Nat
            BY <2>4 DEF Spans
          <6> QED
            BY <2>5, <5>2, <6>1, ObjectProperties
        <5>4. In(o, o.from) /\ o.from \in Nat
          BY <5>3 DEF In, Spans
        <5>5. PICK i \in Symbols : area.table[i] = o
          BY <2>8, <3>2, <5>2 DEF Entered, ObjectAt
        <5> QED
          BY <3>4, <5>3, <5>4, <5>5 DEF InEntry
      <4>5. \A x \in SlabPlaces' :
              /\ OnceIn(SlabAt(x).avail)'
              /\ \A k \in Objects : Kept(x, k)' <=> ~Entered(x, k)'
              /\ x[2] = 0 => \A k \in Objects : Kept(x, k)'
        BY <2>8, <3>1, <4>1, <4>3, <4>4 DEF Good, ObjectsInv
      <4> QED
        BY <4>2, <4>5 DEF ObjectsInv
    <3>7. \A d \in Cpus : pc'[d] \in {"free", "copy"} =>
            pc'[d] = pc[d] /\ call'[d] = call[d]
      BY <2>7
    <3>8. \A d \in Cpus : pc'[d] \in {"free", "copy"} =>
            /\ area'.table[call[d].sym] = area.table[call[d].sym]
            /\ area.table[call[d].sym] \notin held'
      BY <1>2, <3>1, <3>2, <3>7 DEF Good, GrantsInv, Working, InHand
    <3>9. \A e \in held' : \E i \in Symbols : area'.table[i] = e
      BY <1>2, <3>1, <3>2 DEF Good, GrantsInv
    <3>10. \A p \in Pools, a \in Nat : PoolHas(p, a)' <=> PoolHas(p, a)
      BY <1>2, SamePools
    <3>11. GrantsInv'
      BY <1>1, <3>1, <3>7, <3>8, <3>9, <3>10, GrantsFrame DEF Good
    <3> QED
      BY <3>5, <3>6, <3>11 DEF Good
  <2> QED
    BY <2>13, <2>14 DEF KmemInv, Good
<1> QED
  BY <1>3, <1>4 DEF SlabRegion

\* The slab under way is put first in its pool: the places of the others move.
LEMMA SlabPushStep ==
  ASSUME KmemInv, NEW c \in Cpus, SlabPush(c)
  PROVE  KmemInv'
<1>1. /\ Types /\ CallTypes /\ KernelArea(area) /\ SlabTypes /\ HeldTypes
      /\ raced \in BOOLEAN /\ area.sbrk \in Nat
  BY DEF KmemInv, Types, KernelArea, AreaShape, Areas
<1>2. pc[c] = "push" /\ UNCHANGED <<area, held, raced>> /\ call[c] \in Pushing
  BY <1>1 DEF SlabPush, CallTypes
<1>3. PICK p \in Pools, s \in SlabType : p = call[c].pool /\ s = call[c].slab
  BY <1>2 DEF Pushing
<1>4. slabs' = [slabs EXCEPT ![p] = Prepended(s, slabs[p])]
  BY <1>3 DEF SlabPush, Prepended
<1>5. PICK n \in Nat : n = Len(slabs[p])
  BY <1>1, LenProperties DEF SlabTypes
<1>6. /\ slabs' \in [Pools -> Seq(SlabType)]
      /\ Len(slabs'[p]) = n + 1 /\ slabs'[p][1] = s
      /\ \A j \in 1 .. n : slabs'[p][j + 1] = slabs[p][j]
      /\ \A q \in Pools : q # p => slabs'[q] = slabs[q]
  <2> DEFINE g == Prepended(s, slabs[p])
  <2>1. slabs \in [Pools -> Seq(SlabType)] /\ slabs[p] \in Seq(SlabType)
    BY <1>1 DEF SlabTypes
  <2>2. PICK f \in Seq(SlabType) : f = slabs[p]
    BY <2>1
  <2> DEFINE h == Prepended(s, f)
  <2>3. /\ h \in Seq(SlabType) /\ Len(h) = Len(f) + 1 /\ Len(f) \in Nat
        /\ h[1] = s
        /\ \A m \in 1 .. Len(f) : h[m + 1] = f[m]
        /\ \A k : (\E m \in 1 .. Len(h) : h[m] = k) <=>
                   (\E m \in 1 .. Len(f) : f[m] = k) \/ k = s
        /\ OnceIn(f) /\ (\A m \in 1 .. Len(f) : f[m] # s) => OnceIn(h)
    BY WithFirst
  <2>4. g = h
    BY <2>2
  <2> HIDE DEF g, h
  <2>5. slabs' = [slabs EXCEPT ![p] = h]
    BY <1>4, <2>4 DEF g
  <2> QED
    BY <1>5, <2>1, <2>2, <2>3, <2>5
<1>7. PICK label, locals :
         /\ Goto(c, label, locals)
         /\ \/ label = "idle" /\ locals = NoCall
            \/ label = "retry" /\ locals \in Fetching
                 /\ locals.op = "alloc" /\ locals.sym \in Symbols
  <2>1. CASE call[c].op = "create"
    BY <2>1 DEF SlabPush, Return
  <2>2. CASE call[c].op # "create"
    <3>1. call[c].op = "alloc" /\ call[c].sym \in Symbols
      BY <1>1, <1>2, <2>2 DEF Pushing, CallTypes
    <3> DEFINE next == [op |-> "alloc", pool |-> call[c].pool, sym |-> call[c].sym]
    <3>2. next \in Fetching /\ next.op = "alloc" /\ next.sym \in Symbols
      BY <1>3, <3>1 DEF Fetching
    <3>3. Goto(c, "retry", next)
      BY <2>2 DEF SlabPush
    <3> HIDE DEF next
    <3> QED
      BY <3>2, <3>3
  <2> QED
    BY <2>1, <2>2
<1>8. /\ CallTypes' /\ pc'[c] = label /\ label \in {"idle", "retry"}
      /\ \A d \in Cpus : d # c => pc'[d] = pc[d] /\ call'[d] = call[d]
  BY <1>1, <1>7, GotoCalls
<1> DEFINE m == [x \in SlabPlaces' |->
                   IF x = <<p, 1>> THEN <<c, 0>>
                   ELSE IF x[1] = p /\ x[2] # 0 THEN <<p, x[2] - 1>> ELSE x]
<1>9. \A x : x \in SlabPlaces <=>
         \/ \E q \in Pools : \E i \in 1 .. Len(slabs[q]) : x = <<q, i>>
         \/ \E d \in Cpus : pc[d] = "push" /\ x = <<d, 0>>
  BY <1>1, PlacesAre DEF PlacesInv
<1>10. \A x : x \in SlabPlaces' <=>
         \/ \E q \in Pools : \E i \in 1 .. Len(slabs'[q]) : x = <<q, i>>
         \/ \E d \in Cpus : pc'[d] = "push" /\ x = <<d, 0>>
  BY <1>6, SlabPlacesNext
<1>11. ASSUME NEW x \in SlabPlaces'
       PROVE  \/ x = <<p, 1>> /\ m[x] = <<c, 0>>
              \/ \E j \in 1 .. n : x = <<p, j + 1>> /\ m[x] = <<p, j>>
              \/ \E q \in Pools : q # p /\ \E j \in 1 .. Len(slabs[q]) :
                                           x = <<q, j>> /\ m[x] = x
              \/ \E d \in Cpus : d # c /\ pc[d] = "push" /\ x = <<d, 0>> /\ m[x] = x
  <2>1. m[x] = IF x = <<p, 1>> THEN <<c, 0>>
               ELSE IF x[1] = p /\ x[2] # 0 THEN <<p, x[2] - 1>> ELSE x
    OBVIOUS
  <2> HIDE DEF m
  <2>2. CASE x = <<p, 1>>
    BY <2>1, <2>2
  <2>3. ASSUME NEW i \in 1 .. n + 1, x = <<p, i>>, i # 1
        PROVE  \E j \in 1 .. n : x = <<p, j + 1>> /\ m[x] = <<p, j>>
    <3>1. i - 1 \in 1 .. n /\ (i - 1) + 1 = i /\ i # 0
      BY <2>3
    <3>2. m[x] = <<p, i - 1>>
      BY <2>1, <2>3, <3>1
    <3> QED
      BY <2>3, <3>1, <3>2
  <2>4. ASSUME NEW q \in Pools, q # p, NEW j \in 1 .. Len(slabs'[q]), x = <<q, j>>
        PROVE  \E i \in 1 .. Len(slabs[q]) : x = <<q, i>> /\ m[x] = x
    <3>1. j \in 1 .. Len(slabs[q]) /\ x # <<p, 1>> /\ x[1] # p
      BY <1>6, <2>4
    <3> QED
      BY <2>1, <2>4, <3>1
  <2>5. ASSUME NEW d \in Cpus, pc'[d] = "push", x = <<d, 0>>
        PROVE  d # c /\ pc[d] = "push" /\ m[x] = x
    <3>1. d # c /\ pc[d] = "push"
      BY <1>8, <2>5
    <3>2. x # <<p, 1>> /\ x[2] = 0
      BY <2>5
    <3> QED
      BY <2>1, <3>1, <3>2
  <2>6. \/ \E q \in Pools : \E i \in 1 .. Len(slabs'[q]) : x = <<q, i>>
        \/ \E d \in Cpus : pc'[d] = "push" /\ x = <<d, 0>>
    BY <1>10
  <2>7. CASE \E d \in Cpus : pc'[d] = "push" /\ x = <<d, 0>>
    BY <2>5, <2>7
  <2>8. ASSUME NEW q \in Pools, NEW i \in 1 .. Len(slabs'[q]), x = <<q, i>>
        PROVE  \/ x = <<p, 1>> /\ m[x] = <<c, 0>>
               \/ \E j \in 1 .. n : x = <<p, j + 1>> /\ m[x] = <<p, j>>
               \/ q # p /\ \E j \in 1 .. Len(slabs[q]) : x = <<q, j>> /\ m[x] = x
    <3>1. CASE q # p
      BY <2>4, <2>8, <3>1
    <3>2. CASE q = p /\ i = 1
      BY <2>1, <2>8, <3>2
    <3>3. CASE q = p /\ i # 1
      BY <1>6, <2>3, <2>8, <3>3
    <3> QED
      BY <3>1, <3>2, <3>3
  <2> QED
    BY <2>6, <2>7, <2>8
<1>12. DOMAIN m = SlabPlaces'
  OBVIOUS
<1> HIDE DEF m
<1>13. ASSUME NEW x \in SlabPlaces'
       PROVE  /\ m[x] \in SlabPlaces /\ SlabAt(x)' = SlabAt(m[x])
              /\ x[2] = 0 => m[x][2] = 0
  <2>1. CASE x = <<p, 1>> /\ m[x] = <<c, 0>>
    <3>1. SlabAt(x)' = slabs'[p][1] /\ SlabAt(m[x]) = call[c].slab
      BY <2>1 DEF SlabAt
    <3> QED
      BY <1>2, <1>3, <1>6, <1>9, <2>1, <3>1
  <2>2. ASSUME NEW j \in 1 .. n, x = <<p, j + 1>>, m[x] = <<p, j>>
        PROVE  /\ m[x] \in SlabPlaces /\ SlabAt(x)' = SlabAt(m[x])
               /\ x[2] = 0 => m[x][2] = 0
    <3>1. j # 0 /\ j + 1 # 0
      OBVIOUS
    <3>2. SlabAt(x)' = slabs'[p][j + 1] /\ SlabAt(m[x]) = slabs[p][j]
      BY <2>2, <3>1 DEF SlabAt
    <3> QED
      BY <1>5, <1>6, <1>9, <2>2, <3>1, <3>2
  <2>3. ASSUME NEW q \in Pools, q # p, NEW j \in 1 .. Len(slabs[q]),
               x = <<q, j>>, m[x] = x
        PROVE  /\ m[x] \in SlabPlaces /\ SlabAt(x)' = SlabAt(m[x])
               /\ x[2] = 0 => m[x][2] = 0
    <3>1. SlabAt(x)' = slabs'[q][j] /\ SlabAt(m[x]) = slabs[q][j]
      BY <2>3 DEF SlabAt
    <3> QED
      BY <1>6, <1>9, <2>3, <3>1
  <2>4. ASSUME NEW d \in Cpus, d # c, pc[d] = "push", x = <<d, 0>>, m[x] = x
        PROVE  /\ m[x] \in SlabPlaces /\ SlabAt(x)' = SlabAt(m[x])
               /\ x[2] = 0 => m[x][2] = 0
    <3>1. SlabAt(x)' = call'[d].slab /\ SlabAt(m[x]) = call[d].slab
      BY <2>4 DEF SlabAt
    <3> QED
      BY <1>8, <1>9, <2>4, <3>1
  <2> QED
    BY <1>11, <2>1, <2>2, <2>3, <2>4
<1>14. m \in [SlabPlaces' -> SlabPlaces]
  <2>1. m = [x \in SlabPlaces' |-> m[x]]
    BY DEF m
  <2> QED
    BY <1>13, <2>1
<1> DEFINE back(y) == IF y = <<c, 0>> THEN <<p, 1>>
                      ELSE IF y[1] = p /\ y[2] # 0 THEN <<p, y[2] + 1>> ELSE y
<1>15. \A x, y \in SlabPlaces' : m[x] = m[y] => x = y
  <2>1. ASSUME NEW x \in SlabPlaces' PROVE x = back(m[x])
    <3>1. CASE x = <<p, 1>> /\ m[x] = <<c, 0>>
      BY <3>1
    <3>2. ASSUME NEW j \in 1 .. n, x = <<p, j + 1>>, m[x] = <<p, j>>
          PROVE  x = back(m[x])
      <4>1. j # 0 /\ m[x] # <<c, 0>>
        BY <3>2
      <4> QED
        BY <3>2, <4>1
    <3>3. ASSUME NEW q \in Pools, q # p, NEW j \in 1 .. Len(slabs[q]),
                 x = <<q, j>>, m[x] = x
          PROVE  x = back(m[x])
      <4>1. j # 0
        OBVIOUS
      <4>2. x # <<c, 0>> /\ x[1] # p
        BY <3>3, <4>1
      <4> QED
        BY <3>3, <4>2
    <3>4. ASSUME NEW d \in Cpus, d # c, x = <<d, 0>>, m[x] = x
          PROVE  x = back(m[x])
      <4>1. x # <<c, 0>> /\ x[2] = 0
        BY <3>4
      <4> QED
        BY <3>4, <4>1
    <3> HIDE DEF back
    <3> QED
      BY <1>11, <3>1, <3>2, <3>3, <3>4
  <2> HIDE DEF back
  <2> QED
    BY <2>1
<1>16. ASSUME NEW y \in SlabPlaces PROVE \E x \in SlabPlaces' : m[x] = y
  <2>1. ASSUME NEW j \in 1 .. n, y = <<p, j>> PROVE \E x \in SlabPlaces' : m[x] = y
    <3>1. <<p, j + 1>> \in SlabPlaces' /\ j + 1 # 1 /\ j + 1 # 0 /\ (j + 1) - 1 = j
      BY <1>6, <1>10
    <3>2. m[<<p, j + 1>>] = <<p, j>>
      BY <3>1 DEF m
    <3> QED
      BY <2>1, <3>1, <3>2
  <2>2. ASSUME NEW q \in Pools, q # p, NEW j \in 1 .. Len(slabs[q]), y = <<q, j>>
        PROVE  \E x \in SlabPlaces' : m[x] = y
    <3>1. y \in SlabPlaces' /\ y # <<p, 1>> /\ y[1] # p
      BY <1>6, <1>10, <2>2
    <3>2. m[y] = y
      BY <3>1 DEF m
    <3> QED
      BY <3>1, <3>2
  <2>3. ASSUME NEW d \in Cpus, pc[d] = "push", y = <<d, 0>>
        PROVE  \E x \in SlabPlaces' : m[x] = y
    <3>1. CASE d = c
      <4>1. 1 \in 1 .. Len(slabs'[p])
        BY <1>6
      <4>2. <<p, 1>> \in SlabPlaces'
        BY <1>10, <4>1
      <4>3. m[<<p, 1>>] = <<c, 0>>
        BY <4>2 DEF m
      <4> QED
        BY <2>3, <3>1, <4>2, <4>3
    <3>2. CASE d # c
      <4>1. y \in SlabPlaces' /\ y # <<p, 1>> /\ y[2] = 0
        BY <1>8, <1>10, <2>3, <3>2
      <4>2. m[y] = y
        BY <4>1 DEF m
      <4> QED
        BY <4>1, <4>2
    <3> QED
      BY <3>1, <3>2
  <2>4. CASE \E q \in Pools : \E i \in 1 .. Len(slabs[q]) : y = <<q, i>>
    BY <1>5, <2>1, <2>2, <2>4
  <2> QED
    BY <1>9, <2>3, <2>4
<1>17. SlabTypes'
  <2>1. ASSUME NEW x \in SlabPlaces' PROVE Within(Extent(SlabAt(x)), area.sbrk)'
    <3>1. Within(Extent(SlabAt(m[x])), area.sbrk)
      BY <1>1, <1>13 DEF SlabTypes
    <3>2. Extent(SlabAt(x))' = Extent(SlabAt(m[x]))
      BY <1>13 DEF Extent
    <3> QED
      BY <1>2, <3>1, <3>2 DEF Within
  <2> QED
    BY <1>6, <2>1 DEF SlabTypes
<1>18. KernelArea(area)' /\ area.sbrk <= area'.sbrk
  BY <1>1, <1>2
<1>19. \A d \in Cpus : pc'[d] \in {"free", "copy"} => pc'[d] = pc[d] /\ call'[d] = call[d]
  BY <1>8
<1>20. HeldTypes'
  <2>1. held' \subseteq Spans /\ \A d \in held' : d \in held \/ InUse(d, area'.sbrk)
    BY <1>1, <1>2 DEF HeldTypes
  <2>2. \A d \in Cpus : pc'[d] = "copy" =>
          \/ pc[d] = "copy" /\ call'[d] = call[d]
          \/ InUse(call'[d].block, area'.sbrk)
    BY <1>19
  <2> QED
    BY <1>1, <1>18, <2>1, <2>2, HeldStay
<1>21. Types'
  BY <1>1, <1>2, <1>8, <1>17, <1>18, <1>20 DEF Types
<1>22. ASSUME ~raced' PROVE Good'
  <2>1. Good
    BY <1>2, <1>22 DEF KmemInv, Good
  <2>2. Apart' /\ ObjectsInv'
    <3>1. area' = area
      BY <1>2
    <3>2. \A x \in SlabPlaces' : /\ SlabAt(x)' = SlabAt(m[x])
                                 /\ x[2] = 0 => m[x][2] = 0
      BY <1>13
    <3> QED
      BY <1>14, <1>15, <1>16, <2>1, <3>1, <3>2, MovedPlaces DEF Good
  <2>3. \A d \in Cpus : pc'[d] \in {"free", "copy"} =>
          /\ area'.table[call[d].sym] = area.table[call[d].sym]
          /\ area.table[call[d].sym] \notin held'
    BY <1>2, <1>19, <2>1 DEF Good, GrantsInv, Working, InHand
  <2>4. \A e \in held' : \E i \in Symbols : area'.table[i] = e
    BY <1>2, <2>1 DEF Good, GrantsInv
  <2>5. ASSUME NEW i \in Symbols, NEW a \in Nat, InEntry(i, a)
        PROVE  ~InSlabAt(<<c, 0>>, a)
    <3>1. <<c, 0>> \in SlabPlaces
      BY <1>2, <1>9
    <3> QED
      BY <2>1, <2>5, <3>1 DEF Good, ObjectsInv, Entered
  <2>6. ASSUME NEW q \in Pools, NEW a \in Nat, ~InSlabAt(<<c, 0>>, a)
        PROVE  PoolHas(q, a)' <=> PoolHas(q, a)
    <3>1. CASE q # p
      <4>1. ASSUME NEW i \in 1 .. Len(slabs[q])
            PROVE  InSlabAt(<<q, i>>, a)' <=> InSlabAt(<<q, i>>, a)
        BY <1>6, <3>1 DEF InSlabAt, SlabAt
      <4>2. slabs'[q] = slabs[q]
        BY <1>6, <3>1
      <4> QED
        BY <4>1, <4>2 DEF PoolHas
    <3>2. CASE q = p
      <4>1. ASSUME NEW j \in 1 .. n
            PROVE  /\ InSlabAt(<<p, j + 1>>, a)' <=> InSlabAt(<<p, j>>, a)
                   /\ j + 1 \in 1 .. n + 1
        <5>1. j # 0 /\ j + 1 # 0 /\ j + 1 \in 1 .. n + 1
          OBVIOUS
        <5>2. SlabAt(<<p, j + 1>>)' = slabs'[p][j + 1] /\ SlabAt(<<p, j>>) = slabs[p][j]
          BY <5>1 DEF SlabAt
        <5>3. SlabAt(<<p, j + 1>>)' = SlabAt(<<p, j>>)
          BY <1>6, <5>2
        <5> QED
          BY <5>1, <5>3 DEF InSlabAt, Extent
      <4>2. ~InSlabAt(<<p, 1>>, a)'
        <5>1. SlabAt(<<p, 1>>)' = slabs'[p][1] /\ SlabAt(<<c, 0>>) = call[c].slab
          BY DEF SlabAt
        <5> QED
          BY <1>3, <1>6, <2>6, <5>1 DEF InSlabAt, Extent
      <4>3. \A i \in 1 .. n + 1 : i = 1 \/ \E j \in 1 .. n : i = j + 1
        <5> TAKE i \in 1 .. n + 1
        <5>1. i = 1 \/ (i - 1 \in 1 .. n /\ i = (i - 1) + 1)
          OBVIOUS
        <5> QED
          BY <5>1
      <4>4. PoolHas(p, a)' <=> \E i \in 1 .. n + 1 : InSlabAt(<<p, i>>, a)'
        BY <1>6 DEF PoolHas
      <4>5. PoolHas(p, a) <=> \E i \in 1 .. n : InSlabAt(<<p, i>>, a)
        BY <1>5 DEF PoolHas
      <4> QED
        BY <3>2, <4>1, <4>2, <4>3, <4>4, <4>5
    <3> QED
      BY <3>1, <3>2
  <2>7. \A d \in Cpus : pc'[d] = "free" => \A q \in Pools, a \in Nat :
          InEntry(call[d].sym, a) => (PoolHas(q, a)' <=> PoolHas(q, a))
    <3> SUFFICES ASSUME NEW d \in Cpus, pc'[d] = "free", NEW q \in Pools, NEW a \in Nat,
                        InEntry(call[d].sym, a)
                 PROVE  PoolHas(q, a)' <=> PoolHas(q, a)
      OBVIOUS
    <3>1. call[d].sym \in Symbols
      BY <1>1, <1>19 DEF CallTypes, Freeing
    <3> QED
      BY <2>5, <2>6, <3>1
  <2>8. GrantsInv'
    BY <1>1, <1>19, <2>1, <2>3, <2>4, <2>7, GrantsFrame DEF Good
  <2> QED
    BY <2>2, <2>8 DEF Good
<1> QED
  BY <1>21, <1>22 DEF KmemInv, Good

-----------------------------------------------------------------------------
(* The invariant.                                                             *)

LEMMA KmemInit == Init => KmemInv
<1> SUFFICES ASSUME Init PROVE KmemInv
  OBVIOUS
<1>1. /\ area.table = [i \in Symbols |-> Unused] /\ area.free = <<Region(Base, Base)>>
      /\ area.sbrk = Base /\ area.end = Base
      /\ area = [table |-> area.table, free |-> area.free,
                 sbrk |-> area.sbrk, end |-> area.end]
  BY DEF Init, EmptyArea
<1>2. /\ slabs = [p \in Pools |-> <<>>] /\ pc = [c \in Cpus |-> "idle"]
      /\ call = [c \in Cpus |-> NoCall] /\ held = {} /\ raced = FALSE
  BY DEF Init
<1>3. /\ Base \in Nat /\ MaxAddr \in Nat /\ Base <= MaxAddr /\ Base % PageSize = 0
      /\ PageSize \in Nat \ {0}
  BY KmemAssumption, RegionsAssumption
<1>4. PICK r \in Spans : r = Region(Base, Base) /\ r.from = Base /\ r.to = Base
  <2>1. Region(Base, Base).from = Base /\ Region(Base, Base).to = Base
    BY DEF Region
  <2>2. Region(Base, Base) \in Spans
    BY <1>3 DEF Region, Spans
  <2> QED
    BY <2>1, <2>2
<1>5. /\ area.free \in Seq(Spans) /\ Len(area.free) = 1 /\ area.free[1] = r
      /\ area.free # <<>>
  BY <1>1, <1>4
<1>6. area.table \in [Symbols -> Spans] /\ \A i \in Symbols : area.table[i] = Unused
  BY <1>1, UnusedProperties
<1>7. area \in Areas
  BY <1>1, <1>3, <1>5, <1>6 DEF Areas
<1>8. KernelArea(area)
  <2>1. \A k \in 1 .. Len(area.free) :
          area.free[k].to <= area.sbrk /\ Within(area.free[k], area.sbrk)
    BY <1>1, <1>3, <1>4, <1>5 DEF Within
  <2>2. AreaShape(area)
    BY <1>1, <1>3, <1>5, <1>7, <2>1 DEF AreaShape
  <2> QED
    BY <1>1, <1>3, <1>6, <2>1, <2>2 DEF KernelArea
<1>9. CallTypes
  BY <1>2 DEF CallTypes, Calls
<1>10. SlabPlaces = {}
  BY <1>2 DEF SlabPlaces
<1>11. SlabTypes
  <2>1. slabs \in [Pools -> Seq(SlabType)]
    BY <1>2
  <2> QED
    BY <1>10, <2>1 DEF SlabTypes
<1>12. Types
  BY <1>2, <1>8, <1>9, <1>11 DEF Types, HeldTypes
<1>13. \A i \in Symbols, a \in Nat : ~InEntry(i, a)
  BY <1>6, UnusedProperties DEF InEntry
<1>14. Apart
  <2>1. Disjoint(area.free)
    BY <1>3, <1>4, <1>5 DEF Disjoint, In
  <2>2. \A a \in Nat : Base <= a => Available(area, a)
    BY <1>1 DEF Available
  <2> QED
    BY <1>10, <1>13, <2>1, <2>2 DEF Apart
<1>15. ObjectsInv
  BY <1>10 DEF ObjectsInv
<1>16. GrantsInv
  BY <1>2 DEF GrantsInv, Working
<1> QED
  BY <1>12, <1>14, <1>15, <1>16 DEF KmemInv

LEMMA KmemNext == KmemInv /\ [Next]_vars => KmemInv'
<1> SUFFICES ASSUME KmemInv, [Next]_vars PROVE KmemInv'
  OBVIOUS
<1>1. CASE UNCHANGED vars
  <2>1. /\ Types /\ CallTypes /\ SlabTypes /\ HeldTypes
        /\ UNCHANGED <<area, slabs>> /\ pc' = pc /\ call' = call /\ held' = held
        /\ raced' = raced /\ raced \in BOOLEAN /\ KernelArea(area)
    BY <1>1 DEF KmemInv, Types, vars
  <2>2. CallTypes'
    BY <2>1 DEF CallTypes
  <2>3. /\ Types' /\ SlabPlaces' = SlabPlaces
        /\ \A x \in SlabPlaces : SlabAt(x)' = SlabAt(x)
    <3>1. held' \subseteq Spans /\ \A d \in held' : d \in held \/ InUse(d, area.sbrk)
      BY <2>1 DEF HeldTypes
    <3>2. \A d \in Cpus : /\ pc'[d] = "push" <=> pc[d] = "push"
                          /\ pc[d] = "push" => call'[d] = call[d]
      BY <2>1
    <3>3. \A d \in Cpus : pc'[d] = "copy" =>
            \/ pc[d] = "copy" /\ call'[d] = call[d]
            \/ InUse(call'[d].block, area.sbrk)
      BY <2>1
    <3>4. raced' \in BOOLEAN
      BY <2>1
    <3> QED
      BY <2>1, <2>2, <3>1, <3>2, <3>3, <3>4, StillTypes
  <2>4. ASSUME ~raced' PROVE Good'
    <3>1. Good
      BY <2>1, <2>4 DEF KmemInv, Good
    <3>2. Apart' /\ ObjectsInv'
      BY <2>1, <2>3, <3>1, SameMemory DEF Good
    <3>3. \A d \in Cpus : pc'[d] \in {"free", "copy"} =>
            /\ area'.table[call[d].sym] = area.table[call[d].sym]
            /\ area.table[call[d].sym] \notin held'
      BY <2>1, <3>1 DEF Good, GrantsInv, Working, InHand
    <3>4. \A b \in held' : \E i \in Symbols : area'.table[i] = b
      BY <2>1, <3>1 DEF Good, GrantsInv
    <3>5. \A p \in Pools, a \in Nat : PoolHas(p, a)' <=> PoolHas(p, a)
      BY <2>1, SamePools
    <3>6. \A d \in Cpus : pc'[d] \in {"free", "copy"} =>
            pc'[d] = pc[d] /\ call'[d] = call[d]
      BY <2>1
    <3>7. GrantsInv'
      BY <2>1, <3>1, <3>3, <3>4, <3>5, <3>6, GrantsFrame DEF Good
    <3> QED
      BY <3>2, <3>7 DEF Good
  <2> QED
    BY <2>3, <2>4 DEF KmemInv, Good
<1>2. ASSUME NEW c \in Cpus, NEW n \in Sizes, Kmalloc(c, n) PROVE KmemInv'
  BY <1>2, KmallocStep
<1>3. ASSUME NEW c \in Cpus, NEW p \in Pools, CreatePool(c, p) PROVE KmemInv'
  <2> DEFINE locals == [op |-> "create", pool |-> p, sym |-> NoSymbol]
  <2>1. locals \in Fetching /\ locals.op # "alloc"
    BY DEF Fetching
  <2>2. /\ pc[c] = "idle" /\ Goto(c, "region", locals)
        /\ UNCHANGED <<area, slabs, held, raced>>
    BY <1>3 DEF CreatePool
  <2> HIDE DEF locals
  <2>3. pc[c] \notin {"push", "free", "copy"}
    BY <2>2
  <2> QED
    BY <2>1, <2>2, <2>3, FetchStep
<1>4. ASSUME NEW c \in Cpus, NEW p \in Pools, CacheAlloc(c, p) PROVE KmemInv'
  <2>1. pc[c] \notin {"push", "free", "copy"} /\ NextSymbol(area) \in Symbols
    BY <1>4, NextSymbolProperties DEF CacheAlloc
  <2>2. CASE Stocked(p) # {}
    <3>1. TakeObject(c, p, NextSymbol(area))
      BY <1>4, <2>2 DEF CacheAlloc
    <3> QED
      BY <2>1, <2>2, <3>1, TakeStep
  <2>3. CASE Stocked(p) = {}
    <3> DEFINE locals == [op |-> "alloc", pool |-> p, sym |-> NextSymbol(area)]
    <3>1. locals \in Fetching /\ locals.sym \in Symbols
      BY <2>1 DEF Fetching
    <3>2. Goto(c, "region", locals) /\ UNCHANGED <<area, slabs, held, raced>>
      BY <1>4, <2>3 DEF CacheAlloc
    <3> HIDE DEF locals
    <3> QED
      BY <2>1, <3>1, <3>2, FetchStep
  <2> QED
    BY <2>2, <2>3
<1>5. ASSUME NEW c \in Cpus, CacheRetry(c) PROVE KmemInv'
  <2>1. /\ pc[c] \notin {"push", "free", "copy"} /\ call[c] \in Fetching
        /\ call[c].sym \in Symbols /\ call[c].pool \in Pools
    BY <1>5 DEF CacheRetry, KmemInv, Types, CallTypes, Fetching
  <2>2. CASE Stocked(call[c].pool) # {}
    <3>1. TakeObject(c, call[c].pool, call[c].sym)
      BY <1>5, <2>2 DEF CacheRetry
    <3> QED
      BY <2>1, <2>2, <3>1, TakeStep
  <2>3. CASE Stocked(call[c].pool) = {}
    <3>1. Goto(c, "region", call[c]) /\ UNCHANGED <<area, slabs, held, raced>>
      BY <1>5, <2>3 DEF CacheRetry
    <3> QED
      BY <2>1, <3>1, FetchStep
  <2> QED
    BY <2>2, <2>3
<1> QED
  BY <1>1, <1>2, <1>3, <1>4, <1>5, FreeLookupStep, CopyLookupStep, SlabRegionStep,
     SlabPushStep, KfreeStep, CacheFreeStep, CopyEndStep DEF Next

LEMMA KmemInvHolds == Spec => []KmemInv
BY KmemInit, KmemNext, PTL DEF Spec

-----------------------------------------------------------------------------
(* The properties.                                                            *)

\* Every block, slab and list of kernel memory lies within the area that was
\* handed out, and a CPU is in a call when it is on its way (k_init_mm and the
\* calls of libmem.c), whether or not a refill has raced for a symbol.
THEOREM KmemTypes == Spec => []TypeOK
<1>1. KmemInv => TypeOK
  <2> SUFFICES ASSUME KmemInv PROVE TypeOK
    OBVIOUS
  <2>1. /\ CallTypes /\ KernelArea(area) /\ SlabTypes /\ HeldTypes /\ raced \in BOOLEAN
        /\ area.table \in [Symbols -> Spans] /\ area.free \in Seq(Spans)
        /\ area.free # <<>> /\ area.sbrk \in Nat /\ Base <= area.sbrk
        /\ area.sbrk <= MaxAddr /\ area.sbrk <= area.end
        /\ area.end < area.sbrk + PageSize
    BY DEF KmemInv, Types, KernelArea, AreaShape, Areas
  <2>2. Base \in Nat \ {0} /\ MaxAddr \in Nat /\ PoolSize \in Nat
    BY KmemAssumption
  <2>3. ASSUME NEW r \in Spans, Within(r, area.sbrk) PROVE r \in Block
    <3>1. /\ r \in [from : Nat, to : Nat]
          /\ r.from \in Base .. MaxAddr /\ r.to \in Base .. MaxAddr
      BY <2>1, <2>2, <2>3 DEF Spans, Within
    <3> QED
      BY <3>1 DEF Block
  <2>4. area.table \in [Symbols -> Block \cup {Unused}]
    <3>1. \A i \in Symbols : area.table[i] \in Block \cup {Unused}
      BY <2>1, <2>3 DEF KernelArea, InUse
    <3> QED
      BY <2>1, <3>1
  <2>5. area.free \in Seq(Block)
    <3>1. /\ Len(area.free) \in Nat
          /\ area.free \in [1 .. Len(area.free) -> Spans]
      BY <2>1, LenProperties
    <3>2. area.free \in [1 .. Len(area.free) -> Block]
      BY <2>1, <2>3, <3>1 DEF KernelArea
    <3> QED
      BY <3>1, <3>2, SeqDef
  <2>6. slabs \in [Pools -> Seq(Slab)]
    <3>1. ASSUME NEW p \in Pools PROVE slabs[p] \in Seq(Slab)
      <4>1. /\ Len(slabs[p]) \in Nat /\ slabs[p] \in [1 .. Len(slabs[p]) -> SlabType]
        BY <2>1, LenProperties DEF SlabTypes
      <4>2. ASSUME NEW i \in 1 .. Len(slabs[p]) PROVE slabs[p][i] \in Slab
        <5>1. /\ slabs[p][i] \in SlabType /\ <<p, i>> \in SlabPlaces
              /\ SlabAt(<<p, i>>) = slabs[p][i]
          BY <2>1, <4>1, PlacesAre DEF PlacesInv
        <5>2. Within(Extent(slabs[p][i]), area.sbrk) /\ slabs[p][i].addr \in Nat
          BY <2>1, <5>1 DEF SlabTypes, SlabType
        <5>3. slabs[p][i].addr \in 1 .. MaxAddr
          BY <2>1, <2>2, <5>2, ObjectProperties DEF Within
        <5> QED
          BY <5>1, <5>3 DEF SlabType, Slab, Objects
      <4>3. slabs[p] \in [1 .. Len(slabs[p]) -> Slab]
        BY <4>1, <4>2
      <4> QED
        BY <4>1, <4>3, SeqDef
    <3> QED
      BY <2>1, <3>1 DEF SlabTypes
  <2>7. \A c \in Cpus : pc[c] = "idle" <=> call[c] = NoCall
    <3> TAKE c \in Cpus
    <3>1. pc[c] # "idle" => call[c].op # "none"
      BY <2>1 DEF CallTypes, Fetching, Pushing, Freeing, Copies
    <3>2. pc[c] = "idle" => call[c] = NoCall
      BY <2>1 DEF CallTypes
    <3>3. NoCall.op = "none"
      BY DEF NoCall
    <3> QED
      BY <3>1, <3>2, <3>3
  <2>8. held \subseteq Block
    BY <2>1, <2>3 DEF HeldTypes, InUse
  <2>9. area.sbrk \in Base .. MaxAddr
    BY <2>1, <2>2
  <2>10. pc \in [Cpus -> {"idle", "region", "push", "retry", "free", "copy"}]
    BY <2>1 DEF CallTypes
  <2> QED
    BY <2>1, <2>4, <2>5, <2>6, <2>7, <2>8, <2>9, <2>10 DEF TypeOK
<1> QED
  BY <1>1, KmemInvHolds, PTL

\* Until a refill has raced for a symbol, every address below sbrk is in exactly
\* one of a kmalloc region, a free region and a slab (__kmalloc, __kfree and the
\* two locks of __slab_alloc).
THEOREM KernelMemoryPartitioned == Spec => []KernelPartition
<1>1. KmemInv => KernelPartition
  <2> SUFFICES ASSUME KmemInv, ~raced PROVE KernelPartition
    BY DEF KernelPartition
  <2>1. /\ CallTypes /\ KernelArea(area) /\ SlabTypes /\ Good
        /\ area.table \in [Symbols -> Spans] /\ area.free \in Seq(Spans)
        /\ area.sbrk \in Nat /\ Base \in Nat
    BY KmemAssumption DEF KmemInv, Types, KernelArea, AreaShape, Areas, Good
  <2>2. /\ DOMAIN area.free = 1 .. Len(area.free)
        /\ \A j \in 1 .. Len(area.free) :
             area.free[j] \in Spans /\ Within(area.free[j], area.sbrk)
    BY <2>1, ListType DEF KernelArea
  <2>3. \A x \in SlabPlaces : /\ Extent(SlabAt(x)) \in Spans
                              /\ Within(Extent(SlabAt(x)), area.sbrk)
    <3> TAKE x \in SlabPlaces
    <3>1. SlabAt(x).addr \in Nat
      BY <2>1, SlabIsTyped DEF SlabType
    <3> QED
      BY <2>1, <3>1, ObjectProperties DEF SlabTypes
  <2>4. \A i \in Symbols : area.table[i] \in Spans
    BY <2>1
  <2>5. \A i, j \in Symbols : i # j => ~Overlap(area.table[i], area.table[j])
    BY <2>1, <2>4, OverlapMeans DEF Good, Apart, InEntry
  <2>6. \A i, j \in DOMAIN area.free : i # j => ~Overlap(area.free[i], area.free[j])
    BY <2>1, <2>2, OverlapMeans DEF Good, Apart, Disjoint
  <2>7. \A x, y \in SlabPlaces : x # y => ~Overlap(Extent(SlabAt(x)), Extent(SlabAt(y)))
    BY <2>1, <2>3, OverlapMeans DEF Good, Apart, InSlabAt
  <2>8. \A j \in DOMAIN area.free, a \in Nat : In(area.free[j], a) => Available(area, a)
    BY <2>2 DEF Available, Holds
  <2>9. ASSUME NEW j \in DOMAIN area.free
        PROVE  /\ ~InSlab(area.free[j])
               /\ \A i \in PlainRegions : ~Overlap(area.table[i], area.free[j])
    <3>1. \A x \in SlabPlaces : ~Overlap(area.free[j], Extent(SlabAt(x)))
      <4> TAKE x \in SlabPlaces
      <4>1. \A a \in Nat : In(area.free[j], a) => ~In(Extent(SlabAt(x)), a)
        BY <2>1, <2>8 DEF Good, Apart, InSlabAt
      <4> QED
        BY <2>2, <2>3, <4>1, OverlapMeans
    <3>2. \A i \in Symbols : ~Overlap(area.table[i], area.free[j])
      <4> TAKE i \in Symbols
      <4>1. \A a \in Nat : In(area.free[j], a) => ~In(area.table[i], a)
        BY <2>1, <2>8 DEF Good, Apart, InEntry
      <4> QED
        BY <2>2, <2>4, <4>1, OverlapMeans
    <3> QED
      BY <3>1, <3>2 DEF InSlab, PlainRegions
  <2> DEFINE U == UNION ({Addresses(area.table[i]) : i \in PlainRegions}
                         \cup {Addresses(area.free[j]) : j \in DOMAIN area.free}
                         \cup {Addresses(Extent(SlabAt(x))) : x \in SlabPlaces})
  <2>10. \A a : a \in U <=>
           \/ \E i \in PlainRegions : a \in Addresses(area.table[i])
           \/ \E j \in DOMAIN area.free : a \in Addresses(area.free[j])
           \/ \E x \in SlabPlaces : a \in Addresses(Extent(SlabAt(x)))
    OBVIOUS
  <2>11. \A a : a \in U <=>
           /\ a \in Nat
           /\ \/ \E i \in PlainRegions : InEntry(i, a)
              \/ \E j \in DOMAIN area.free : In(area.free[j], a)
              \/ \E x \in SlabPlaces : InSlabAt(x, a)
    <3> HIDE DEF U
    <3> TAKE a
    <3>1. \A i \in PlainRegions : a \in Addresses(area.table[i]) <=>
            a \in Nat /\ InEntry(i, a)
      BY <2>4, AddressesOf DEF PlainRegions, InEntry
    <3>2. \A j \in DOMAIN area.free : a \in Addresses(area.free[j]) <=>
            a \in Nat /\ In(area.free[j], a)
      BY <2>2, AddressesOf
    <3>3. \A x \in SlabPlaces : a \in Addresses(Extent(SlabAt(x))) <=>
            a \in Nat /\ InSlabAt(x, a)
      BY <2>3, AddressesOf DEF InSlabAt
    <3> QED
      BY <2>10, <3>1, <3>2, <3>3
  <2> HIDE DEF U
  <2>12. ASSUME NEW a \in Base .. area.sbrk - 1 PROVE a \in U
    <3>1. a \in Nat /\ Base <= a /\ a < area.sbrk
      BY <2>1
    <3>2. CASE Available(area, a)
      BY <2>1, <2>2, <2>11, <3>1, <3>2 DEF Available, Holds
    <3>3. ASSUME NEW i \in Symbols, InEntry(i, a) PROVE a \in U
      <4>1. area.table[i] # Unused
        BY <3>1, <3>3, UnusedProperties DEF InEntry
      <4>2. CASE InSlab(area.table[i])
        <5>1. PICK x \in SlabPlaces : Overlap(area.table[i], Extent(SlabAt(x)))
          BY <4>2 DEF InSlab
        <5>2. PICK z \in Nat : InEntry(i, z) /\ InSlabAt(x, z)
          BY <2>3, <2>4, <5>1, OverlapMeans DEF InEntry, InSlabAt
        <5>3. PICK k \in Objects : area.table[i] = ObjectAt(SlabAt(x), k)
          BY <2>1, <5>2 DEF Good, ObjectsInv
        <5>4. InSlabAt(x, a)
          BY <2>1, <3>1, <3>3, <5>3, SlabIsTyped DEF InEntry
        <5> QED
          BY <2>11, <3>1, <5>4
      <4>3. CASE ~InSlab(area.table[i])
        BY <2>11, <3>1, <3>3, <4>1, <4>3 DEF PlainRegions
      <4> QED
        BY <4>2, <4>3
    <3>4. CASE \E x \in SlabPlaces : InSlabAt(x, a)
      BY <2>11, <3>1, <3>4
    <3> QED
      BY <2>1, <3>1, <3>2, <3>3, <3>4 DEF Good, Apart
  <2>13. ASSUME NEW a \in U PROVE a \in Base .. area.sbrk - 1
    <3>1. a \in Nat
      BY <2>11
    <3>2. ASSUME NEW r \in Spans, Within(r, area.sbrk), In(r, a)
          PROVE  a \in Base .. area.sbrk - 1
      BY <2>1, <3>1, <3>2 DEF Within, In, Spans
    <3>3. ASSUME NEW i \in PlainRegions, InEntry(i, a) PROVE a \in Base .. area.sbrk - 1
      <4>1. i \in Symbols /\ Within(area.table[i], area.sbrk)
        BY <2>1 DEF PlainRegions, KernelArea, InUse
      <4> QED
        BY <2>4, <3>2, <3>3, <4>1 DEF InEntry
    <3>4. ASSUME NEW j \in DOMAIN area.free, In(area.free[j], a)
          PROVE  a \in Base .. area.sbrk - 1
      BY <2>2, <3>2, <3>4
    <3>5. ASSUME NEW x \in SlabPlaces, InSlabAt(x, a) PROVE a \in Base .. area.sbrk - 1
      BY <2>3, <3>2, <3>5 DEF InSlabAt
    <3> QED
      BY <2>11, <3>3, <3>4, <3>5
  <2>14. Base .. area.sbrk - 1 = U
    BY <2>12, <2>13
  <2>15. \A i, j \in PlainRegions : i # j => ~Overlap(area.table[i], area.table[j])
    BY <2>5 DEF PlainRegions
  <2> QED
    BY <2>6, <2>7, <2>9, <2>14, <2>15 DEF KernelPartition, U
<1> QED
  BY <1>1, KmemInvHolds, PTL

\* Until then an object of a slab is free once or in the table once, never both
\* and never neither (__kmem_cache_alloc, __kmem_cache_free).
THEOREM SlabObjectsConserved == Spec => []ObjectsConserved
<1>1. KmemInv => ObjectsConserved
  <2> SUFFICES ASSUME KmemInv, ~raced, NEW p \in Pools, NEW i \in DOMAIN slabs[p],
                      NEW k \in 0 .. NumObjects - 1
               PROVE  Cardinality({m \in DOMAIN slabs[p][i].avail :
                                     slabs[p][i].avail[m] = k})
                      + Cardinality({y \in Symbols :
                                       area.table[y] = ObjectAt(slabs[p][i], k)}) = 1
    BY DEF ObjectsConserved
  <2>1. CallTypes /\ KernelArea(area) /\ SlabTypes /\ Good /\ k \in Objects
    BY DEF KmemInv, Types, Good, Objects
  <2> DEFINE x == <<p, i>>
  <2>2. x \in SlabPlaces /\ SlabAt(x) = slabs[p][i] /\ slabs[p][i] \in SlabType
    <3>1. i \in 1 .. Len(slabs[p])
      BY <2>1, LenProperties DEF SlabTypes
    <3> QED
      BY <2>1, <3>1, PlacesAre, ElementOfSeq DEF PlacesInv, SlabTypes
  <2>3. PICK f \in Seq(Objects), o \in Spans :
          /\ f = SlabAt(x).avail /\ o = ObjectAt(SlabAt(x), k)
          /\ In(o, o.from) /\ o.from \in Nat /\ DOMAIN f = 1 .. Len(f)
    <3>1. SlabAt(x).avail \in Seq(Objects)
      BY <2>2 DEF SlabType
    <3>2. /\ ObjectAt(SlabAt(x), k) \in Spans
          /\ In(ObjectAt(SlabAt(x), k), ObjectAt(SlabAt(x), k).from)
      BY <2>1, <2>2, SlabIsTyped
    <3>3. ObjectAt(SlabAt(x), k).from \in Nat
      BY <3>2 DEF Spans
    <3>4. DOMAIN SlabAt(x).avail = 1 .. Len(SlabAt(x).avail)
      BY <3>1, LenProperties
    <3> QED
      BY <3>1, <3>2, <3>3, <3>4
  <2> DEFINE A == {m \in 1 .. Len(f) : f[m] = k}
             B == {y \in Symbols : area.table[y] = o}
  <2>4. /\ OnceIn(f)
        /\ (\E m \in 1 .. Len(f) : f[m] = k) <=> ~\E y \in Symbols : area.table[y] = o
    <3>1. OnceIn(SlabAt(x).avail) /\ (Kept(x, k) <=> ~Entered(x, k))
      BY <2>1, <2>2 DEF Good, ObjectsInv
    <3> HIDE DEF x
    <3>2. Kept(x, k) <=> \E m \in 1 .. Len(f) : f[m] = k
      BY <2>3 DEF Kept
    <3>3. Entered(x, k) <=> \E y \in Symbols : area.table[y] = o
      BY <2>3 DEF Entered
    <3> QED
      BY <2>3, <3>1, <3>2, <3>3
  <2>5. \A y, z \in Symbols : area.table[y] = o /\ area.table[z] = o => y = z
    BY <2>1, <2>3 DEF Good, Apart, InEntry
  <2>6. Cardinality(A) + Cardinality(B) = 1
    <3>1. CASE \E m \in 1 .. Len(f) : f[m] = k
      <4>1. PICK m \in 1 .. Len(f) : f[m] = k
        BY <3>1
      <4>2. A = {m} /\ B = {}
        BY <2>4, <4>1 DEF OnceIn
      <4>3. Cardinality({m}) = 1 /\ Cardinality({}) = 0
        BY FS_Singleton, FS_EmptySet
      <4> HIDE DEF A, B
      <4> QED
        BY <4>2, <4>3
    <3>2. CASE ~\E m \in 1 .. Len(f) : f[m] = k
      <4>1. PICK y \in Symbols : area.table[y] = o
        BY <2>4, <3>2
      <4>2. A = {} /\ B = {y}
        BY <2>5, <3>2, <4>1
      <4>3. Cardinality({y}) = 1 /\ Cardinality({}) = 0
        BY FS_Singleton, FS_EmptySet
      <4> HIDE DEF A, B
      <4> QED
        BY <4>2, <4>3
    <3> QED
      BY <3>1, <3>2
  <2>7. /\ A = {m \in DOMAIN slabs[p][i].avail : slabs[p][i].avail[m] = k}
        /\ B = {y \in Symbols : area.table[y] = ObjectAt(slabs[p][i], k)}
    BY <2>2, <2>3
  <2> HIDE DEF A, B
  <2> QED
    BY <2>6, <2>7
<1> QED
  BY <1>1, KmemInvHolds, PTL

\* Until then a block that a program was given and has not freed is in the table
\* under one symbol, blocks do not overlap, and the symbol that a copy has found
\* without the lock goes on naming its block (libkmem_copy_from_user,
\* libkmem_copy_to_user).
THEOREM GrantedBlocksListed == Spec => []GrantsListed
<1>1. KmemInv => GrantsListed
  <2> SUFFICES ASSUME KmemInv, ~raced PROVE GrantsListed
    BY DEF GrantsListed
  <2>1. CallTypes /\ KernelArea(area) /\ HeldTypes /\ Good
    BY DEF KmemInv, Types, Good
  <2>2. \A c \in Copying : /\ c \in Working /\ call[c].sym \in Symbols
                           /\ area.table[call[c].sym] = call[c].block
    BY <2>1 DEF Copying, Working, CallTypes, Copies, Good, GrantsInv, InHand
  <2>3. ASSUME NEW b \in Granted
        PROVE  /\ \E i \in Symbols : area.table[i] = b
               /\ b \in Spans /\ b.from \in Nat /\ In(b, b.from)
    <3>1. \E i \in Symbols : area.table[i] = b
      BY <2>1, <2>2 DEF Granted, Good, GrantsInv
    <3>2. b \in Spans /\ InUse(b, area.sbrk)
      BY <2>1 DEF Granted, Copying, HeldTypes, CallTypes, Copies
    <3> QED
      BY <3>1, <3>2 DEF InUse, In, Spans
  <2>4. ASSUME NEW b \in Granted PROVE Listed(b)
    <3>1. PICK i \in Symbols : area.table[i] = b
      BY <2>3
    <3>2. \A j \in Symbols : area.table[j] = b => j = i
      BY <2>1, <2>3, <3>1 DEF Good, Apart, InEntry
    <3>3. {j \in Symbols : area.table[j] = b} = {i}
      BY <3>1, <3>2
    <3> QED
      BY <3>3, FS_Singleton DEF Listed
  <2>5. ASSUME NEW b \in Granted, NEW d \in Granted, b # d PROVE ~Overlap(b, d)
    <3>1. PICK i \in Symbols : area.table[i] = b
      BY <2>3
    <3>2. PICK j \in Symbols : area.table[j] = d
      BY <2>3
    <3>3. \A a \in Nat : ~(In(b, a) /\ In(d, a))
      BY <2>1, <2>5, <3>1, <3>2 DEF Good, Apart, InEntry
    <3> QED
      BY <2>3, <3>3, OverlapMeans
  <2> QED
    BY <2>2, <2>4, <2>5 DEF GrantsListed
<1> QED
  BY <1>1, KmemInvHolds, PTL
==============================================================================
