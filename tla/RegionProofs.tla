----------------------------- MODULE RegionProofs -----------------------------
(* What the operations on an area do to the addresses it has handed out, for  *)
(* every table, list of free regions, size of pages and size asked for.       *)
(* Modules VmaProofs and KmemProofs rest on these lemmas.                     *)
EXTENDS Regions, SequenceTheorems, WellFoundedInduction, TLAPS

\* A region that is not turned inside out, and whether it holds an address.
Spans == {r \in [from : Nat, to : Nat] : r.from <= r.to}
In(r, x) == r.from <= x /\ x < r.to

\* A list of regions holds an address; no address twice.
Holds(f, x) == \E k \in 1 .. Len(f) : In(f[k], x)
Disjoint(f) ==
  \A k, l \in 1 .. Len(f), x \in Nat : In(f[k], x) /\ In(f[l], x) => k = l

\* Table t and free list f partition the addresses below b.
Partitioned(t, f, b) ==
  /\ t \in [Symbols -> Spans] /\ f \in Seq(Spans) /\ f # <<>> /\ b \in Nat
  /\ \A i \in Symbols : t[i].to <= b
  /\ \A k \in 1 .. Len(f) : f[k].to <= b
  /\ \A i, j \in Symbols, x \in Nat : In(t[i], x) /\ In(t[j], x) => i = j
  /\ Disjoint(f)
  /\ \A i \in Symbols, x \in Nat : In(t[i], x) => ~Holds(f, x)
  /\ \A x \in Nat : x < b <=> Holds(f, x) \/ \E i \in Symbols : In(t[i], x)

-----------------------------------------------------------------------------
(* Arithmetic, sequences and choices.                                         *)

\* Pages are mapped whole.
LEMMA PageAlignProperties ==
  ASSUME NEW n \in Nat
  PROVE  /\ PageAlign(n) \in Nat /\ n <= PageAlign(n) /\ PageAlign(n) < n + PageSize
         /\ \E k \in Nat : PageAlign(n) = k * PageSize
<1>1. PageSize \in Nat \ {0}
  BY RegionsAssumption
<1>2. /\ (n + PageSize - 1) \div PageSize \in Nat
      /\ PageAlign(n) = ((n + PageSize - 1) \div PageSize) * PageSize
  BY <1>1 DEF PageAlign
<1>3. /\ ((n + PageSize - 1) \div PageSize) * PageSize \in Nat
      /\ ((n + PageSize - 1) \div PageSize) * PageSize >= n
      /\ ((n + PageSize - 1) \div PageSize) * PageSize < n + PageSize
  BY <1>1
<1> QED
  BY <1>1, <1>2, <1>3

LEMMA WholePages ==
  ASSUME NEW e \in Nat, e % PageSize = 0, NEW k \in Nat
  PROVE  (e + k * PageSize) % PageSize = 0
<1> DEFINE q == e \div PageSize
<1>1. PageSize \in Nat \ {0}
  BY RegionsAssumption
<1>2. e = q * PageSize /\ q \in Nat
  BY <1>1
<1> HIDE DEF q
<1>3. e + k * PageSize = (q + k) * PageSize /\ q + k \in Nat
  BY <1>1, <1>2
<1>4. \A j \in Nat : (j * PageSize) % PageSize = 0
  BY <1>1
<1> QED
  BY <1>3, <1>4

\* Every set of natural numbers that is not empty has a least element.
LEMMA LeastIndex ==
  ASSUME NEW T, T \subseteq Nat, T # {}
  PROVE  LET i == CHOOSE i \in T : \A j \in T : i <= j
         IN  i \in T /\ \A j \in T : i <= j
<1>1. PICK x \in T : \A y \in T : <<y, x>> \notin OpToRel(<, Nat)
  BY WFMin, NatLessThanWellFounded
<1>2. ASSUME NEW y \in T PROVE x <= y
  <2>1. x \in Nat /\ y \in Nat
    OBVIOUS
  <2>2. ~(y < x)
    BY <1>1, <2>1 DEF OpToRel
  <2> QED
    BY <2>1, <2>2
<1> QED
  BY <1>2

\* RemoveAt drops one entry and keeps the others in order.
LEMMA RemoveAtProperties ==
  ASSUME NEW S, NEW f \in Seq(S), NEW k \in 1 .. Len(f)
  PROVE  /\ RemoveAt(f, k) \in Seq(S) /\ Len(RemoveAt(f, k)) = Len(f) - 1
         /\ \A l \in 1 .. Len(f) - 1 :
              RemoveAt(f, k)[l] = IF l < k THEN f[l] ELSE f[l + 1]
<1> DEFINE s == SubSeq(f, 1, k - 1)
           u == SubSeq(f, k + 1, Len(f))
<1>1. Len(f) \in Nat
  BY LenProperties
<1>2. /\ s \in Seq(S) /\ Len(s) = k - 1
      /\ \A l \in 1 .. k - 1 : s[l] = f[l]
  BY <1>1, SubSeqProperties
<1>3. /\ u \in Seq(S) /\ Len(u) = Len(f) - k
      /\ \A l \in 1 .. Len(f) - k : u[l] = f[k + l]
  BY <1>1, SubSeqProperties
<1> HIDE DEF s, u
<1>4. /\ s \o u \in Seq(S) /\ Len(s \o u) = Len(s) + Len(u)
      /\ \A l \in 1 .. Len(s) + Len(u) :
           (s \o u)[l] = IF l <= Len(s) THEN s[l] ELSE u[l - Len(s)]
  BY <1>2, <1>3, ConcatProperties
<1>5. RemoveAt(f, k) = s \o u
  BY DEF RemoveAt, s, u
<1>6. ASSUME NEW l \in 1 .. Len(f) - 1
      PROVE  (s \o u)[l] = IF l < k THEN f[l] ELSE f[l + 1]
  <2>1. CASE l < k
    BY <1>1, <1>2, <1>3, <1>4, <2>1
  <2>2. CASE ~(l < k)
    <3>1. PICK m \in 1 .. Len(f) - k : m = l - Len(s)
      BY <1>1, <1>2, <2>2
    <3>2. l \in 1 .. Len(s) + Len(u) /\ ~(l <= Len(s)) /\ k + m = l + 1
      BY <1>1, <1>2, <1>3, <2>2, <3>1
    <3>3. (s \o u)[l] = u[m]
      BY <1>4, <3>1, <3>2
    <3>4. u[m] = f[k + m]
      BY <1>3
    <3> QED
      BY <2>2, <3>2, <3>3, <3>4
  <2> QED
    BY <2>1, <2>2
<1>7. Len(s \o u) = Len(f) - 1
  BY <1>1, <1>2, <1>3, <1>4
<1> QED
  BY <1>4, <1>5, <1>6, <1>7

\* A list of regions.
LEMMA ListType ==
  ASSUME NEW f \in Seq(Spans)
  PROVE  /\ Len(f) \in Nat /\ DOMAIN f = 1 .. Len(f)
         /\ f = <<>> <=> Len(f) = 0
         /\ \A k \in 1 .. Len(f) : /\ f[k] \in Spans
                                   /\ f[k].from \in Nat /\ f[k].to \in Nat
                                   /\ f[k].from <= f[k].to
<1>1. Len(f) \in Nat /\ DOMAIN f = 1 .. Len(f)
  BY LenProperties
<1>2. \A k \in 1 .. Len(f) : f[k] \in Spans
  BY ElementOfSeq
<1>3. f = <<>> <=> Len(f) = 0
  BY EmptySeq
<1> QED
  BY <1>1, <1>2, <1>3 DEF Spans

-----------------------------------------------------------------------------
(* The free list.                                                             *)

\* The start of a region of the list is moved.
LEMMA MoveStart ==
  ASSUME NEW f \in Seq(Spans), NEW i \in 1 .. Len(f), NEW a \in Nat, a <= f[i].to
  PROVE  LET g == [f EXCEPT ![i].from = a]
         IN  /\ g \in Seq(Spans) /\ Len(g) = Len(f)
             /\ \A k \in 1 .. Len(f) : k # i => g[k] = f[k]
             /\ g[i].to = f[i].to /\ g[i].from = a
<1> DEFINE r == [f[i] EXCEPT !.from = a]
           g == [f EXCEPT ![i].from = a]
<1>1. f[i] \in [from : Nat, to : Nat] /\ f[i].to \in Nat
  BY ListType DEF Spans
<1>2. r \in Spans /\ r.from = a /\ r.to = f[i].to
  BY <1>1 DEF Spans
<1>3. g = [f EXCEPT ![i] = r]
  OBVIOUS
<1> HIDE DEF r
<1>4. /\ [f EXCEPT ![i] = r] \in Seq(Spans) /\ Len([f EXCEPT ![i] = r]) = Len(f)
      /\ \A k \in 1 .. Len(f) : [f EXCEPT ![i] = r][k] = IF k = i THEN r ELSE f[k]
  BY <1>2, ExceptSeq
<1> HIDE DEF g
<1>5. /\ g \in Seq(Spans) /\ Len(g) = Len(f) /\ g[i] = r
      /\ \A k \in 1 .. Len(f) : k # i => g[k] = f[k]
  BY <1>3, <1>4
<1> QED
  BY <1>2, <1>5 DEF g

\* The list holds what it held, but for the n addresses cut from region i.
LEMMA FreeAfterFitProperties ==
  ASSUME NEW f \in Seq(Spans), NEW i \in 1 .. Len(f), NEW n \in Nat,
         f[i].from + n <= f[i].to
  PROVE  LET g == FreeAfterFit(f, i, n)
             r == Region(f[i].from, f[i].from + n)
         IN  /\ g \in Seq(Spans) /\ g # <<>> /\ r \in Spans
             /\ \A k \in 1 .. Len(g) : \E l \in 1 .. Len(f) :
                  f[l].from <= g[k].from /\ g[k].to = f[l].to
             /\ \A x \in Nat : In(r, x) => Holds(f, x)
             /\ Disjoint(f) =>
                  /\ Disjoint(g)
                  /\ \A x \in Nat : Holds(g, x) <=> Holds(f, x) /\ ~In(r, x)
<1> DEFINE g == FreeAfterFit(f, i, n)
           r == Region(f[i].from, f[i].from + n)
<1>1. /\ Len(f) \in Nat \ {0}
      /\ \A k \in 1 .. Len(f) : /\ f[k] \in Spans /\ f[k].from \in Nat
                                /\ f[k].to \in Nat /\ f[k].from <= f[k].to
  BY ListType
<1>2. r.from = f[i].from /\ r.to = f[i].from + n /\ r \in Spans
  BY <1>1 DEF Region, Spans
<1> HIDE DEF r
<1> DEFINE Left(h) ==
             /\ Disjoint(h)
             /\ \A x \in Nat : Holds(h, x) <=> Holds(f, x) /\ ~In(r, x)
<1>3. \A x \in Nat : In(r, x) => In(f[i], x)
  BY <1>1, <1>2 DEF In
\* Its first addresses are cut off.
<1>4. ASSUME NEW h \in Seq(Spans), Len(h) = Len(f),
             \A k \in 1 .. Len(f) : k # i => h[k] = f[k],
             h[i].to = f[i].to, h[i].from = f[i].from + n
      PROVE  /\ h # <<>>
             /\ \A k \in 1 .. Len(h) : \E l \in 1 .. Len(f) :
                  f[l].from <= h[k].from /\ h[k].to = f[l].to
             /\ Disjoint(f) => Left(h)
  <2>1. \A k \in 1 .. Len(f), x \in Nat :
          In(h[k], x) <=> In(f[k], x) /\ (k = i => ~In(r, x))
    BY <1>1, <1>2, <1>4 DEF In
  <2>2. h # <<>>
    BY <1>1, <1>4, ListType
  <2>3. \A k \in 1 .. Len(h) : f[k].from <= h[k].from /\ h[k].to = f[k].to
    BY <1>1, <1>4
  <2>4. ASSUME Disjoint(f) PROVE Left(h)
    <3>1. \A k \in 1 .. Len(f), x \in Nat : In(f[k], x) /\ In(r, x) => k = i
      BY <1>3, <2>4 DEF Disjoint
    <3>2. Disjoint(h)
      BY <1>1, <1>4, <2>1, <2>4 DEF Disjoint
    <3>3. \A x \in Nat : Holds(h, x) <=> Holds(f, x) /\ ~In(r, x)
      BY <1>4, <2>1, <3>1 DEF Holds
    <3> QED
      BY <3>2, <3>3
  <2> QED
    BY <1>4, <2>2, <2>3, <2>4
\* It is used up whole and not the last one.
<1>5. ASSUME NEW h \in Seq(Spans), Len(h) = Len(f) - 1, i < Len(f),
             \A k \in 1 .. Len(f) - 1 : h[k] = IF k < i THEN f[k] ELSE f[k + 1],
             f[i].to = f[i].from + n
      PROVE  /\ h # <<>>
             /\ \A k \in 1 .. Len(h) : \E l \in 1 .. Len(f) :
                  f[l].from <= h[k].from /\ h[k].to = f[l].to
             /\ Disjoint(f) => Left(h)
  <2>1. \A x \in Nat : In(r, x) <=> In(f[i], x)
    BY <1>1, <1>2, <1>5 DEF In
  <2>2. /\ Len(h) \in Nat \ {0} /\ i \in Nat
        /\ \A k \in 1 .. Len(h) : (k < i => k \in 1 .. Len(f) /\ k # i)
                               /\ (~(k < i) => k + 1 \in 1 .. Len(f) /\ k + 1 # i)
    BY <1>1, <1>5
  <2>3. \A k \in 1 .. Len(f) : k # i =>
          \/ k \in 1 .. Len(h) /\ k < i
          \/ k - 1 \in 1 .. Len(h) /\ ~(k - 1 < i) /\ (k - 1) + 1 = k
    BY <1>1, <1>5
  <2>4. h # <<>>
    BY <2>2, ListType
  <2>5. ASSUME NEW k \in 1 .. Len(h)
        PROVE  \E u \in 1 .. Len(f) : h[k] = f[u] /\ u = IF k < i THEN k ELSE k + 1
    BY <1>5, <2>2
  <2>6. \A k \in 1 .. Len(h) : \E u \in 1 .. Len(f) :
          f[u].from <= h[k].from /\ h[k].to = f[u].to
    <3>1. \A u \in 1 .. Len(f) : f[u].from <= f[u].from
      BY <1>1
    <3> QED
      BY <2>5, <3>1
  <2>7. ASSUME Disjoint(f), NEW k \in 1 .. Len(h), NEW l \in 1 .. Len(h),
               NEW x \in Nat, In(h[k], x), In(h[l], x)
        PROVE  k = l
    <3>1. PICK u \in 1 .. Len(f) : h[k] = f[u] /\ u = IF k < i THEN k ELSE k + 1
      BY <2>5
    <3>2. PICK v \in 1 .. Len(f) : h[l] = f[v] /\ v = IF l < i THEN l ELSE l + 1
      BY <2>5
    <3>3. u = v
      BY <2>7, <3>1, <3>2 DEF Disjoint
    <3> QED
      BY <2>2, <3>1, <3>2, <3>3
  <2>8. ASSUME Disjoint(f), NEW x \in Nat
        PROVE  Holds(h, x) <=> Holds(f, x) /\ ~In(r, x)
    <3>1. ASSUME NEW k \in 1 .. Len(h), In(h[k], x) PROVE Holds(f, x) /\ ~In(r, x)
      <4>1. PICK u \in 1 .. Len(f) : h[k] = f[u] /\ u # i
        BY <2>2, <2>5
      <4> QED
        BY <2>1, <2>8, <3>1, <4>1 DEF Holds, Disjoint
    <3>2. ASSUME NEW u \in 1 .. Len(f), In(f[u], x), ~In(r, x) PROVE Holds(h, x)
      <4>1. u # i
        BY <2>1, <3>2
      <4>2. PICK k \in 1 .. Len(h) : h[k] = f[u]
        BY <1>5, <2>3, <4>1
      <4> QED
        BY <3>2, <4>2 DEF Holds
    <3> QED
      BY <3>1, <3>2 DEF Holds
  <2>9. Disjoint(f) => Left(h)
    BY <2>7, <2>8 DEF Disjoint
  <2> QED
    BY <2>4, <2>6, <2>9
<1> SUFFICES /\ g \in Seq(Spans) /\ g # <<>> /\ r \in Spans
             /\ \A k \in 1 .. Len(g) : \E l \in 1 .. Len(f) :
                  f[l].from <= g[k].from /\ g[k].to = f[l].to
             /\ \A x \in Nat : In(r, x) => Holds(f, x)
             /\ Disjoint(f) => Left(g)
  BY DEF r
<1> HIDE DEF Left
<1>6. \A x \in Nat : In(r, x) => Holds(f, x)
  BY <1>1, <1>2, <1>3 DEF Holds
<1>7. CASE f[i].from + n < f[i].to
  <2>1. g = [f EXCEPT ![i].from = f[i].from + n]
    BY <1>7 DEF FreeAfterFit
  <2>2. /\ g \in Seq(Spans) /\ Len(g) = Len(f)
        /\ \A k \in 1 .. Len(f) : k # i => g[k] = f[k]
        /\ g[i].to = f[i].to /\ g[i].from = f[i].from + n
    <3>1. f[i].from + n \in Nat /\ f[i].from + n <= f[i].to
      BY <1>1
    <3> QED
      BY <2>1, <3>1, MoveStart
  <2> HIDE DEF g
  <2> QED
    BY <1>2, <1>4, <1>6, <2>2
<1>8. CASE ~(f[i].from + n < f[i].to) /\ i < Len(f)
  <2>1. f[i].to = f[i].from + n
    <3>1. f[i].from + n \in Nat /\ f[i].to \in Nat
      BY <1>1
    <3> QED
      BY <1>8, <3>1
  <2>2. g = RemoveAt(f, i)
    BY <1>8 DEF FreeAfterFit
  <2>3. /\ g \in Seq(Spans) /\ Len(g) = Len(f) - 1
        /\ \A l \in 1 .. Len(f) - 1 : g[l] = IF l < i THEN f[l] ELSE f[l + 1]
    BY <2>2, RemoveAtProperties
  <2> HIDE DEF g
  <2>4. /\ g # <<>>
        /\ \A k \in 1 .. Len(g) : \E l \in 1 .. Len(f) :
             f[l].from <= g[k].from /\ g[k].to = f[l].to
        /\ Disjoint(f) => Left(g)
    BY <1>5, <1>8, <2>1, <2>3
  <2> QED
    BY <1>2, <1>6, <2>3, <2>4
<1>9. CASE ~(f[i].from + n < f[i].to) /\ ~(i < Len(f))
  <2>1. f[i].to = f[i].from + n
    <3>1. f[i].from + n \in Nat /\ f[i].to \in Nat
      BY <1>1
    <3> QED
      BY <1>9, <3>1
  <2>2. g = [f EXCEPT ![i].from = f[i].to]
    BY <1>9 DEF FreeAfterFit
  <2>3. /\ g \in Seq(Spans) /\ Len(g) = Len(f)
        /\ \A k \in 1 .. Len(f) : k # i => g[k] = f[k]
        /\ g[i].to = f[i].to /\ g[i].from = f[i].from + n
    <3>1. f[i].to \in Nat /\ f[i].to <= f[i].to
      BY <1>1
    <3> QED
      BY <2>1, <2>2, <3>1, MoveStart
  <2> HIDE DEF g
  <2> QED
    BY <1>2, <1>4, <1>6, <2>3
<1> QED
  BY <1>7, <1>8, <1>9

\* A region that was not on the list goes to its head.
LEMMA EnlistProperties ==
  ASSUME NEW f \in Seq(Spans), f # <<>>, NEW r \in Spans
  PROVE  LET g == Enlist(f, r)
         IN  /\ g \in Seq(Spans) /\ g # <<>>
             /\ \A k \in 1 .. Len(g) : g[k] = r \/ \E l \in 1 .. Len(f) : g[k] = f[l]
             /\ \A x \in Nat : Holds(g, x) <=> Holds(f, x) \/ In(r, x)
             /\ Disjoint(f) /\ (\A x \in Nat : In(r, x) => ~Holds(f, x)) => Disjoint(g)
<1> DEFINE g == Enlist(f, r)
           New == \A x \in Nat : In(r, x) => ~Holds(f, x)
<1> SUFFICES /\ g \in Seq(Spans) /\ g # <<>>
             /\ \A k \in 1 .. Len(g) : g[k] = r \/ \E l \in 1 .. Len(f) : g[k] = f[l]
             /\ \A x \in Nat : Holds(g, x) <=> Holds(f, x) \/ In(r, x)
             /\ Disjoint(f) /\ New => Disjoint(g)
  OBVIOUS
<1>1. r.from \in Nat /\ r.to \in Nat
  BY DEF Spans
<1>2. CASE ~(r.from < r.to)
  <2>1. g = f
    BY <1>2 DEF Enlist
  <2>2. \A x \in Nat : ~In(r, x)
    BY <1>1, <1>2 DEF In
  <2> HIDE DEF g, New
  <2> QED
    BY <2>1, <2>2
<1>3. CASE r.from < r.to
  <2>1. g = <<r>> \o f
    BY <1>3 DEF Enlist
  <2>2. <<r>> \in Seq(Spans) /\ Len(<<r>>) = 1 /\ <<r>>[1] = r
    OBVIOUS
  <2>3. /\ g \in Seq(Spans) /\ Len(g) = Len(f) + 1
        /\ \A k \in 1 .. Len(f) + 1 : g[k] = IF k <= 1 THEN <<r>>[k] ELSE f[k - 1]
    BY <2>1, <2>2, ConcatProperties
  <2> HIDE DEF g
  <2>4. Len(f) \in Nat
    BY ListType
  <2>5. /\ g[1] = r
        /\ \A k \in 1 .. Len(f) + 1 : k # 1 => k - 1 \in 1 .. Len(f) /\ g[k] = f[k - 1]
    BY <2>2, <2>3, <2>4
  <2>6. \A k \in 1 .. Len(f) : k + 1 \in 1 .. Len(f) + 1 /\ g[k + 1] = f[k]
    BY <2>3, <2>4
  <2>7. g # <<>>
    BY <2>3, <2>4, ListType
  <2>8. ASSUME Disjoint(f), New PROVE Disjoint(g)
    <3> SUFFICES ASSUME NEW k \in 1 .. Len(f) + 1, NEW l \in 1 .. Len(f) + 1,
                        NEW x \in Nat, In(g[k], x), In(g[l], x)
                 PROVE  k = l
      BY <2>3 DEF Disjoint
    <3>1. CASE k = 1 \/ l = 1
      BY <2>5, <2>8, <3>1 DEF Holds
    <3>2. CASE k # 1 /\ l # 1
      <4>1. k - 1 = l - 1
        BY <2>5, <2>8, <3>2 DEF Disjoint
      <4> QED
        BY <2>4, <4>1
    <3> QED
      BY <3>1, <3>2
  <2>9. ASSUME NEW x \in Nat PROVE Holds(g, x) <=> Holds(f, x) \/ In(r, x)
    <3>1. Holds(g, x) => Holds(f, x) \/ In(r, x)
      BY <2>3, <2>5 DEF Holds
    <3>2. In(r, x) => Holds(g, x)
      BY <2>3, <2>4, <2>5 DEF Holds
    <3>3. Holds(f, x) => Holds(g, x)
      BY <2>3, <2>6 DEF Holds
    <3> QED
      BY <3>1, <3>2, <3>3
  <2>10. \A k \in 1 .. Len(g) : g[k] = r \/ \E l \in 1 .. Len(f) : g[k] = f[l]
    BY <2>3, <2>5
  <2> QED
    BY <2>3, <2>7, <2>8, <2>9, <2>10
<1> QED
  BY <1>2, <1>3

-----------------------------------------------------------------------------
(* The partition.                                                             *)

\* Entry s becomes r, the list g and the end c, and what they hold is what the
\* entry and the list held before, with the addresses from b to c.
LEMMA Rearranged ==
  ASSUME NEW t, NEW f, NEW b, Partitioned(t, f, b),
         NEW s \in Symbols, NEW r \in Spans, NEW g \in Seq(Spans), NEW c \in Nat,
         g # <<>>, Disjoint(g), b <= c, r.to <= c,
         \A k \in 1 .. Len(g) : g[k].to <= c,
         \A x \in Nat : /\ ~(Holds(g, x) /\ In(r, x))
                        /\ Holds(g, x) \/ In(r, x) <=>
                             Holds(f, x) \/ In(t[s], x) \/ (b <= x /\ x < c)
  PROVE  Partitioned([t EXCEPT ![s] = r], g, c)
<1> DEFINE u == [t EXCEPT ![s] = r]
<1>1. /\ t \in [Symbols -> Spans] /\ b \in Nat
      /\ \A i \in Symbols : t[i].to <= b /\ t[i].to \in Nat
  BY DEF Partitioned, Spans
<1>2. u \in [Symbols -> Spans] /\ u[s] = r /\ \A i \in Symbols : i # s => u[i] = t[i]
  BY <1>1
<1> HIDE DEF u
<1>3. ASSUME NEW i \in Symbols, i # s, NEW x \in Nat, In(t[i], x)
      PROVE  ~Holds(g, x) /\ ~In(r, x)
  <2>1. x < b
    BY <1>1, <1>3 DEF In
  <2>2. ~Holds(f, x) /\ ~In(t[s], x)
    BY <1>3 DEF Partitioned
  <2> QED
    BY <1>1, <2>1, <2>2
<1>4. \A i \in Symbols : u[i].to <= c
  BY <1>1, <1>2
<1>5. ASSUME NEW i \in Symbols, NEW j \in Symbols, NEW x \in Nat, In(u[i], x), In(u[j], x)
      PROVE  i = j
  BY <1>2, <1>3, <1>5 DEF Partitioned
<1>6. ASSUME NEW i \in Symbols, NEW x \in Nat, In(u[i], x)
      PROVE  ~Holds(g, x)
  BY <1>2, <1>3, <1>6
<1>7. ASSUME NEW x \in Nat
      PROVE  x < c <=> Holds(g, x) \/ \E i \in Symbols : In(u[i], x)
  <2>1. CASE x < b
    <3>1. x < c
      BY <1>1, <2>1
    <3>2. Holds(f, x) \/ \E i \in Symbols : In(t[i], x)
      BY <2>1 DEF Partitioned
    <3> QED
      BY <1>2, <3>1, <3>2
  <2>2. CASE ~(x < b)
    <3>1. b <= x /\ ~Holds(f, x) /\ \A i \in Symbols : ~In(t[i], x)
      BY <1>1, <2>2 DEF Partitioned
    <3>2. x < c <=> Holds(g, x) \/ In(r, x)
      BY <3>1
    <3> QED
      BY <1>2, <3>1, <3>2
  <2> QED
    BY <2>1, <2>2
<1>8. Partitioned(u, g, c)
  BY <1>2, <1>4, <1>5, <1>6, <1>7 DEF Partitioned
<1> QED
  BY <1>8 DEF u

-----------------------------------------------------------------------------
(* The operations on an area.                                                 *)

Areas == [table : [Symbols -> Spans], free : Seq(Spans), sbrk : Nat, end : Nat]

AreaInv(a) ==
  /\ a \in Areas /\ Partitioned(a.table, a.free, a.sbrk)
  /\ a.end % PageSize = 0 /\ a.sbrk <= a.end /\ a.end < a.sbrk + PageSize

\* The first region that fits.
LEMMA FirstFitProperties ==
  ASSUME NEW f \in Seq(Spans), NEW n \in Nat, Fitting(f, n) # {}
  PROVE  FirstFit(f, n) \in 1 .. Len(f) /\ f[FirstFit(f, n)].from + n <= f[FirstFit(f, n)].to
<1>1. Fitting(f, n) \subseteq Nat
  BY ListType DEF Fitting
<1>2. FirstFit(f, n) \in Fitting(f, n)
  BY <1>1, LeastIndex DEF FirstFit
<1> QED
  BY <1>2, ListType DEF Fitting

\* The empty entry of the table that a call uses.
LEMMA NextSymbolProperties ==
  ASSUME NEW a, UnusedSymbols(a) # {}
  PROVE  NextSymbol(a) \in Symbols /\ a.table[NextSymbol(a)] = Unused
<1>1. UnusedSymbols(a) \subseteq Nat
  BY DEF UnusedSymbols, Symbols
<1>2. NextSymbol(a) \in UnusedSymbols(a)
  BY <1>1, LeastIndex DEF NextSymbol
<1> QED
  BY <1>2 DEF UnusedSymbols

\* The entry that holds an address.
LEMMA SymbolAtProperties ==
  ASSUME NEW a, NEW x, SymbolsAt(a, x) # {}
  PROVE  SymbolAt(a, x) \in SymbolsAt(a, x) /\ SymbolAt(a, x) \in Symbols
<1>1. SymbolsAt(a, x) \subseteq Symbols /\ SymbolsAt(a, x) \subseteq Nat
  BY DEF SymbolsAt, Symbols
<1>2. SymbolAt(a, x) \in SymbolsAt(a, x)
  BY <1>1, LeastIndex DEF SymbolAt
<1> QED
  BY <1>1, <1>2

\* No address lies in an entry that is not used.
LEMMA UnusedProperties ==
  /\ Unused \in Spans /\ Unused.from = 0 /\ Unused.to = 0
  /\ \A x \in Nat : ~In(Unused, x)
BY DEF Unused, Region, Spans, In

\* A new area: nothing was handed out.
LEMMA EmptyAreaInv == AreaInv(EmptyArea(0))
<1> DEFINE a == EmptyArea(0)
<1>1. /\ a.table = [i \in Symbols |-> Unused] /\ a.free = <<Region(0, 0)>>
      /\ a.sbrk = 0 /\ a.end = 0
      /\ a = [table |-> a.table, free |-> a.free, sbrk |-> a.sbrk, end |-> a.end]
  BY DEF EmptyArea
<1>2. Region(0, 0) = Unused
  BY DEF Unused
<1>3. /\ a.free \in Seq(Spans) /\ Len(a.free) = 1 /\ a.free[1] = Unused
      /\ a.free # <<>>
  <2>1. \A r \in Spans : <<r>> \in Seq(Spans) /\ Len(<<r>>) = 1 /\ <<r>>[1] = r
                        /\ <<r>> # <<>>
    OBVIOUS
  <2>2. a.free = <<Unused>>
    BY <1>1, <1>2
  <2> QED
    BY <2>1, <2>2, UnusedProperties
<1>4. a.table \in [Symbols -> Spans] /\ \A i \in Symbols : a.table[i] = Unused
  BY <1>1, UnusedProperties
<1> HIDE DEF a
<1>5. Partitioned(a.table, a.free, a.sbrk)
  BY <1>1, <1>3, <1>4, UnusedProperties DEF Partitioned, Disjoint, Holds
<1>6. a \in Areas
  BY <1>1, <1>3, <1>4 DEF Areas
<1>7. a.end % PageSize = 0 /\ a.sbrk <= a.end /\ a.end < a.sbrk + PageSize
  BY <1>1, RegionsAssumption
<1>8. AreaInv(a)
  BY <1>5, <1>6, <1>7 DEF AreaInv
<1> QED
  BY <1>8 DEF a

\* Changing two fields of an area.
LEMMA TwoFields ==
  ASSUME NEW t, NEW f, NEW b, NEW e, NEW x, NEW y, NEW s
  PROVE  LET a == [table |-> t, free |-> f, sbrk |-> b, end |-> e]
         IN  /\ [a EXCEPT !.sbrk = x, !.end = y] =
                  [table |-> t, free |-> f, sbrk |-> x, end |-> y]
             /\ [a EXCEPT !.free = x, !.table[s] = y] =
                  [table |-> [t EXCEPT ![s] = y], free |-> x, sbrk |-> b, end |-> e]
<1> DEFINE a == [table |-> t, free |-> f, sbrk |-> b, end |-> e]
<1>1. [a EXCEPT !.sbrk = x, !.end = y] =
        [table |-> t, free |-> f, sbrk |-> x, end |-> y]
  <2>1. [a EXCEPT !.sbrk = x, !.end = y] = [[a EXCEPT !.sbrk = x] EXCEPT !.end = y]
    OBVIOUS
  <2>2. [a EXCEPT !.sbrk = x] = [table |-> t, free |-> f, sbrk |-> x, end |-> e]
    OBVIOUS
  <2>3. [[table |-> t, free |-> f, sbrk |-> x, end |-> e] EXCEPT !.end = y] =
          [table |-> t, free |-> f, sbrk |-> x, end |-> y]
    OBVIOUS
  <2> HIDE DEF a
  <2> QED
    BY <2>1, <2>2, <2>3
<1>2. [a EXCEPT !.free = x, !.table[s] = y] =
        [table |-> [t EXCEPT ![s] = y], free |-> x, sbrk |-> b, end |-> e]
  <2>1. [a EXCEPT !.free = x, !.table[s] = y] =
          [[a EXCEPT !.free = x] EXCEPT !.table[s] = y]
    OBVIOUS
  <2>2. [a EXCEPT !.free = x] = [table |-> t, free |-> x, sbrk |-> b, end |-> e]
    OBVIOUS
  <2>3. [[table |-> t, free |-> x, sbrk |-> b, end |-> e] EXCEPT !.table[s] = y] =
          [table |-> [t EXCEPT ![s] = y], free |-> x, sbrk |-> b, end |-> e]
    OBVIOUS
  <2> HIDE DEF a
  <2> QED
    BY <2>1, <2>2, <2>3
<1> HIDE DEF a
<1> QED
  BY <1>1, <1>2 DEF a

\* An area whose parts are right.
LEMMA RightArea ==
  ASSUME NEW t, NEW f, NEW b, NEW e \in Nat, Partitioned(t, f, b),
         e % PageSize = 0, b <= e, e < b + PageSize
  PROVE  AreaInv([table |-> t, free |-> f, sbrk |-> b, end |-> e])
BY DEF AreaInv, Areas, Partitioned

\* An area whose free regions and mapped pages go with its end.
AreaShape(a) ==
  /\ a \in Areas /\ a.free # <<>>
  /\ \A k \in 1 .. Len(a.free) : a.free[k].to <= a.sbrk
  /\ a.end % PageSize = 0 /\ a.sbrk <= a.end /\ a.end < a.sbrk + PageSize

\* The addresses that an area may still hand out.
Available(a, x) == Holds(a.free, x) \/ a.sbrk <= x

\* A region of n addresses that were still to be had; no others are gone.
LEMMA ObtainProperties ==
  ASSUME NEW a, AreaShape(a), NEW n \in Nat
  PROVE  LET r == Obtain(a, n).region
             b == Obtain(a, n).area
         IN  /\ AreaShape(b) /\ b.table = a.table /\ a.sbrk <= b.sbrk
             /\ r \in Spans /\ r.to = r.from + n /\ r.to <= b.sbrk
             /\ a.sbrk <= r.from \/ \E l \in 1 .. Len(a.free) : a.free[l].from = r.from
             /\ \A k \in 1 .. Len(b.free) : \E l \in 1 .. Len(a.free) :
                  a.free[l].from <= b.free[k].from
             /\ \A x \in Nat : In(r, x) => Available(a, x)
             /\ Disjoint(a.free) =>
                  /\ Disjoint(b.free)
                  /\ \A x \in Nat : Available(b, x) <=> Available(a, x) /\ ~In(r, x)
<1> DEFINE got == Obtain(a, n)
<1>1. /\ a.table \in [Symbols -> Spans] /\ a.free \in Seq(Spans) /\ a.free # <<>>
      /\ a.sbrk \in Nat /\ a.end \in Nat
      /\ a = [table |-> a.table, free |-> a.free, sbrk |-> a.sbrk, end |-> a.end]
      /\ \A k \in 1 .. Len(a.free) : /\ a.free[k].to <= a.sbrk
                                     /\ a.free[k].from \in Nat /\ a.free[k].to \in Nat
  BY ListType DEF AreaShape, Areas
<1>2. CASE Fitting(a.free, n) # {}
  <2> DEFINE i == FirstFit(a.free, n)
             r == Region(a.free[i].from, a.free[i].from + n)
             g == FreeAfterFit(a.free, i, n)
  <2>1. got.region = r /\ got.area = [a EXCEPT !.free = FreeAfterFit(a.free, i, n)]
    BY <1>2 DEF Obtain, Fit
  <2>2. got.area = [table |-> a.table, free |-> g, sbrk |-> a.sbrk, end |-> a.end]
    BY <1>1, <2>1
  <2>3. /\ i \in 1 .. Len(a.free) /\ a.free[i].from + n <= a.free[i].to
        /\ r.from = a.free[i].from /\ r.to = a.free[i].from + n
    BY <1>1, <1>2, FirstFitProperties DEF Region
  <2> HIDE DEF i
  <2>4. /\ g \in Seq(Spans) /\ g # <<>> /\ r \in Spans
        /\ \A k \in 1 .. Len(g) : \E l \in 1 .. Len(a.free) :
             a.free[l].from <= g[k].from /\ g[k].to = a.free[l].to
        /\ \A x \in Nat : In(r, x) => Holds(a.free, x)
        /\ Disjoint(a.free) =>
             /\ Disjoint(g)
             /\ \A x \in Nat : Holds(g, x) <=> Holds(a.free, x) /\ ~In(r, x)
    BY <1>1, <2>3, FreeAfterFitProperties
  <2> HIDE DEF got, r, g
  <2>5. r.to <= a.sbrk
    BY <1>1, <2>3
  <2>6. /\ got.area.table = a.table /\ got.area.free = g /\ got.area.sbrk = a.sbrk
        /\ got.area.end = a.end /\ got.area \in Areas
    BY <1>1, <2>2, <2>4 DEF Areas
  <2>7. AreaShape(got.area)
    BY <1>1, <2>4, <2>6 DEF AreaShape
  <2>8. \A x \in Nat : In(r, x) => ~(a.sbrk <= x)
    <3>1. r.to \in Nat
      BY <2>4 DEF Spans
    <3> QED
      BY <1>1, <2>5, <3>1 DEF In
  <2>9. ASSUME Disjoint(a.free), NEW x \in Nat
        PROVE  Available(got.area, x) <=> Available(a, x) /\ ~In(r, x)
    BY <2>4, <2>6, <2>8, <2>9 DEF Available
  <2>10. \A x \in Nat : In(r, x) => Available(a, x)
    BY <2>4 DEF Available
  <2>11. a.sbrk <= a.sbrk
    BY <1>1
  <2> QED
    BY <2>1, <2>3, <2>4, <2>5, <2>6, <2>7, <2>9, <2>10, <2>11 DEF got
<1>3. CASE Fitting(a.free, n) = {}
  <2> DEFINE top == a.sbrk + n
             r == Region(a.sbrk, top)
             e == IF top <= a.end THEN a.end ELSE a.end + PageAlign(top - a.end)
  <2>1. got.region = r /\ got.area = [a EXCEPT !.sbrk = top, !.end = e]
    BY <1>3 DEF Obtain, Extend
  <2>2. /\ r.from = a.sbrk /\ r.to = top /\ top \in Nat /\ a.sbrk <= top
        /\ r \in Spans /\ r.to = r.from + n
    BY <1>1 DEF Region, Spans
  <2>3. e \in Nat /\ e % PageSize = 0 /\ top <= e /\ e < top + PageSize
    <3>1. /\ PageSize \in Nat \ {0} /\ top \in Nat /\ a.end \in Nat
          /\ a.end % PageSize = 0 /\ a.end < a.sbrk + PageSize /\ a.sbrk <= top
      BY <1>1, <2>2, RegionsAssumption DEF AreaShape
    <3> HIDE DEF top
    <3>2. CASE top <= a.end
      BY <1>1, <3>1, <3>2
    <3>3. CASE ~(top <= a.end)
      <4>1. PICK m \in Nat : m = top - a.end
        BY <3>1, <3>3
      <4>2. e = a.end + PageAlign(m)
        BY <3>3, <4>1
      <4>3. /\ PageAlign(m) \in Nat /\ m <= PageAlign(m) /\ PageAlign(m) < m + PageSize
            /\ \E k \in Nat : PageAlign(m) = k * PageSize
        BY PageAlignProperties
      <4>4. e % PageSize = 0
        <5>1. PICK k \in Nat : PageAlign(m) = k * PageSize
          BY <4>3
        <5>2. (a.end + k * PageSize) % PageSize = 0
          BY <3>1, WholePages
        <5> HIDE DEF e
        <5> QED
          BY <4>2, <5>1, <5>2
      <4> HIDE DEF e
      <4> QED
        BY <3>1, <4>1, <4>2, <4>3, <4>4
    <3> QED
      BY <3>2, <3>3
  <2> HIDE DEF got, top, r, e
  <2>4. got.area = [table |-> a.table, free |-> a.free, sbrk |-> top, end |-> e]
    BY <1>1, <2>1, TwoFields
  <2>5. /\ got.area.table = a.table /\ got.area.free = a.free /\ got.area.sbrk = top
        /\ got.area.end = e /\ got.area \in Areas
    <3>1. [table |-> a.table, free |-> a.free, sbrk |-> top, end |-> e] \in Areas
      BY <1>1, <2>2, <2>3 DEF Areas
    <3> QED
      BY <2>4, <3>1
  <2>6. \A k \in 1 .. Len(a.free) : /\ a.free[k].to <= top
                                    /\ a.free[k].from <= a.free[k].from
    BY <1>1, <2>2
  <2>7. AreaShape(got.area)
    BY <1>1, <2>3, <2>5, <2>6 DEF AreaShape
  <2>8. \A x \in Nat : In(r, x) <=> a.sbrk <= x /\ ~(top <= x)
    BY <1>1, <2>2 DEF In
  <2>9. \A x \in Nat : Holds(a.free, x) => ~(a.sbrk <= x)
    BY <1>1 DEF Holds, In
  <2>10. \A x \in Nat : top <= x => a.sbrk <= x
    BY <1>1, <2>2
  <2>11. \A x \in Nat : /\ Available(got.area, x) <=> Available(a, x) /\ ~In(r, x)
                        /\ In(r, x) => Available(a, x)
    BY <2>5, <2>8, <2>9, <2>10 DEF Available
  <2>12. top <= top /\ a.sbrk <= a.sbrk
    BY <1>1, <2>2
  <2> QED
    BY <2>1, <2>2, <2>5, <2>6, <2>7, <2>11, <2>12 DEF got
<1> QED
  BY <1>2, <1>3

\* What ALLOC makes of an area: entry s names n addresses that were on the free
\* list or beyond the end.
LEMMA Obtained ==
  ASSUME NEW a, AreaInv(a), NEW n \in Nat, NEW s \in Symbols, a.table[s] = Unused
  PROVE  LET got == Obtain(a, n)
             new == [got.area EXCEPT !.table[s] = got.region]
         IN  /\ AreaInv(new) /\ got.region \in Spans
             /\ got.region.to = got.region.from + n
             /\ new.table = [a.table EXCEPT ![s] = got.region]
             /\ new.sbrk = got.area.sbrk
<1> DEFINE r == Obtain(a, n).region
           b == Obtain(a, n).area
           new == [b EXCEPT !.table[s] = r]
<1>1. /\ a.sbrk \in Nat /\ Disjoint(a.free) /\ AreaShape(a)
      /\ Partitioned(a.table, a.free, a.sbrk)
  BY DEF AreaInv, AreaShape, Partitioned
<1>2. /\ AreaShape(b) /\ b.table = a.table /\ a.sbrk <= b.sbrk
      /\ r \in Spans /\ r.to = r.from + n /\ r.to <= b.sbrk
      /\ \A x \in Nat : In(r, x) => Available(a, x)
      /\ Disjoint(b.free)
      /\ \A x \in Nat : Available(b, x) <=> Available(a, x) /\ ~In(r, x)
  BY <1>1, ObtainProperties
<1> HIDE DEF r, b
<1>3. /\ b.table \in [Symbols -> Spans] /\ b.free \in Seq(Spans) /\ b.free # <<>>
      /\ b.sbrk \in Nat /\ b.end \in Nat
      /\ b = [table |-> b.table, free |-> b.free, sbrk |-> b.sbrk, end |-> b.end]
      /\ \A k \in 1 .. Len(b.free) : b.free[k].to <= b.sbrk
  BY <1>2 DEF AreaShape, Areas
<1>4. new = [table |-> [a.table EXCEPT ![s] = r], free |-> b.free, sbrk |-> b.sbrk,
             end |-> b.end]
  <2>1. [[table |-> b.table, free |-> b.free, sbrk |-> b.sbrk, end |-> b.end]
           EXCEPT !.table[s] = r] =
          [table |-> [b.table EXCEPT ![s] = r], free |-> b.free, sbrk |-> b.sbrk,
           end |-> b.end]
    OBVIOUS
  <2> QED
    BY <1>2, <1>3, <2>1
<1>5. Partitioned([a.table EXCEPT ![s] = r], b.free, b.sbrk)
  <2>1. ASSUME NEW x \in Nat
        PROVE  /\ ~(Holds(b.free, x) /\ In(r, x))
               /\ Holds(b.free, x) \/ In(r, x) <=>
                    Holds(a.free, x) \/ In(a.table[s], x) \/ (a.sbrk <= x /\ x < b.sbrk)
    <3>1. ~In(a.table[s], x)
      BY UnusedProperties
    <3>2. Holds(b.free, x) => x < b.sbrk
      BY <1>3, ListType DEF Holds, In
    <3>3. Holds(a.free, x) => x < a.sbrk
      BY <1>1 DEF Partitioned
    <3>4. In(r, x) => x < b.sbrk
      BY <1>2, <1>3 DEF In, Spans
    <3>5. /\ a.sbrk <= x <=> ~(x < a.sbrk)
          /\ b.sbrk <= x <=> ~(x < b.sbrk)
          /\ x < a.sbrk => x < b.sbrk
      BY <1>1, <1>2, <1>3
    <3> QED
      BY <1>2, <3>1, <3>2, <3>3, <3>4, <3>5 DEF Available
  <2> QED
    BY <1>1, <1>2, <1>3, <2>1, Rearranged
<1>6. AreaInv(new)
  BY <1>2, <1>3, <1>4, <1>5, RightArea DEF AreaShape
<1>7. new.table = [a.table EXCEPT ![s] = r] /\ new.sbrk = b.sbrk
  BY <1>4
<1> QED
  BY <1>2, <1>6, <1>7 DEF r, b

\* A region of the table goes to the free list: its addresses are to be had.
LEMMA ReleaseProperties ==
  ASSUME NEW a, AreaShape(a), NEW s \in Symbols, a.table[s].to <= a.sbrk
  PROVE  LET b == Release(a, s)
         IN  /\ AreaShape(b) /\ b.table = [a.table EXCEPT ![s] = Unused]
             /\ b.sbrk = a.sbrk
             /\ \A k \in 1 .. Len(b.free) :
                  \/ b.free[k] = a.table[s]
                  \/ \E l \in 1 .. Len(a.free) : b.free[k] = a.free[l]
             /\ \A x \in Nat : /\ Available(b, x) <=> Available(a, x) \/ In(a.table[s], x)
                               /\ Holds(b.free, x) <=> Holds(a.free, x) \/ In(a.table[s], x)
             /\ Disjoint(a.free) /\ (\A x \in Nat : In(a.table[s], x) => ~Available(a, x))
                  => Disjoint(b.free)
<1> DEFINE r == a.table[s]
           g == Enlist(a.free, r)
           b == Release(a, s)
<1>1. /\ a.table \in [Symbols -> Spans] /\ a.free \in Seq(Spans) /\ a.free # <<>>
      /\ a.sbrk \in Nat /\ a.end \in Nat /\ r \in Spans
      /\ a = [table |-> a.table, free |-> a.free, sbrk |-> a.sbrk, end |-> a.end]
      /\ \A k \in 1 .. Len(a.free) : a.free[k].to <= a.sbrk
  BY DEF AreaShape, Areas
<1> HIDE DEF r
<1>2. /\ g \in Seq(Spans) /\ g # <<>>
      /\ \A k \in 1 .. Len(g) : g[k] = r \/ \E l \in 1 .. Len(a.free) : g[k] = a.free[l]
      /\ \A x \in Nat : Holds(g, x) <=> Holds(a.free, x) \/ In(r, x)
      /\ Disjoint(a.free) /\ (\A x \in Nat : In(r, x) => ~Holds(a.free, x)) => Disjoint(g)
  BY <1>1, EnlistProperties
<1>3. b = [a EXCEPT !.free = g, !.table[s] = Unused]
  BY DEF Release, r
<1> HIDE DEF g, b
<1>4. b = [table |-> [a.table EXCEPT ![s] = Unused], free |-> g, sbrk |-> a.sbrk,
           end |-> a.end]
  BY <1>1, <1>3, TwoFields
<1>5. /\ b.table = [a.table EXCEPT ![s] = Unused] /\ b.free = g /\ b.sbrk = a.sbrk
      /\ b.end = a.end
  BY <1>4
<1>6. b \in Areas
  <2>1. [a.table EXCEPT ![s] = Unused] \in [Symbols -> Spans]
    BY <1>1, UnusedProperties
  <2> QED
    BY <1>1, <1>2, <1>4, <2>1 DEF Areas
<1>7. \A k \in 1 .. Len(g) : g[k].to <= a.sbrk
  BY <1>1, <1>2 DEF r
<1>8. AreaShape(b)
  BY <1>2, <1>5, <1>6, <1>7 DEF AreaShape
<1>9. \A x \in Nat : /\ Available(b, x) <=> Available(a, x) \/ In(r, x)
                     /\ Holds(b.free, x) <=> Holds(a.free, x) \/ In(r, x)
  BY <1>2, <1>5 DEF Available
<1>10. ASSUME Disjoint(a.free), \A x \in Nat : In(r, x) => ~Available(a, x)
       PROVE  Disjoint(b.free)
  BY <1>2, <1>5, <1>10 DEF Available
<1> QED
  BY <1>2, <1>5, <1>8, <1>9, <1>10 DEF b, r

\* What FREE makes of an area: the region of entry s goes to the free list.
LEMMA Released ==
  ASSUME NEW a, AreaInv(a), NEW s \in Symbols
  PROVE  /\ AreaInv(Release(a, s))
         /\ Release(a, s).table = [a.table EXCEPT ![s] = Unused]
         /\ Release(a, s).sbrk = a.sbrk
<1> DEFINE b == Release(a, s)
<1>1. /\ AreaShape(a) /\ a.table[s].to <= a.sbrk /\ Disjoint(a.free) /\ a.sbrk \in Nat
      /\ \A x \in Nat : In(a.table[s], x) => ~Holds(a.free, x) /\ x < a.sbrk
  BY DEF AreaInv, AreaShape, Partitioned
<1>2. \A x \in Nat : In(a.table[s], x) => ~Available(a, x)
  BY <1>1 DEF Available
<1>3. /\ AreaShape(b) /\ b.table = [a.table EXCEPT ![s] = Unused] /\ b.sbrk = a.sbrk
      /\ \A x \in Nat : Holds(b.free, x) <=> Holds(a.free, x) \/ In(a.table[s], x)
      /\ Disjoint(b.free)
  BY <1>1, <1>2, ReleaseProperties
<1> HIDE DEF b
<1>4. Partitioned(b.table, b.free, b.sbrk)
  <2>1. /\ b.free \in Seq(Spans) /\ b.free # <<>> /\ Unused.to <= a.sbrk
        /\ \A k \in 1 .. Len(b.free) : b.free[k].to <= a.sbrk
        /\ \A x \in Nat : ~(a.sbrk <= x /\ x < a.sbrk)
        /\ a.sbrk <= a.sbrk
    BY <1>1, <1>3, UnusedProperties DEF AreaShape, Areas
  <2>2. \A x \in Nat : /\ ~(Holds(b.free, x) /\ In(Unused, x))
                       /\ Holds(b.free, x) \/ In(Unused, x) <=>
                            Holds(a.free, x) \/ In(a.table[s], x)
                              \/ (a.sbrk <= x /\ x < a.sbrk)
    BY <1>3, <2>1, UnusedProperties
  <2> QED
    BY <1>1, <1>3, <2>1, <2>2, UnusedProperties, Rearranged DEF AreaInv
<1>5. AreaInv(b)
  BY <1>3, <1>4 DEF AreaInv, AreaShape
<1> QED
  BY <1>3, <1>5 DEF b

-----------------------------------------------------------------------------
(* Addresses as sets.                                                         *)

\* The addresses of a region, and when two regions share one.
LEMMA AddressesOf ==
  ASSUME NEW r \in Spans
  PROVE  \A x : x \in Addresses(r) <=> x \in Nat /\ In(r, x)
<1>1. r.from \in Nat /\ r.to \in Nat
  BY DEF Spans
<1> QED
  BY <1>1 DEF Addresses, In

LEMMA OverlapMeans ==
  ASSUME NEW r \in Spans, NEW s \in Spans
  PROVE  Overlap(r, s) <=> \E x \in Nat : In(r, x) /\ In(s, x)
BY AddressesOf DEF Overlap
==============================================================================
