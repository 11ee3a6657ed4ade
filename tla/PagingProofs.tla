---------------------------- MODULE PagingProofs -----------------------------
(* Proofs about Paging for any number of processes, pages, frames, slots and  *)
(* values.  The one hypothesis is that a page table entry can hold the number *)
(* of every frame, which the program does not check.                          *)
EXTENDS Paging, SequenceTheorems, WellFoundedInduction, TLAPS

FramesFit == NumFrames <= FpnLimit

-----------------------------------------------------------------------------
(* The lists of free frames (mm-memphy.c): what taking a frame off a list,    *)
(* putting one back and taking a run out of the middle leave.                 *)

\* Every set of natural numbers that is not empty has a least element.
LEMMA LeastNatural ==
  ASSUME NEW T, T \subseteq Nat, T # {}
  PROVE  \E x \in T : \A y \in T : x <= y
<1>1. PICK x \in T : \A y \in T : <<y, x>> \notin OpToRel(<, Nat)
  BY WFMin, NatLessThanWellFounded
<1>2. \A y \in T : ~(y < x)
  BY <1>1 DEF OpToRel
<1> QED
  BY <1>2

\* The head of a list without doubles is not in the rest of it.
LEMMA TakeHead ==
  ASSUME NEW S, NEW s \in Seq(S), s # <<>>
  PROVE  /\ Head(s) \in S /\ Head(s) \in ToSet(s)
         /\ Tail(s) \in Seq(S)
         /\ IsInjective(s) => /\ IsInjective(Tail(s))
                              /\ ToSet(Tail(s)) = ToSet(s) \ {Head(s)}
<1>1. /\ Head(s) = s[1] /\ Len(s) \in Nat \ {0} /\ DOMAIN s = 1 .. Len(s)
      /\ Tail(s) \in Seq(S) /\ Len(Tail(s)) = Len(s) - 1
      /\ DOMAIN Tail(s) = 1 .. Len(s) - 1
      /\ \A i \in 1 .. Len(s) - 1 : Tail(s)[i] = s[i + 1]
  BY HeadTailProperties, LenProperties, EmptySeq
<1>2. Head(s) \in S /\ Head(s) \in ToSet(s)
  BY <1>1 DEF ToSet
<1>3. ASSUME IsInjective(s)
      PROVE  IsInjective(Tail(s)) /\ ToSet(Tail(s)) = ToSet(s) \ {Head(s)}
  <2>1. IsInjective(Tail(s))
    BY <1>1, <1>3 DEF IsInjective
  <2>2. ASSUME NEW x \in ToSet(Tail(s)) PROVE x \in ToSet(s) \ {Head(s)}
    BY <1>1, <1>3, <2>2 DEF IsInjective, ToSet
  <2>3. ASSUME NEW x \in ToSet(s), x # Head(s) PROVE x \in ToSet(Tail(s))
    <3>1. PICK i \in 1 .. Len(s) : x = s[i]
      BY <1>1 DEF ToSet
    <3>2. i - 1 \in 1 .. Len(s) - 1 /\ x = Tail(s)[i - 1]
      BY <1>1, <2>3, <3>1
    <3> QED
      BY <1>1, <3>2 DEF ToSet
  <2> QED
    BY <2>1, <2>2, <2>3
<1> QED
  BY <1>1, <1>2, <1>3

\* A new element at the head of a list without doubles.
LEMMA PutHead ==
  ASSUME NEW S, NEW s \in Seq(S), NEW x \in S
  PROVE  /\ <<x>> \o s \in Seq(S) /\ <<x>> \o s # <<>>
         /\ ToSet(<<x>> \o s) = ToSet(s) \cup {x}
         /\ IsInjective(s) /\ x \notin ToSet(s) => IsInjective(<<x>> \o s)
<1> DEFINE t == <<x>> \o s
<1>1. <<x>> \in Seq(S) /\ Len(<<x>>) = 1 /\ <<x>>[1] = x
  OBVIOUS
<1>2. /\ t \in Seq(S) /\ Len(t) = Len(s) + 1 /\ Len(s) \in Nat
      /\ DOMAIN s = 1 .. Len(s) /\ DOMAIN t = 1 .. Len(s) + 1
      /\ t[1] = x /\ \A i \in 2 .. Len(s) + 1 : t[i] = s[i - 1]
  <2>1. /\ t \in Seq(S) /\ Len(t) = 1 + Len(s)
        /\ \A i \in 1 .. 1 + Len(s) :
             t[i] = IF i <= 1 THEN <<x>>[i] ELSE s[i - 1]
    BY <1>1, ConcatProperties
  <2> QED
    BY <1>1, <2>1, LenProperties
<1> HIDE DEF t
<1>3. \A i \in 1 .. Len(s) : i + 1 \in 2 .. Len(s) + 1 /\ t[i + 1] = s[i]
  BY <1>2
<1>4. ToSet(t) = ToSet(s) \cup {x}
  <2>1. ASSUME NEW y \in ToSet(s) PROVE y \in ToSet(t)
    BY <1>2, <1>3 DEF ToSet
  <2>2. x \in ToSet(t)
    BY <1>2 DEF ToSet
  <2>3. ASSUME NEW y \in ToSet(t) PROVE y \in ToSet(s) \cup {x}
    BY <1>2 DEF ToSet
  <2> QED
    BY <2>1, <2>2, <2>3
<1>5. ASSUME IsInjective(s), x \notin ToSet(s),
             NEW i \in 1 .. Len(s) + 1, NEW j \in 1 .. Len(s) + 1, t[i] = t[j]
      PROVE  i = j
  <2>1. ASSUME NEW k \in 2 .. Len(s) + 1 PROVE t[k] # x
    <3>1. k - 1 \in DOMAIN s /\ t[k] = s[k - 1]
      BY <1>2
    <3>2. s[k - 1] \in ToSet(s)
      BY <3>1 DEF ToSet
    <3> QED
      BY <1>5, <3>1, <3>2
  <2>2. CASE i = 1 \/ j = 1
    BY <1>2, <1>5, <2>1, <2>2
  <2>3. CASE i # 1 /\ j # 1
    <3>1. i - 1 \in DOMAIN s /\ j - 1 \in DOMAIN s /\ s[i - 1] = s[j - 1]
      BY <1>2, <1>5, <2>3
    <3>2. i - 1 = j - 1
      BY <1>5, <3>1 DEF IsInjective
    <3> QED
      BY <3>2
  <2> QED
    BY <2>2, <2>3
<1>6. t # <<>>
  BY <1>2
<1> QED
  BY <1>2, <1>4, <1>5, <1>6 DEF t, IsInjective

\* A list without its last element.
LEMMA DropLast ==
  ASSUME NEW S, NEW s \in Seq(S), s # <<>>
  PROVE  /\ Len(s) \in DOMAIN s /\ s[Len(s)] \in S /\ s[Len(s)] \in ToSet(s)
         /\ SubSeq(s, 1, Len(s) - 1) \in Seq(S)
         /\ IsInjective(s) =>
              /\ IsInjective(SubSeq(s, 1, Len(s) - 1))
              /\ ToSet(SubSeq(s, 1, Len(s) - 1)) = ToSet(s) \ {s[Len(s)]}
<1> DEFINE t == SubSeq(s, 1, Len(s) - 1)
<1>1. /\ Len(s) \in Nat \ {0} /\ DOMAIN s = 1 .. Len(s)
      /\ \A i \in 1 .. Len(s) : s[i] \in S
  BY LenProperties, EmptySeq, ElementOfSeq
<1>2. /\ t \in Seq(S) /\ DOMAIN t = 1 .. Len(s) - 1
      /\ \A i \in 1 .. Len(s) - 1 : t[i] = s[i]
  BY <1>1, SubSeqProperties, LenProperties
<1> HIDE DEF t
<1>3. Len(s) \in DOMAIN s /\ s[Len(s)] \in S /\ s[Len(s)] \in ToSet(s)
  BY <1>1 DEF ToSet
<1>4. ASSUME IsInjective(s)
      PROVE  IsInjective(t) /\ ToSet(t) = ToSet(s) \ {s[Len(s)]}
  <2>1. IsInjective(t)
    BY <1>1, <1>2, <1>4 DEF IsInjective
  <2>2. ASSUME NEW y \in ToSet(t) PROVE y \in ToSet(s) \ {s[Len(s)]}
    BY <1>1, <1>2, <1>4 DEF IsInjective, ToSet
  <2>3. ASSUME NEW y \in ToSet(s), y # s[Len(s)] PROVE y \in ToSet(t)
    BY <1>1, <1>2, <2>3 DEF ToSet
  <2> QED
    BY <2>1, <2>2, <2>3
<1> QED
  BY <1>2, <1>3, <1>4 DEF t

\* A formatted device: its n frames, each once.
LEMMA FormatFreeProperties ==
  ASSUME NEW n \in Nat
  PROVE  /\ FormatFree(n) \in Seq(0 .. n - 1)
         /\ IsInjective(FormatFree(n))
         /\ ToSet(FormatFree(n)) = 0 .. n - 1
<1>1. FormatFree(n) \in [1 .. n -> 0 .. n - 1] /\ DOMAIN FormatFree(n) = 1 .. n
  BY DEF FormatFree
<1>2. FormatFree(n) \in Seq(0 .. n - 1)
  BY <1>1, SeqDef
<1>3. IsInjective(FormatFree(n))
  BY DEF FormatFree, IsInjective
<1>4. ASSUME NEW f \in 0 .. n - 1 PROVE f \in ToSet(FormatFree(n))
  <2>1. f + 1 \in 1 .. n /\ FormatFree(n)[f + 1] = f
    BY DEF FormatFree
  <2> QED
    BY <1>1, <2>1 DEF ToSet
<1>5. ToSet(FormatFree(n)) \subseteq 0 .. n - 1
  BY <1>1 DEF ToSet
<1> QED
  BY <1>2, <1>3, <1>4, <1>5

-----------------------------------------------------------------------------
(* The contiguous allocation.  Kept is defined by recursion along the list,   *)
(* so that the function exists and what it returns are shown by induction,    *)
(* as the absence of a least counterexample.                                  *)

\* A set of counterexamples that has no first one is empty.
LEMMA NoFirstCounterexample ==
  ASSUME NEW n \in Nat, NEW B, B \subseteq 0 .. n, 0 \notin B,
         \A i \in 1 .. n : i - 1 \notin B => i \notin B
  PROVE  B = {}
<1>1. SUFFICES ASSUME B # {} PROVE FALSE
  OBVIOUS
<1>2. B \subseteq Nat
  OBVIOUS
<1>3. PICK k \in B : \A j \in B : k <= j
  BY <1>1, <1>2, LeastNatural
<1>4. k \in 1 .. n /\ k - 1 \notin B
  BY <1>2, <1>3
<1> QED
  BY <1>3, <1>4

Step(F, free, R, i) ==
  IF i = 0 THEN <<>>
  ELSE IF free[i] \in R THEN F[i - 1] ELSE Append(F[i - 1], free[i])

\* F is a solution of the recursion up to place m of the list.
Solves(F, free, R, m) == F = [i \in 0 .. m |-> Step(F, free, R, i)]

\* The recursion has a solution on every initial part of the list.
LEMMA KeptExists ==
  ASSUME NEW S, NEW free \in Seq(S), NEW R
  PROVE  \A m \in 0 .. Len(free) : \E F : Solves(F, free, R, m)
<1> DEFINE Bad == {k \in 0 .. Len(free) : ~ \E F : Solves(F, free, R, k)}
<1>1. Len(free) \in Nat
  BY LenProperties
<1>2. 0 \notin Bad
  <2> DEFINE F == [i \in 0 .. 0 |-> <<>>]
  <2>1. Solves(F, free, R, 0)
    BY DEF Solves, Step
  <2> QED
    BY <2>1
<1>3. ASSUME NEW k \in 1 .. Len(free), k - 1 \notin Bad PROVE k \notin Bad
  <2>1. PICK G : Solves(G, free, R, k - 1)
    BY <1>1, <1>3
  <2> DEFINE F == [i \in 0 .. k |-> IF i = k THEN Step(G, free, R, k) ELSE G[i]]
  <2>2. Step(F, free, R, k) = Step(G, free, R, k)
    BY <1>1 DEF Step
  <2>3. ASSUME NEW i \in 0 .. k - 1 PROVE F[i] = Step(F, free, R, i)
    <3>1. F[i] = Step(G, free, R, i)
      BY <1>1, <2>1 DEF Solves
    <3>2. i # 0 => F[i - 1] = G[i - 1]
      BY <1>1
    <3> QED
      BY <3>1, <3>2 DEF Step
  <2>4. \A i \in 0 .. k : F[i] = Step(F, free, R, i)
    BY <1>1, <2>2, <2>3
  <2>5. Solves(F, free, R, k)
    BY <2>4 DEF Solves
  <2> QED
    BY <2>5
<1>4. Bad \subseteq 0 .. Len(free)
  OBVIOUS
<1>5. Bad = {}
  <2> HIDE DEF Bad
  <2> QED
    BY <1>1, <1>2, <1>3, <1>4, NoFirstCounterexample
<1> QED
  BY <1>5

\* What is kept of the first i frames of the list.
KeptOf(K, S, free, R, i) ==
  /\ K[i] \in Seq(S)
  /\ ToSet(K[i]) = {free[j] : j \in 1 .. i} \ R
  /\ IsInjective(free) => IsInjective(K[i])

\* One step along the list.
LEMMA KeptStep ==
  ASSUME NEW S, NEW free \in Seq(S), NEW R, NEW K,
         Solves(K, free, R, Len(free)),
         NEW i \in 1 .. Len(free), KeptOf(K, S, free, R, i - 1)
  PROVE  KeptOf(K, S, free, R, i)
<1>1. Len(free) \in Nat /\ DOMAIN free = 1 .. Len(free)
  BY LenProperties
<1>2. K[i] = IF free[i] \in R THEN K[i - 1] ELSE Append(K[i - 1], free[i])
  <2>1. i \in 0 .. Len(free) /\ i # 0
    BY <1>1
  <2>2. K[i] = Step(K, free, R, i)
    BY <2>1 DEF Solves
  <2> QED
    BY <2>1, <2>2 DEF Step
<1>3. {free[j] : j \in 1 .. i} = {free[j] : j \in 1 .. i - 1} \cup {free[i]}
  BY <1>1
<1>4. CASE free[i] \in R
  BY <1>2, <1>3, <1>4 DEF KeptOf
<1>5. CASE free[i] \notin R
  <2> DEFINE s == K[i - 1]
  <2>1. /\ s \in Seq(S) /\ ToSet(s) = {free[j] : j \in 1 .. i - 1} \ R
        /\ IsInjective(free) => IsInjective(s)
    BY DEF KeptOf
  <2>2. free[i] \in S
    BY ElementOfSeq
  <2>3. /\ K[i] \in Seq(S) /\ Len(K[i]) = Len(s) + 1 /\ Len(s) \in Nat
        /\ \A j \in 1 .. Len(s) : K[i][j] = s[j]
        /\ K[i][Len(s) + 1] = free[i]
        /\ DOMAIN s = 1 .. Len(s) /\ DOMAIN K[i] = 1 .. Len(s) + 1
    BY <1>2, <1>5, <2>1, <2>2, AppendProperties, LenProperties
  <2> HIDE DEF s
  <2>4. ToSet(K[i]) = ToSet(s) \cup {free[i]}
    <3>1. ASSUME NEW x \in ToSet(K[i]) PROVE x \in ToSet(s) \cup {free[i]}
      BY <2>3 DEF ToSet
    <3>2. ASSUME NEW x \in ToSet(s) PROVE x \in ToSet(K[i])
      BY <2>3 DEF ToSet
    <3>3. free[i] \in ToSet(K[i])
      BY <2>3 DEF ToSet
    <3> QED
      BY <3>1, <3>2, <3>3
  <2>5. ASSUME IsInjective(free) PROVE IsInjective(K[i])
    <3>1. free[i] \notin ToSet(s)
      BY <1>1, <2>1, <2>5 DEF IsInjective
    <3>2. \A j \in 1 .. Len(s) : K[i][j] # free[i]
      BY <2>3, <3>1 DEF ToSet
    <3>3. \A j, k \in 1 .. Len(s) : s[j] = s[k] => j = k
      BY <2>1, <2>3, <2>5 DEF IsInjective
    <3>4. ASSUME NEW j \in 1 .. Len(s) + 1, NEW k \in 1 .. Len(s) + 1, K[i][j] = K[i][k]
          PROVE  j = k
      <4>1. CASE j = Len(s) + 1 \/ k = Len(s) + 1
        BY <2>3, <3>2, <3>4, <4>1
      <4>2. CASE j # Len(s) + 1 /\ k # Len(s) + 1
        <5>1. j \in 1 .. Len(s) /\ k \in 1 .. Len(s)
          BY <2>3, <4>2
        <5> QED
          BY <2>3, <3>3, <3>4, <5>1
      <4> QED
        BY <4>1, <4>2
    <3> QED
      BY <2>3, <3>4 DEF IsInjective
  <2>6. ToSet(K[i]) = {free[j] : j \in 1 .. i} \ R
    BY <1>3, <1>5, <2>1, <2>4
  <2> QED
    BY <2>3, <2>5, <2>6 DEF KeptOf
<1> QED
  BY <1>4, <1>5

\* The other frames stay on the list, each once if it was there once.
LEMMA TakeRun ==
  ASSUME NEW S, NEW free \in Seq(S), NEW f \in Nat, NEW n \in Nat
  PROVE  /\ AfterGetRun(free, f, n) \in Seq(S)
         /\ ToSet(AfterGetRun(free, f, n)) = ToSet(free) \ (f .. f + n - 1)
         /\ IsInjective(free) => IsInjective(AfterGetRun(free, f, n))
<1> DEFINE R == f .. f + n - 1
           K == CHOOSE F : Solves(F, free, R, Len(free))
           Bad == {i \in 0 .. Len(free) : ~KeptOf(K, S, free, R, i)}
<1>1. Len(free) \in Nat /\ DOMAIN free = 1 .. Len(free)
  BY LenProperties
<1>2. AfterGetRun(free, f, n) = K[Len(free)]
  BY DEF AfterGetRun, Step, Solves
<1> HIDE DEF R
<1>3. Solves(K, free, R, Len(free))
  <2>1. Len(free) \in 0 .. Len(free)
    BY <1>1
  <2>2. \A m \in 0 .. Len(free) : \E F : Solves(F, free, R, m)
    <3> HIDE DEF K
    <3> QED
      BY KeptExists
  <2>3. \E F : Solves(F, free, R, Len(free))
    BY <2>1, <2>2
  <2> QED
    BY <2>3
<1> HIDE DEF K
<1>4. KeptOf(K, S, free, R, 0)
  <2>1. K[0] = <<>>
    BY <1>1, <1>3 DEF Step, Solves
  <2>2. ToSet(<<>>) = {} /\ IsInjective(<<>>)
    BY DEF ToSet, IsInjective
  <2> QED
    BY <2>1, <2>2 DEF KeptOf
<1>5. /\ Bad \subseteq 0 .. Len(free) /\ 0 \notin Bad
      /\ \A i \in 1 .. Len(free) : i - 1 \notin Bad => i \notin Bad
  BY <1>1, <1>3, <1>4, KeptStep
<1>6. Bad = {}
  <2> HIDE DEF Bad
  <2> QED
    BY <1>1, <1>5, NoFirstCounterexample
<1>7. KeptOf(K, S, free, R, Len(free))
  BY <1>1, <1>6
<1>8. {free[j] : j \in 1 .. Len(free)} = ToSet(free)
  BY <1>1 DEF ToSet
<1> QED
  BY <1>2, <1>7, <1>8 DEF KeptOf, R

\* The run that is found is free and lies within the device.
LEMMA FindRun ==
  ASSUME NEW free, NEW n \in Nat, NEW total \in Nat, HasFreeRun(free, n, total)
  PROVE  LET f == FreeRun(free, n, total) IN
           /\ f \in Nat /\ f + n <= total
           /\ f .. f + n - 1 \subseteq ToSet(free)
<1> DEFINE T == {f \in 0 .. total : IsFreeRun(free, f, n, total)}
<1>1. T \subseteq Nat /\ T # {}
  BY DEF HasFreeRun
<1>2. PICK f \in T : \A e \in T : f <= e
  <2> HIDE DEF T
  <2> QED
    BY <1>1, LeastNatural
<1>3. \A e \in 0 .. f - 1 : ~IsFreeRun(free, e, n, total)
  BY <1>2
<1>4. FreeRun(free, n, total) \in T
  BY <1>2, <1>3 DEF FreeRun
<1> QED
  BY <1>4 DEF IsFreeRun

\* A list with n more elements.
LEMMA PutRun ==
  ASSUME NEW S, NEW s \in Seq(S), NEW n \in Nat, NEW F \in [1 .. n -> S]
  PROVE  /\ s \o F \in Seq(S) /\ Len(s \o F) = Len(s) + n /\ Len(s) \in Nat
         /\ \A i \in 1 .. Len(s) : (s \o F)[i] = s[i]
         /\ \A i \in Len(s) + 1 .. Len(s) + n : (s \o F)[i] = F[i - Len(s)]
<1>1. F \in Seq(S) /\ Len(F) = n
  BY SeqDef, LenProperties
<1>2. Len(s) \in Nat
  BY LenProperties
<1>3. /\ s \o F \in Seq(S) /\ Len(s \o F) = Len(s) + n
      /\ \A i \in 1 .. Len(s) + n :
           (s \o F)[i] = IF i <= Len(s) THEN s[i] ELSE F[i - Len(s)]
  BY <1>1, ConcatProperties
<1> QED
  BY <1>2, <1>3

-----------------------------------------------------------------------------
(* The inductive invariant.                                                   *)

\* Pages above the end of the area have no entry and have not been written.
BeyondEnd ==
  \A p \in Procs, g \in Pages : ~Mapped(p, g) =>
    pte[p][g] = EmptyEntry /\ cells[p][g] = NotWritten

\* A byte on its way to user memory goes to a mapped page.
CopyMapped ==
  \A p \in Procs : copy[p].to = "user" => Mapped(p, copy[p].page)

Inv == /\ TypeOK
       /\ FrameExclusive
       /\ SlotExclusive
       /\ FifoPresent
       /\ MemoryIntegrity
       /\ KernelIntegrity
       /\ BeyondEnd
       /\ CopyMapped

-----------------------------------------------------------------------------
(* Entries.                                                                   *)

\* What kind of location an entry names.
LEMMA EntryFields ==
  ASSUME NEW F, NEW S, NEW e \in EntrySet(F, S)
  PROVE  /\ e.st \in {"none", "ram", "swap"} /\ e.dirty \in BOOLEAN
         /\ e.st = "ram" => e.loc \in F
         /\ e.st = "swap" => e.loc \in S
         /\ e.st = "none" => e = EmptyEntry
<1>1. CASE e = EmptyEntry
  BY <1>1 DEF EmptyEntry
<1>2. CASE e \in [st : {"ram"}, dirty : BOOLEAN, loc : F]
  BY <1>2
<1>3. CASE e \in [st : {"swap"}, dirty : BOOLEAN, loc : S]
  BY <1>3
<1> QED
  BY <1>1, <1>2, <1>3 DEF EntrySet

\* The operations on entries keep to the set of entries.
LEMMA LoadedEntry ==
  ASSUME FramesFit, NEW S, NEW e, NEW f \in Frames
  PROVE  /\ Loaded(e, f) \in EntrySet(Frames, S)
         /\ Loaded(e, f).st = "ram" /\ Loaded(e, f).loc = f
         /\ Loaded(e, f).dirty = InSwap(e)
<1>1. f % FpnLimit = f
  BY FpnAssumption, PagingAssumption DEF FramesFit, Frames
<1>2. InSwap(e) \in BOOLEAN
  BY DEF InSwap
<1> QED
  BY <1>1, <1>2 DEF Loaded, EntrySet

LEMMA SetSwapEntry ==
  ASSUME NEW F, NEW S, NEW e \in EntrySet(F, S), NEW s \in S
  PROVE  /\ SetSwap(e, s) \in EntrySet(F, S)
         /\ SetSwap(e, s).st = "swap" /\ SetSwap(e, s).loc = s
         /\ SetSwap(e, s).dirty = e.dirty
<1>1. e.dirty \in BOOLEAN
  BY EntryFields
<1> QED
  BY <1>1 DEF SetSwap, EntrySet

LEMMA TouchedEntry ==
  ASSUME NEW F, NEW S, NEW e \in EntrySet(F, S), InRam(e)
  PROVE  /\ Touched(e) \in EntrySet(F, S)
         /\ Touched(e).st = "ram" /\ Touched(e).loc = e.loc
         /\ Touched(e).dirty = TRUE
<1>1. e.st = "ram" /\ e.loc \in F
  BY EntryFields DEF InRam
<1> QED
  BY <1>1 DEF Touched, EntrySet

LEMMA PinnedEntry ==
  ASSUME FramesFit, NEW f \in Frames
  PROVE  Pinned(f) \in EntrySet(Frames, {}) /\ Pinned(f).loc = f
<1>1. f % FpnLimit = f
  BY FpnAssumption, PagingAssumption DEF FramesFit, Frames
<1> QED
  BY <1>1 DEF Pinned, EntrySet

-----------------------------------------------------------------------------
(* What pg_getpage leaves, case by case.                                      *)

\* The page is in RAM: nothing changes.
LEMMA GetPageHit ==
  ASSUME NEW p, NEW g, Present(p, g)
  PROVE  LET s == GetPage(p, g) IN
           /\ s.pt = pte[p] /\ s.list = fifo[p]
           /\ s.ram = ram /\ s.ramFree = ramFree
           /\ s.swp = swp /\ s.swpFree = swpFree
BY DEF GetPage

\* There is a free frame.
LEMMA GetPageFresh ==
  ASSUME NEW p, NEW g, ~Present(p, g), ramFree # <<>>
  PROVE  LET s == GetPage(p, g)
             f == Head(ramFree)
         IN  /\ s.pt = [pte[p] EXCEPT ![g] = Loaded(@, f)]
             /\ s.list = <<g>> \o fifo[p]
             /\ s.ram = SwappedIn(pte[p][g], f, swp)
             /\ s.ramFree = Tail(ramFree)
             /\ s.swp = swp
             /\ s.swpFree = GivenBack(pte[p][g], swpFree)
BY DEF GetPage, PageIn, Enlisted, FirstFree, AfterGet

\* The frame of a victim is used.
LEMMA GetPageEvict ==
  ASSUME NEW p, NEW g, ~Present(p, g), ramFree = <<>>
  PROVE  LET s == GetPage(p, g)
             v == Victim(p)
             f == pte[p][v].loc
             slot == Head(swpFree)
             out == SwappedOut(pte[p][v], slot)
         IN  /\ s.pt = [[pte[p] EXCEPT ![v] = SetSwap(@, slot)]
                          EXCEPT ![g] = Loaded(@, f)]
             /\ s.list = <<g>> \o WithoutVictim(p)
             /\ s.ram = SwappedIn(pte[p][g], f, out)
             /\ s.ramFree = ramFree
             /\ s.swp = out
             /\ s.swpFree = GivenBack(pte[p][g], Tail(swpFree))
BY DEF GetPage, PageIn, Enlisted, FirstFree, AfterGet

-----------------------------------------------------------------------------
(* Frames and slots, one page table at a time; st is "ram" for the first and  *)
(* "swap" for the second.  An access of process p changes only its own table  *)
(* and the free lists; that frames and slots stay exclusive follows from what *)
(* it does to these.                                                          *)

\* The locations that the entries of a table name.
Own(pt, st) == {pt[h].loc : h \in {k \in Pages : pt[k].st = st}}

\* No two entries of a table name the same location.
Once(pt, st) ==
  \A h, k \in Pages :
    pt[h].st = st /\ pt[k].st = st /\ pt[h].loc = pt[k].loc => h = k

\* No two entries of all the tables name the same location.
Differ(T, st) ==
  \A q, r \in Procs, h, k \in Pages :
    T[q][h].st = st /\ T[r][k].st = st /\ T[q][h].loc = T[r][k].loc
    => q = r /\ h = k

\* The locations that all the tables name.
AllOwn(T, st) == UNION {Own(T[q], st) : q \in Procs}

\* Every location of a device with locations all is behind an entry of a table,
\* once on the free list, or put aside.
Apart(T, free, rest, all, st) ==
  /\ Differ(T, st)
  /\ IsInjective(free)
  /\ AllOwn(T, st) \cap ToSet(free) = {}
  /\ AllOwn(T, st) \cap rest = {}
  /\ rest \cap ToSet(free) = {}
  /\ all = AllOwn(T, st) \cup ToSet(free) \cup rest

\* Table pt and list free share out what table old and list oldFree did.
Keeps(pt, free, old, oldFree, st) ==
  /\ Once(pt, st) /\ IsInjective(free)
  /\ Own(pt, st) \cup ToSet(free) = Own(old, st) \cup ToSet(oldFree)
  /\ Own(pt, st) \cap ToSet(free) = {}

Table == [Pages -> EntrySet(Frames, Slots)]

\* The locations in a table are frames and slots.
LEMMA OwnType ==
  ASSUME NEW pt \in Table
  PROVE  Own(pt, "ram") \subseteq Frames /\ Own(pt, "swap") \subseteq Slots
<1>1. \A h \in Pages : pt[h] \in EntrySet(Frames, Slots)
  BY DEF Table
<1> QED
  BY <1>1, EntryFields DEF Own

\* Entries of all processes differ if those of each do and no two share.
LEMMA DifferByProcess ==
  ASSUME NEW T, NEW st
  PROVE  Differ(T, st) <=>
           /\ \A q \in Procs : Once(T[q], st)
           /\ \A q, r \in Procs : q # r => Own(T[q], st) \cap Own(T[r], st) = {}
<1>1. ASSUME Differ(T, st)
      PROVE  /\ \A q \in Procs : Once(T[q], st)
             /\ \A q, r \in Procs : q # r => Own(T[q], st) \cap Own(T[r], st) = {}
  BY <1>1 DEF Differ, Once, Own
<1>2. ASSUME \A q \in Procs : Once(T[q], st),
             \A q, r \in Procs : q # r => Own(T[q], st) \cap Own(T[r], st) = {},
             NEW q \in Procs, NEW r \in Procs, NEW h \in Pages, NEW k \in Pages,
             T[q][h].st = st, T[r][k].st = st, T[q][h].loc = T[r][k].loc
      PROVE  q = r /\ h = k
  <2>1. T[q][h].loc \in Own(T[q], st) /\ T[r][k].loc \in Own(T[r], st)
    BY <1>2 DEF Own
  <2>2. q = r
    BY <1>2, <2>1
  <2> QED
    BY <1>2, <2>2 DEF Once
<1> QED
  BY <1>1, <1>2 DEF Differ

\* The parts of FrameExclusive and SlotExclusive in these terms.
LEMMA ByKind ==
  ASSUME NEW T \in [Procs -> Table]
  PROVE  /\ {f \in Frames : \E p \in Procs, g \in Pages :
                              InRam(T[p][g]) /\ T[p][g].loc = f}
              = AllOwn(T, "ram")
         /\ {s \in Slots : \E p \in Procs, g \in Pages :
                             InSwap(T[p][g]) /\ T[p][g].loc = s}
              = AllOwn(T, "swap")
<1>1. \A p \in Procs : /\ Own(T[p], "ram") \subseteq Frames
                       /\ Own(T[p], "swap") \subseteq Slots
  BY OwnType
<1> QED
  BY <1>1 DEF AllOwn, Own, InRam, InSwap

\* A process that keeps what it and a free list have between them keeps all
\* locations apart, and loses none.
LEMMA KeepsApart ==
  ASSUME NEW T \in [Procs -> Table], NEW T1 \in [Procs -> Table],
         NEW p \in Procs, \A q \in Procs : q # p => T1[q] = T[q],
         NEW free, NEW free1, NEW rest, NEW all, NEW st,
         Apart(T, free, rest, all, st),
         Keeps(T1[p], free1, T[p], free, st)
  PROVE  Apart(T1, free1, rest, all, st)
<1> DEFINE O(q) == Own(T[q], st)
           O1(q) == Own(T1[q], st)
<1>1. /\ Differ(T, st)
      /\ AllOwn(T, st) \cap ToSet(free) = {}
      /\ AllOwn(T, st) \cap rest = {}
      /\ rest \cap ToSet(free) = {}
      /\ all = AllOwn(T, st) \cup ToSet(free) \cup rest
  BY DEF Apart
<1>2. /\ \A q \in Procs : Once(T[q], st)
      /\ \A q, r \in Procs : q # r => O(q) \cap O(r) = {}
  BY <1>1, DifferByProcess
<1>3. /\ Once(T1[p], st) /\ IsInjective(free1)
      /\ O1(p) \cup ToSet(free1) = O(p) \cup ToSet(free)
      /\ O1(p) \cap ToSet(free1) = {}
  BY DEF Keeps
<1>4. \A q \in Procs : q # p => O1(q) = O(q)
  OBVIOUS
<1>5. \A q \in Procs : O(q) \cap ToSet(free) = {} /\ O(q) \cap rest = {}
  BY <1>1 DEF AllOwn
<1>6. \A q \in Procs : Once(T1[q], st)
  BY <1>2, <1>3
<1> HIDE DEF O, O1
<1>7. \A q, r \in Procs : q # r => O1(q) \cap O1(r) = {}
  BY <1>2, <1>3, <1>4, <1>5
<1>8. Differ(T1, st)
  BY <1>6, <1>7, DifferByProcess DEF O1
<1>9. \A q \in Procs : O1(q) \cap ToSet(free1) = {} /\ O1(q) \cap rest = {}
  BY <1>1, <1>2, <1>3, <1>4, <1>5
<1>10. rest \cap ToSet(free1) = {}
  BY <1>1, <1>3, <1>5
<1> DEFINE others == UNION {O(q) : q \in Procs \ {p}}
           old == UNION {O(q) : q \in Procs}
           new == UNION {O1(q) : q \in Procs}
<1>11. new = O1(p) \cup others /\ old = O(p) \cup others
  BY <1>4
<1>12. new \cap ToSet(free1) = {} /\ new \cap rest = {}
  BY <1>9
<1>13. new \cup ToSet(free1) = old \cup ToSet(free)
  <2> HIDE DEF others, old, new
  <2> QED
    BY <1>3, <1>11
<1> QED
  <2>1. AllOwn(T, st) = old /\ AllOwn(T1, st) = new
    BY DEF AllOwn, O, O1
  <2> HIDE DEF old, new
  <2> QED
    BY <1>1, <1>3, <1>8, <1>10, <1>12, <1>13, <2>1 DEF Apart

-----------------------------------------------------------------------------
(* One entry of a table changes.                                              *)

\* An entry comes to name a location of kind st.
LEMMA Gains ==
  ASSUME NEW pt \in Table, NEW g \in Pages, NEW e, NEW st,
         pt[g].st # st, e.st = st
  PROVE  LET pt1 == [pt EXCEPT ![g] = e] IN
           /\ Own(pt1, st) = Own(pt, st) \cup {e.loc}
           /\ Once(pt, st) /\ e.loc \notin Own(pt, st) => Once(pt1, st)
<1> DEFINE pt1 == [pt EXCEPT ![g] = e]
<1>1. \A h \in Pages : pt1[h] = IF h = g THEN e ELSE pt[h]
  BY DEF Table
<1> HIDE DEF pt1
<1>2. Own(pt1, st) = Own(pt, st) \cup {e.loc}
  <2>1. ASSUME NEW x \in Own(pt1, st) PROVE x \in Own(pt, st) \cup {e.loc}
    BY <1>1 DEF Own
  <2>2. ASSUME NEW x \in Own(pt, st) PROVE x \in Own(pt1, st)
    <3>1. PICK h \in Pages : pt[h].st = st /\ pt[h].loc = x
      BY DEF Own
    <3>2. pt1[h] = pt[h]
      BY <1>1, <3>1
    <3> QED
      BY <3>1, <3>2 DEF Own
  <2>3. e.loc \in Own(pt1, st)
    BY <1>1 DEF Own
  <2> QED
    BY <2>1, <2>2, <2>3
<1>3. ASSUME Once(pt, st), e.loc \notin Own(pt, st) PROVE Once(pt1, st)
  <2>1. \A h \in Pages : pt[h].st = st => pt[h].loc # e.loc
    BY <1>3 DEF Own
  <2> QED
    BY <1>1, <1>3, <2>1 DEF Once
<1> QED
  BY <1>2, <1>3 DEF pt1

\* An entry no longer names a location of kind st.
LEMMA Loses ==
  ASSUME NEW pt \in Table, NEW g \in Pages, NEW e, NEW st,
         pt[g].st = st, e.st # st, Once(pt, st)
  PROVE  LET pt1 == [pt EXCEPT ![g] = e] IN
           /\ Own(pt1, st) = Own(pt, st) \ {pt[g].loc}
           /\ Once(pt1, st)
<1> DEFINE pt1 == [pt EXCEPT ![g] = e]
<1>1. \A h \in Pages : pt1[h] = IF h = g THEN e ELSE pt[h]
  BY DEF Table
<1> HIDE DEF pt1
<1>2. ASSUME NEW x \in Own(pt1, st) PROVE x \in Own(pt, st) \ {pt[g].loc}
  <2>1. PICK h \in Pages : pt1[h].st = st /\ pt1[h].loc = x
    BY DEF Own
  <2>2. h # g /\ pt[h].st = st /\ pt[h].loc = x
    BY <1>1, <2>1
  <2> QED
    BY <2>2 DEF Own, Once
<1>3. ASSUME NEW x \in Own(pt, st), x # pt[g].loc PROVE x \in Own(pt1, st)
  <2>1. PICK h \in Pages : pt[h].st = st /\ pt[h].loc = x
    BY DEF Own
  <2>2. pt1[h] = pt[h]
    BY <1>1, <1>3, <2>1
  <2> QED
    BY <2>1, <2>2 DEF Own
<1>4. Once(pt1, st)
  BY <1>1 DEF Once
<1> QED
  BY <1>2, <1>3, <1>4 DEF pt1

\* An entry changes, but not as to locations of kind st.
LEMMA SameKind ==
  ASSUME NEW pt \in Table, NEW g \in Pages, NEW e, NEW st,
         \/ pt[g].st # st /\ e.st # st
         \/ pt[g].st = e.st /\ pt[g].loc = e.loc
  PROVE  LET pt1 == [pt EXCEPT ![g] = e] IN
           /\ Own(pt1, st) = Own(pt, st)
           /\ Once(pt, st) => Once(pt1, st)
<1> DEFINE pt1 == [pt EXCEPT ![g] = e]
<1>1. \A h \in Pages : pt1[h] = IF h = g THEN e ELSE pt[h]
  BY DEF Table
<1> HIDE DEF pt1
<1>2. \A h \in Pages : /\ pt1[h].st = st <=> pt[h].st = st
                       /\ pt[h].st = st => pt1[h].loc = pt[h].loc
  BY <1>1
<1> QED
  BY <1>2 DEF Own, Once, pt1

-----------------------------------------------------------------------------
(* The devices.                                                               *)

Mem == [Frames -> Bytes]
Swap == [Slots -> Bytes]

\* Filling a frame leaves the others alone.
LEMMA SwappedInFrame ==
  ASSUME ram \in Mem, NEW swap \in Swap, NEW f \in Frames,
         NEW e \in EntrySet(Frames, Slots)
  PROVE  LET mem == SwappedIn(e, f, swap) IN
           /\ mem \in Mem
           /\ \A x \in Frames : x # f => mem[x] = ram[x]
           /\ InSwap(e) => mem[f] = swap[e.loc]
<1>1. InSwap(e) => e.loc \in Slots
  BY EntryFields DEF InSwap
<1>2. 0 \in Bytes
  BY DEF Bytes
<1>3. CASE InSwap(e)
  <2>1. SwappedIn(e, f, swap) = [ram EXCEPT ![f] = swap[e.loc]]
    BY <1>1, <1>3 DEF SwappedIn, CopyPage, WriteFrame, ReadFrame, Mem, Swap
  <2> QED
    BY <1>1, <1>3, <2>1 DEF Mem, Swap
<1>4. CASE ~InSwap(e)
  <2>1. SwappedIn(e, f, swap) = [ram EXCEPT ![f] = 0]
    BY <1>4 DEF SwappedIn, WriteFrame, Mem
  <2> QED
    BY <1>2, <1>4, <2>1 DEF Mem
<1> QED
  BY <1>3, <1>4

\* Saving a victim leaves the other slots alone.
LEMMA SwappedOutFrame ==
  ASSUME ram \in Mem, swp \in Swap, NEW slot \in Slots,
         NEW e \in EntrySet(Frames, Slots), InRam(e)
  PROVE  LET out == SwappedOut(e, slot) IN
           /\ out \in Swap
           /\ \A x \in Slots : x # slot => out[x] = swp[x]
           /\ e.dirty => out[slot] = ram[e.loc]
<1>1. e.loc \in Frames
  BY EntryFields DEF InRam
<1>2. CASE e.dirty
  <2>1. SwappedOut(e, slot) = [swp EXCEPT ![slot] = ram[e.loc]]
    BY <1>1, <1>2 DEF SwappedOut, CopyPage, WriteFrame, ReadFrame, Mem, Swap
  <2> QED
    BY <1>1, <2>1 DEF Mem, Swap
<1>3. CASE ~e.dirty
  BY <1>3 DEF SwappedOut
<1> QED
  BY <1>2, <1>3

\* The slot of a page that was read back joins the free ones.
LEMMA GivenBackSlot ==
  ASSUME NEW e \in EntrySet(Frames, Slots), NEW free \in Seq(Slots),
         IsInjective(free), InSwap(e) => e.loc \notin ToSet(free)
  PROVE  LET free1 == GivenBack(e, free) IN
           /\ free1 \in Seq(Slots) /\ IsInjective(free1)
           /\ InSwap(e) => ToSet(free1) = ToSet(free) \cup {e.loc}
           /\ ~InSwap(e) => free1 = free
<1>1. InSwap(e) => e.loc \in Slots
  BY EntryFields DEF InSwap
<1>2. CASE InSwap(e)
  BY <1>1, <1>2, PutHead DEF GivenBack, AfterPut
<1>3. CASE ~InSwap(e)
  BY <1>3 DEF GivenBack
<1> QED
  BY <1>2, <1>3

-----------------------------------------------------------------------------
(* The contract of pg_getpage.                                                *)

\* Value v is stored behind entry e, and eviction will not lose it.
Holds(e, mem, swap, v) ==
  \/ InRam(e) /\ e.dirty /\ mem[e.loc] = v
  \/ InSwap(e) /\ swap[e.loc] = v

\* What pg_getpage finds when it is called for a page of process p.
Before(p) ==
  /\ pte[p] \in Table /\ fifo[p] \in Seq(Pages)
  /\ ram \in Mem /\ ramFree \in Seq(Frames)
  /\ swp \in Swap /\ swpFree \in Seq(Slots)
  /\ Once(pte[p], "ram") /\ Once(pte[p], "swap")
  /\ IsInjective(ramFree) /\ IsInjective(swpFree)
  /\ Own(pte[p], "ram") \cap ToSet(ramFree) = {}
  /\ Own(pte[p], "swap") \cap ToSet(swpFree) = {}
  /\ IsInjective(fifo[p])
  /\ \A h \in ToSet(fifo[p]) : InRam(pte[p][h])
  /\ \A h \in Pages : cells[p][h] # NotWritten =>
       Holds(pte[p][h], ram, swp, cells[p][h])

\* What it has done when it returns a frame for page g: the page is in RAM, no
\* frame or slot is lost or shared, only that frame and free slots were written,
\* and every value is where it can be found.
Served(p, g, s) ==
  /\ s.pt \in Table /\ s.list \in Seq(Pages)
  /\ s.ram \in Mem /\ s.ramFree \in Seq(Frames)
  /\ s.swp \in Swap /\ s.swpFree \in Seq(Slots)
  /\ InRam(s.pt[g])
  /\ Keeps(s.pt, s.ramFree, pte[p], ramFree, "ram")
  /\ Keeps(s.pt, s.swpFree, pte[p], swpFree, "swap")
  /\ IsInjective(s.list)
  /\ \A h \in ToSet(s.list) : InRam(s.pt[h])
  /\ \A f \in Frames : f # s.pt[g].loc => s.ram[f] = ram[f]
  /\ \A x \in Slots : x \notin ToSet(swpFree) => s.swp[x] = swp[x]
  /\ \A h \in Pages : cells[p][h] # NotWritten =>
       Holds(s.pt[h], s.ram, s.swp, cells[p][h])
  /\ \A h \in Pages : h # g /\ pte[p][h] = EmptyEntry => s.pt[h] = EmptyEntry

\* The page was there.
LEMMA ServedHit ==
  ASSUME NEW p, NEW g \in Pages, Before(p), Present(p, g)
  PROVE  Served(p, g, GetPage(p, g))
BY GetPageHit DEF Before, Served, Keeps, Present

\* A free frame is used.
LEMMA ServedFresh ==
  ASSUME FramesFit, NEW p, NEW g \in Pages,
         Before(p), ~Present(p, g), ramFree # <<>>
  PROVE  Served(p, g, GetPage(p, g))
<1> DEFINE s == GetPage(p, g)
           e == pte[p][g]
           f == Head(ramFree)
           n == Loaded(e, f)
<1>1. /\ s.pt = [pte[p] EXCEPT ![g] = n]
      /\ s.list = <<g>> \o fifo[p]
      /\ s.ram = SwappedIn(e, f, swp)
      /\ s.ramFree = Tail(ramFree)
      /\ s.swp = swp
      /\ s.swpFree = GivenBack(e, swpFree)
  BY GetPageFresh DEF Before, Table
<1> HIDE DEF s
<1>2. /\ f \in Frames /\ f \in ToSet(ramFree)
      /\ Tail(ramFree) \in Seq(Frames) /\ IsInjective(Tail(ramFree))
      /\ ToSet(Tail(ramFree)) = ToSet(ramFree) \ {f}
  BY TakeHead DEF Before
<1>3. e \in EntrySet(Frames, Slots) /\ e.st # "ram"
  BY DEF Before, Table, Present, InRam
<1>4. /\ n \in EntrySet(Frames, Slots) /\ n.st = "ram" /\ n.loc = f
      /\ n.dirty = InSwap(e)
  BY <1>2, LoadedEntry
<1>5. InSwap(e) => e.loc \in Own(pte[p], "swap")
  BY DEF Own, InSwap
<1> HIDE DEF e, f, n
<1>6. s.pt \in Table /\ \A h \in Pages : s.pt[h] = IF h = g THEN n ELSE pte[p][h]
  BY <1>1, <1>4 DEF Before, Table
<1>7. Keeps(s.pt, s.ramFree, pte[p], ramFree, "ram")
  <2>1. f \notin Own(pte[p], "ram")
    BY <1>2 DEF Before
  <2>2. Own(s.pt, "ram") = Own(pte[p], "ram") \cup {f} /\ Once(s.pt, "ram")
    <3>1. pte[p] \in Table /\ pte[p][g].st # "ram" /\ Once(pte[p], "ram")
      BY <1>3 DEF Before, e
    <3> DEFINE new == [pte[p] EXCEPT ![g] = n]
    <3>2. /\ Own(new, "ram") = Own(pte[p], "ram") \cup {n.loc}
          /\ Once(pte[p], "ram") /\ n.loc \notin Own(pte[p], "ram") => Once(new, "ram")
      BY <1>4, <3>1, Gains
    <3> HIDE DEF new
    <3>3. s.pt = new
      BY <1>1 DEF new
    <3> QED
      BY <1>4, <2>1, <3>1, <3>2, <3>3
  <2> QED
    BY <1>1, <1>2, <2>2 DEF Before, Keeps
<1>8. /\ s.swpFree \in Seq(Slots) /\ IsInjective(s.swpFree)
      /\ InSwap(e) => ToSet(s.swpFree) = ToSet(swpFree) \cup {e.loc}
      /\ ~InSwap(e) => s.swpFree = swpFree
  BY <1>1, <1>3, <1>5, GivenBackSlot DEF Before
<1>9. Keeps(s.pt, s.swpFree, pte[p], swpFree, "swap")
  <2>1. CASE InSwap(e)
    <3>1. Own(s.pt, "swap") = Own(pte[p], "swap") \ {e.loc} /\ Once(s.pt, "swap")
      <4>1. /\ pte[p] \in Table /\ pte[p][g].st = "swap" /\ Once(pte[p], "swap")
            /\ pte[p][g].loc = e.loc /\ n.st # "swap"
        BY <1>4, <2>1 DEF Before, InSwap, e
      <4> DEFINE new == [pte[p] EXCEPT ![g] = n]
      <4>2. /\ Own(new, "swap") = Own(pte[p], "swap") \ {pte[p][g].loc}
            /\ Once(new, "swap")
        BY <4>1, Loses
      <4> HIDE DEF new
      <4>3. s.pt = new
        BY <1>1 DEF new
      <4> QED
        BY <4>1, <4>2, <4>3
    <3> QED
      BY <1>5, <1>8, <2>1, <3>1 DEF Before, Keeps
  <2>2. CASE ~InSwap(e)
    <3>1. Own(s.pt, "swap") = Own(pte[p], "swap") /\ Once(s.pt, "swap")
      <4>1. /\ pte[p] \in Table /\ pte[p][g].st # "swap" /\ Once(pte[p], "swap")
            /\ n.st # "swap"
        BY <1>4, <2>2 DEF Before, InSwap, e
      <4> QED
        BY <1>1, <4>1, SameKind
    <3> QED
      BY <1>8, <2>2, <3>1 DEF Before, Keeps
  <2> QED
    BY <2>1, <2>2
<1>10. /\ s.list \in Seq(Pages) /\ IsInjective(s.list)
       /\ \A h \in ToSet(s.list) : InRam(s.pt[h])
  <2>1. g \notin ToSet(fifo[p])
    BY DEF Before, Present
  <2>2. ToSet(fifo[p]) \subseteq Pages
    BY LenProperties, ElementOfSeq DEF Before, ToSet
  <2>3. /\ s.list \in Seq(Pages) /\ IsInjective(s.list)
        /\ ToSet(s.list) = ToSet(fifo[p]) \cup {g}
    BY <1>1, <2>1, PutHead DEF Before
  <2> QED
    BY <1>4, <1>6, <2>1, <2>2, <2>3 DEF Before, InRam
<1>11. /\ s.ram \in Mem /\ \A x \in Frames : x # f => s.ram[x] = ram[x]
       /\ InSwap(e) => s.ram[f] = swp[e.loc]
  BY <1>1, <1>2, <1>3, SwappedInFrame DEF Before
<1>12. ASSUME NEW h \in Pages, cells[p][h] # NotWritten
       PROVE  Holds(s.pt[h], s.ram, s.swp, cells[p][h])
  <2>1. Holds(pte[p][h], ram, swp, cells[p][h])
    BY <1>12 DEF Before
  <2>2. CASE h = g
    <3>1. InSwap(e) /\ swp[e.loc] = cells[p][h]
      BY <1>3, <2>1, <2>2 DEF Holds, InRam, e
    <3> QED
      BY <1>4, <1>6, <1>11, <2>2, <3>1 DEF Holds, InRam
  <2>3. CASE h # g /\ InRam(pte[p][h])
    <3>1. pte[p][h].loc \in Own(pte[p], "ram")
      BY <2>3 DEF Own, InRam
    <3>2. pte[p][h].loc \in Frames /\ pte[p][h].loc # f
      BY <1>2, <3>1, OwnType DEF Before
    <3> QED
      BY <1>1, <1>6, <1>11, <2>1, <2>3, <3>2 DEF Holds, InRam, InSwap
  <2>4. CASE h # g /\ InSwap(pte[p][h])
    BY <1>1, <1>6, <2>1, <2>4 DEF Holds, InRam, InSwap
  <2> QED
    BY <2>1, <2>2, <2>3, <2>4 DEF Holds
<1>13. s.pt[g] = n /\ InRam(s.pt[g]) /\ s.pt[g].loc = f
  BY <1>4, <1>6 DEF InRam
<1> QED
  BY <1>1, <1>2, <1>6, <1>7, <1>8, <1>9, <1>10, <1>11, <1>12, <1>13
     DEF Served, Before, s

\* The frame of a victim is used, and the victim goes to swap.
LEMMA ServedEvict ==
  ASSUME FramesFit, NEW p, NEW g \in Pages, Before(p), ~Present(p, g),
         ramFree = <<>>, fifo[p] # <<>>, swpFree # <<>>
  PROVE  Served(p, g, GetPage(p, g))
<1> DEFINE s == GetPage(p, g)
           e == pte[p][g]
           v == Victim(p)
           w == pte[p][v]
           f == w.loc
           slot == Head(swpFree)
           out == SwappedOut(w, slot)
           o == SetSwap(w, slot)
           n == Loaded(e, f)
           mid == [pte[p] EXCEPT ![v] = o]
<1>1. /\ v \in Pages /\ v \in ToSet(fifo[p])
      /\ WithoutVictim(p) \in Seq(Pages) /\ IsInjective(WithoutVictim(p))
      /\ ToSet(WithoutVictim(p)) = ToSet(fifo[p]) \ {v}
  BY DropLast DEF Before, Victim, WithoutVictim
<1>2. w \in EntrySet(Frames, Slots) /\ InRam(w) /\ w.st = "ram" /\ v # g
  BY <1>1 DEF Before, Table, Present, InRam
<1>3. f \in Frames /\ f \in Own(pte[p], "ram")
  BY <1>1, <1>2, EntryFields DEF Own
<1>4. /\ slot \in Slots /\ slot \in ToSet(swpFree)
      /\ Tail(swpFree) \in Seq(Slots) /\ IsInjective(Tail(swpFree))
      /\ ToSet(Tail(swpFree)) = ToSet(swpFree) \ {slot}
  BY TakeHead DEF Before
<1>5. e \in EntrySet(Frames, Slots) /\ e.st # "ram"
  BY DEF Before, Table, Present, InRam
<1>6. InSwap(e) => e.loc \in Own(pte[p], "swap") /\ e.loc \notin ToSet(swpFree)
  BY DEF Own, InSwap, Before
<1>7. /\ n \in EntrySet(Frames, Slots) /\ n.st = "ram" /\ n.loc = f
      /\ n.dirty = InSwap(e)
  BY <1>3, LoadedEntry
<1>8. o \in EntrySet(Frames, Slots) /\ o.st = "swap" /\ o.loc = slot
  BY <1>2, <1>4, SetSwapEntry
<1>9. /\ s.pt = [mid EXCEPT ![g] = n]
      /\ s.list = <<g>> \o WithoutVictim(p)
      /\ s.ram = SwappedIn(e, f, out)
      /\ s.ramFree = ramFree
      /\ s.swp = out
      /\ s.swpFree = GivenBack(e, Tail(swpFree))
  BY <1>2, GetPageEvict DEF Before, Table
<1>10. /\ mid \in Table /\ mid[g] = e
       /\ s.pt \in Table
       /\ \A h \in Pages :
            s.pt[h] = IF h = g THEN n ELSE IF h = v THEN o ELSE pte[p][h]
  BY <1>1, <1>2, <1>7, <1>8, <1>9 DEF Before, Table
<1>11. /\ out \in Swap
       /\ \A x \in Slots : x # slot => out[x] = swp[x]
       /\ w.dirty => out[slot] = ram[f]
  BY <1>2, <1>4, SwappedOutFrame DEF Before
<1> HIDE DEF s, out, n, o
<1>12. /\ Own(mid, "ram") = Own(pte[p], "ram") \ {f} /\ Once(mid, "ram")
       /\ Own(mid, "swap") = Own(pte[p], "swap") \cup {slot} /\ Once(mid, "swap")
  <2>1. /\ pte[p] \in Table /\ pte[p][v].st = "ram" /\ pte[p][v].st # "swap"
        /\ Once(pte[p], "ram") /\ Once(pte[p], "swap")
        /\ slot \notin Own(pte[p], "swap") /\ o.st # "ram"
    BY <1>2, <1>4, <1>8 DEF Before
  <2> HIDE DEF e, v, w, f, slot
  <2>2. /\ Own(mid, "ram") = Own(pte[p], "ram") \ {pte[p][v].loc}
        /\ Once(mid, "ram")
    BY <1>1, <2>1, Loses
  <2>3. /\ Own(mid, "swap") = Own(pte[p], "swap") \cup {o.loc}
        /\ o.loc \notin Own(pte[p], "swap") => Once(mid, "swap")
    <3> DEFINE pt == pte[p]
               pt1 == [pt EXCEPT ![v] = o]
    <3>1. pt \in Table /\ v \in Pages /\ pt[v].st # "swap" /\ o.st = "swap"
      BY <1>1, <1>8, <2>1
    <3>2. Once(pt, "swap")
      BY <2>1
    <3> HIDE DEF pt
    <3>3. /\ Own(pt1, "swap") = Own(pt, "swap") \cup {o.loc}
          /\ o.loc \notin Own(pt, "swap") => Once(pt1, "swap")
      BY <3>1, <3>2, Gains
    <3> QED
      BY <3>3 DEF pt
  <2>4. pte[p][v].loc = f
    BY DEF f, w
  <2> QED
    BY <1>8, <2>1, <2>2, <2>3, <2>4
<1> HIDE DEF mid
<1> DEFINE new == [mid EXCEPT ![g] = n]
<1>13. Keeps(s.pt, s.ramFree, pte[p], ramFree, "ram")
  <2>1. /\ Own(new, "ram") = Own(mid, "ram") \cup {n.loc}
        /\ Once(mid, "ram") /\ n.loc \notin Own(mid, "ram") => Once(new, "ram")
    BY <1>5, <1>7, <1>10, Gains
  <2> HIDE DEF new
  <2>2. s.pt = new
    BY <1>9 DEF new
  <2>3. Own(s.pt, "ram") = Own(pte[p], "ram") /\ Once(s.pt, "ram")
    BY <1>3, <1>7, <1>12, <2>1, <2>2
  <2> QED
    BY <1>9, <2>3 DEF Before, Keeps
<1>14. /\ s.swpFree \in Seq(Slots) /\ IsInjective(s.swpFree)
       /\ InSwap(e) => ToSet(s.swpFree) = ToSet(Tail(swpFree)) \cup {e.loc}
       /\ ~InSwap(e) => s.swpFree = Tail(swpFree)
  <2>1. InSwap(e) => e.loc \notin ToSet(Tail(swpFree))
    BY <1>4, <1>6
  <2> DEFINE rest == Tail(swpFree)
             back == GivenBack(e, rest)
  <2>2. rest \in Seq(Slots) /\ IsInjective(rest)
    BY <1>4
  <2>3. s.swpFree = back
    BY <1>9
  <2> HIDE DEF e, rest
  <2>4. /\ back \in Seq(Slots) /\ IsInjective(back)
        /\ InSwap(e) => ToSet(back) = ToSet(rest) \cup {e.loc}
        /\ ~InSwap(e) => back = rest
    BY <1>5, <2>1, <2>2, GivenBackSlot DEF rest
  <2> HIDE DEF back
  <2> QED
    BY <2>3, <2>4 DEF rest
<1>15. Keeps(s.pt, s.swpFree, pte[p], swpFree, "swap")
  <2>1. Own(pte[p], "swap") \cap ToSet(swpFree) = {}
    BY DEF Before
  <2>2. CASE InSwap(e)
    <3>1. mid[g].st = "swap" /\ n.st # "swap"
      BY <1>7, <1>10, <2>2 DEF InSwap
    <3>2. Own(new, "swap") = Own(mid, "swap") \ {mid[g].loc} /\ Once(new, "swap")
      BY <1>10, <1>12, <3>1, Loses
    <3> HIDE DEF new
    <3>3. s.pt = new
      BY <1>9 DEF new
    <3>4. /\ Own(s.pt, "swap") = (Own(pte[p], "swap") \cup {slot}) \ {e.loc}
          /\ Once(s.pt, "swap")
      BY <1>10, <1>12, <3>2, <3>3
    <3> HIDE DEF e, slot
    <3> QED
      BY <1>4, <1>6, <1>14, <2>1, <2>2, <3>4 DEF Keeps
  <2>3. CASE ~InSwap(e)
    <3>1. mid[g].st # "swap" /\ n.st # "swap"
      BY <1>7, <1>10, <2>3 DEF InSwap
    <3>2. Own(new, "swap") = Own(mid, "swap") /\ Once(new, "swap")
      BY <1>10, <1>12, <3>1, SameKind
    <3> HIDE DEF new
    <3>3. s.pt = new
      BY <1>9 DEF new
    <3> HIDE DEF e, slot
    <3> QED
      BY <1>4, <1>12, <1>14, <2>1, <2>3, <3>2, <3>3 DEF Keeps
  <2> QED
    BY <2>2, <2>3
<1>16. /\ s.list \in Seq(Pages) /\ IsInjective(s.list)
       /\ \A h \in ToSet(s.list) : InRam(s.pt[h])
  <2>1. g \notin ToSet(fifo[p])
    BY DEF Before, Present
  <2>2. ToSet(fifo[p]) \subseteq Pages
    BY LenProperties, ElementOfSeq DEF Before, ToSet
  <2>3. /\ s.list \in Seq(Pages) /\ IsInjective(s.list)
        /\ ToSet(s.list) = (ToSet(fifo[p]) \ {v}) \cup {g}
    BY <1>1, <1>9, <2>1, PutHead
  <2> QED
    BY <1>7, <1>10, <2>2, <2>3 DEF Before, InRam
<1>17. /\ s.ram \in Mem /\ \A x \in Frames : x # f => s.ram[x] = ram[x]
       /\ InSwap(e) => s.ram[f] = out[e.loc]
  BY <1>3, <1>5, <1>9, <1>11, SwappedInFrame DEF Before
<1>18. \A x \in Slots : x \notin ToSet(swpFree) => s.swp[x] = swp[x]
  BY <1>4, <1>9, <1>11
<1>19. ASSUME NEW h \in Pages, cells[p][h] # NotWritten
       PROVE  Holds(s.pt[h], s.ram, s.swp, cells[p][h])
  <2>1. Holds(pte[p][h], ram, swp, cells[p][h]) /\ Once(pte[p], "ram")
    BY <1>19 DEF Before
  <2>2. Own(pte[p], "swap") \subseteq Slots
    BY OwnType DEF Before
  <2>3. CASE h = g
    <3>1. InSwap(e) /\ swp[e.loc] = cells[p][h]
      BY <1>5, <2>1, <2>3 DEF Holds, InRam
    <3>2. e.loc \in Slots /\ e.loc # slot
      BY <1>4, <1>6, <2>2, <3>1
    <3>3. s.pt[h] = n
      BY <1>10, <2>3
    <3>4. s.ram[f] = cells[p][h]
      BY <1>11, <1>17, <3>1, <3>2
    <3> QED
      BY <1>7, <3>1, <3>3, <3>4 DEF Holds, InRam
  <2>4. CASE h = v
    <3>1. w.dirty /\ ram[f] = cells[p][h]
      BY <1>2, <2>1, <2>4 DEF Holds, InSwap
    <3>2. s.pt[h] = o
      BY <1>2, <1>10, <2>4
    <3> QED
      BY <1>8, <1>9, <1>11, <3>1, <3>2 DEF Holds, InSwap
  <2>5. CASE h # g /\ h # v /\ InRam(pte[p][h])
    <3>1. pte[p][h].loc \in Own(pte[p], "ram")
      BY <2>5 DEF Own, InRam
    <3>2. pte[p][h].loc \in Frames
      BY <3>1, OwnType DEF Before
    <3>3. pte[p][h].loc # f
      BY <1>1, <1>2, <2>1, <2>5 DEF Once, InRam
    <3>4. s.pt[h] = pte[p][h]
      BY <1>10, <2>5
    <3>5. pte[p][h].dirty /\ ram[pte[p][h].loc] = cells[p][h]
      BY <2>1, <2>5 DEF Holds, InRam, InSwap
    <3> QED
      BY <1>17, <2>5, <3>2, <3>3, <3>4, <3>5 DEF Holds
  <2>6. CASE h # g /\ h # v /\ InSwap(pte[p][h])
    <3>1. pte[p][h].loc \in Own(pte[p], "swap")
      BY <2>6 DEF Own, InSwap
    <3>2. pte[p][h].loc \in Slots /\ pte[p][h].loc # slot
      BY <1>4, <2>2, <3>1 DEF Before
    <3>3. s.pt[h] = pte[p][h]
      BY <1>10, <2>6
    <3>4. swp[pte[p][h].loc] = cells[p][h]
      BY <2>1, <2>6 DEF Holds, InRam, InSwap
    <3> QED
      BY <1>9, <1>11, <2>6, <3>2, <3>3, <3>4 DEF Holds
  <2> QED
    BY <2>1, <2>3, <2>4, <2>5, <2>6 DEF Holds
<1>20. s.pt[g] = n /\ InRam(s.pt[g]) /\ s.pt[g].loc = f
  BY <1>7, <1>10 DEF InRam
<1>21. \A h \in Pages : h # g /\ pte[p][h] = EmptyEntry => s.pt[h] = EmptyEntry
  BY <1>2, <1>10 DEF EmptyEntry
<1>22. s.ramFree \in Seq(Frames) /\ s.swp \in Swap
  BY <1>9, <1>11 DEF Before
<1> QED
  BY <1>10, <1>13, <1>14, <1>15, <1>16, <1>17, <1>18, <1>19, <1>20, <1>21, <1>22
     DEF Served, s

-----------------------------------------------------------------------------
(* From the invariant to one process and back.                                *)

\* The state of memory in these terms.
LEMMA InvApart ==
  ASSUME Inv
  PROVE  /\ pte \in [Procs -> Table]
         /\ Apart(pte, ramFree, KernelFrames, Frames, "ram")
         /\ Apart(pte, swpFree, {}, Slots, "swap")
         /\ \A p \in Procs : Before(p)
<1>1. /\ pte \in [Procs -> Table] /\ fifo \in [Procs -> Seq(Pages)]
      /\ ram \in Mem /\ ramFree \in Seq(Frames)
      /\ swp \in Swap /\ swpFree \in Seq(Slots)
  BY DEF Inv, TypeOK, Table, Mem, Swap
<1>2. Apart(pte, ramFree, KernelFrames, Frames, "ram")
  <2>1. UserFrames = AllOwn(pte, "ram")
    BY <1>1, ByKind DEF UserFrames, Present
  <2>2. Differ(pte, "ram")
    BY DEF Inv, FrameExclusive, FramesDiffer, Differ, Present, InRam
  <2> QED
    BY <2>1, <2>2 DEF Inv, FrameExclusive, Apart
<1>3. Apart(pte, swpFree, {}, Slots, "swap")
  <2>1. UserSlots = AllOwn(pte, "swap")
    BY <1>1, ByKind DEF UserSlots, Swapped
  <2>2. Differ(pte, "swap")
    BY DEF Inv, SlotExclusive, SlotsDiffer, Differ, Swapped, InSwap
  <2> QED
    BY <2>1, <2>2 DEF Inv, SlotExclusive, Apart
<1>4. ASSUME NEW p \in Procs PROVE Before(p)
  <2>1. Once(pte[p], "ram") /\ Once(pte[p], "swap")
    BY <1>2, <1>3, DifferByProcess DEF Apart
  <2>2. /\ Own(pte[p], "ram") \cap ToSet(ramFree) = {}
        /\ Own(pte[p], "swap") \cap ToSet(swpFree) = {}
        /\ IsInjective(ramFree) /\ IsInjective(swpFree)
    BY <1>2, <1>3 DEF Apart, AllOwn
  <2>3. IsInjective(fifo[p]) /\ \A h \in ToSet(fifo[p]) : InRam(pte[p][h])
    BY DEF Inv, FifoPresent, Present, ToSet
  <2>4. \A h \in Pages : cells[p][h] # NotWritten =>
          Holds(pte[p][h], ram, swp, cells[p][h])
    BY DEF Inv, MemoryIntegrity, Holds, Present, Swapped
  <2> QED
    BY <1>1, <2>1, <2>2, <2>3, <2>4 DEF Before
<1> QED
  BY <1>1, <1>2, <1>3, <1>4

\* pg_getpage keeps its contract whenever it succeeds.
LEMMA GetPageServed ==
  ASSUME FramesFit, Inv, NEW p \in Procs, NEW g \in Pages, CanGetPage(p, g)
  PROVE  Served(p, g, GetPage(p, g))
<1>1. Before(p)
  BY InvApart
<1>2. CASE Present(p, g)
  BY <1>1, <1>2, ServedHit
<1>3. CASE ~Present(p, g) /\ ramFree # <<>>
  BY <1>1, <1>3, ServedFresh
<1>4. CASE ~Present(p, g) /\ ramFree = <<>>
  BY <1>1, <1>4, ServedEvict DEF CanGetPage
<1> QED
  BY <1>2, <1>3, <1>4

-----------------------------------------------------------------------------
(* One access.                                                                *)

\* What an access to page g of process p does to the state: as Served, but in
\* terms of the new state, and the page may have got a new value.
Access(p, g) ==
  /\ pte' \in [Procs -> Table] /\ \A q \in Procs : q # p => pte'[q] = pte[q]
  /\ fifo' \in [Procs -> Seq(Pages)] /\ \A q \in Procs : q # p => fifo'[q] = fifo[q]
  /\ ram' \in Mem /\ ramFree' \in Seq(Frames)
  /\ swp' \in Swap /\ swpFree' \in Seq(Slots)
  /\ cells' \in [Procs -> [Pages -> Bytes \cup {NotWritten}]]
  /\ \A q \in Procs, h \in Pages : q # p \/ h # g => cells'[q][h] = cells[q][h]
  /\ InRam(pte'[p][g])
  /\ Keeps(pte'[p], ramFree', pte[p], ramFree, "ram")
  /\ Keeps(pte'[p], swpFree', pte[p], swpFree, "swap")
  /\ IsInjective(fifo'[p])
  /\ \A h \in ToSet(fifo'[p]) : InRam(pte'[p][h])
  /\ \A f \in Frames : f # pte'[p][g].loc => ram'[f] = ram[f]
  /\ \A x \in Slots : x \notin ToSet(swpFree) => swp'[x] = swp[x]
  /\ \A h \in Pages : cells'[p][h] # NotWritten =>
       Holds(pte'[p][h], ram', swp', cells'[p][h])
  /\ \A h \in Pages : h # g /\ pte[p][h] = EmptyEntry => pte'[p][h] = EmptyEntry

\* A read is such an access.
LEMMA ReadByteAccess ==
  ASSUME FramesFit, Inv, NEW p \in Procs, NEW g \in Pages,
         ReadByte(p, g), UNCHANGED cells
  PROVE  Access(p, g)
<1> DEFINE s == GetPage(p, g)
<1>1. Served(p, g, s)
  BY GetPageServed DEF ReadByte, GetsPage
<1>2. pte \in [Procs -> Table] /\ fifo \in [Procs -> Seq(Pages)]
  BY DEF Inv, TypeOK, Table
<1>3. cells \in [Procs -> [Pages -> Bytes \cup {NotWritten}]]
  BY DEF Inv, TypeOK
<1>4. /\ pte' = [pte EXCEPT ![p] = s.pt] /\ fifo' = [fifo EXCEPT ![p] = s.list]
      /\ ram' = s.ram /\ ramFree' = s.ramFree
      /\ swp' = s.swp /\ swpFree' = s.swpFree
  BY DEF ReadByte, GetsPage
<1> HIDE DEF s
<1>5. /\ pte'[p] = s.pt /\ fifo'[p] = s.list
      /\ pte' \in [Procs -> Table] /\ \A q \in Procs : q # p => pte'[q] = pte[q]
      /\ fifo' \in [Procs -> Seq(Pages)] /\ \A q \in Procs : q # p => fifo'[q] = fifo[q]
  BY <1>1, <1>2, <1>4 DEF Served
<1> QED
  BY <1>1, <1>3, <1>4, <1>5 DEF Access, Served

\* So is a write: it touches an entry that keeps its frame.
LEMMA StoreByteAccess ==
  ASSUME FramesFit, Inv, NEW p \in Procs, NEW g \in Pages, NEW v \in Bytes,
         StoreByte(p, g, v)
  PROVE  Access(p, g)
<1> DEFINE s == GetPage(p, g)
           n == Touched(s.pt[g])
           pt == [s.pt EXCEPT ![g] = n]
           mem == WriteFrame(s.ram, s.pt[g].loc, v)
<1>1. Served(p, g, s)
  BY GetPageServed DEF StoreByte, GetsPage
<1>2. pte \in [Procs -> Table] /\ fifo \in [Procs -> Seq(Pages)]
  BY DEF Inv, TypeOK, Table
<1>3. cells \in [Procs -> [Pages -> Bytes \cup {NotWritten}]]
  BY DEF Inv, TypeOK
<1>4. /\ pte' = [pte EXCEPT ![p] = [s.pt EXCEPT ![g] = Touched(@)]]
      /\ fifo' = [fifo EXCEPT ![p] = s.list]
      /\ ram' = mem /\ ramFree' = s.ramFree
      /\ swp' = s.swp /\ swpFree' = s.swpFree
      /\ cells' = [cells EXCEPT ![p][g] = v]
  BY DEF StoreByte, GetsPage
<1> HIDE DEF s
<1>5. s.pt \in Table /\ s.pt[g] \in EntrySet(Frames, Slots) /\ InRam(s.pt[g])
  BY <1>1 DEF Served, Table
<1>6. /\ n \in EntrySet(Frames, Slots) /\ n.st = "ram" /\ n.loc = s.pt[g].loc
      /\ n.dirty = TRUE /\ s.pt[g].loc \in Frames /\ s.pt[g].st = "ram"
  <2> DEFINE e == s.pt[g]
  <2>1. e \in EntrySet(Frames, Slots) /\ InRam(e)
    BY <1>5
  <2> HIDE DEF e
  <2>2. /\ Touched(e) \in EntrySet(Frames, Slots) /\ Touched(e).st = "ram"
        /\ Touched(e).loc = e.loc /\ Touched(e).dirty = TRUE
    BY <2>1, TouchedEntry
  <2>3. e.st = "ram" /\ e.loc \in Frames
    BY <2>1, EntryFields DEF InRam
  <2> QED
    BY <2>2, <2>3 DEF e
<1> HIDE DEF n
<1>7. pt \in Table /\ \A h \in Pages : pt[h] = IF h = g THEN n ELSE s.pt[h]
  BY <1>5, <1>6 DEF Table
<1>8. [s.pt EXCEPT ![g] = Touched(@)] = pt
  BY <1>5 DEF Table, n
<1>9. /\ Own(pt, "ram") = Own(s.pt, "ram") /\ Once(pt, "ram")
      /\ Own(pt, "swap") = Own(s.pt, "swap") /\ Once(pt, "swap")
  <2>1. Once(s.pt, "ram") /\ Once(s.pt, "swap")
    BY <1>1 DEF Served, Keeps
  <2>2. Own(pt, "ram") = Own(s.pt, "ram") /\ Once(pt, "ram")
    BY <1>5, <1>6, <2>1, SameKind
  <2>3. Own(pt, "swap") = Own(s.pt, "swap") /\ Once(pt, "swap")
    BY <1>5, <1>6, <2>1, SameKind
  <2> QED
    BY <2>2, <2>3
<1>10. /\ mem \in Mem /\ mem[s.pt[g].loc] = v
       /\ \A f \in Frames : f # s.pt[g].loc => mem[f] = s.ram[f]
  BY <1>1, <1>6 DEF Served, Mem, WriteFrame
<1> HIDE DEF pt, mem
<1>11. /\ pte'[p] = pt /\ fifo'[p] = s.list
       /\ pte' \in [Procs -> Table] /\ \A q \in Procs : q # p => pte'[q] = pte[q]
       /\ fifo' \in [Procs -> Seq(Pages)] /\ \A q \in Procs : q # p => fifo'[q] = fifo[q]
  BY <1>1, <1>2, <1>4, <1>7, <1>8 DEF Served
<1>12. /\ cells' \in [Procs -> [Pages -> Bytes \cup {NotWritten}]]
       /\ \A q \in Procs, h \in Pages : q # p \/ h # g => cells'[q][h] = cells[q][h]
       /\ cells'[p][g] = v
  BY <1>3, <1>4
<1>13. /\ Keeps(pt, s.ramFree, pte[p], ramFree, "ram")
       /\ Keeps(pt, s.swpFree, pte[p], swpFree, "swap")
  BY <1>1, <1>9 DEF Served, Keeps
<1>14. \A h \in ToSet(s.list) : InRam(pt[h])
  <2>1. ToSet(s.list) \subseteq Pages
    BY <1>1, LenProperties, ElementOfSeq DEF Served, ToSet
  <2> QED
    BY <1>1, <1>6, <1>7, <2>1 DEF Served, InRam
<1>15. ASSUME NEW h \in Pages, cells'[p][h] # NotWritten
       PROVE  Holds(pt[h], mem, s.swp, cells'[p][h])
  <2>1. CASE h = g
    BY <1>6, <1>7, <1>10, <1>12, <2>1 DEF Holds, InRam
  <2>2. CASE h # g
    <3>1. pt[h] = s.pt[h] /\ cells'[p][h] = cells[p][h]
      BY <1>7, <1>12, <2>2
    <3>2. Holds(s.pt[h], s.ram, s.swp, cells[p][h])
      BY <1>1, <1>15, <3>1 DEF Served
    <3>3. CASE InRam(s.pt[h])
      <4>1. s.pt[h].loc \in Frames
        BY <1>5, <3>3, EntryFields DEF Table, InRam
      <4>2. s.pt[h].loc # s.pt[g].loc
        BY <1>1, <1>6, <2>2, <3>3 DEF Served, Keeps, Once, InRam
      <4> QED
        BY <1>10, <3>1, <3>2, <3>3, <4>1, <4>2 DEF Holds, InRam, InSwap
    <3>4. CASE ~InRam(s.pt[h])
      BY <3>1, <3>2, <3>4 DEF Holds
    <3> QED
      BY <3>3, <3>4
  <2> QED
    BY <2>1, <2>2
<1>16. /\ InRam(pt[g]) /\ pt[g].loc = s.pt[g].loc
       /\ \A h \in Pages : h # g /\ pte[p][h] = EmptyEntry => pt[h] = EmptyEntry
  BY <1>1, <1>6, <1>7 DEF Served, InRam
<1>17. \A f \in Frames : f # pt[g].loc => mem[f] = ram[f]
  BY <1>1, <1>10, <1>16 DEF Served
<1>18. /\ s.list \in Seq(Pages) /\ IsInjective(s.list) /\ s.ramFree \in Seq(Frames)
       /\ s.swp \in Swap /\ s.swpFree \in Seq(Slots)
       /\ \A x \in Slots : x \notin ToSet(swpFree) => s.swp[x] = swp[x]
  BY <1>1 DEF Served
<1>19. /\ ram' = mem /\ ramFree' = s.ramFree /\ swp' = s.swp /\ swpFree' = s.swpFree
       /\ pte'[p] = pt /\ fifo'[p] = s.list
  BY <1>4, <1>11
<1>20. /\ ram' \in Mem /\ ramFree' \in Seq(Frames)
       /\ swp' \in Swap /\ swpFree' \in Seq(Slots)
       /\ Keeps(pte'[p], ramFree', pte[p], ramFree, "ram")
       /\ Keeps(pte'[p], swpFree', pte[p], swpFree, "swap")
  BY <1>10, <1>13, <1>18, <1>19
<1>21. /\ InRam(pte'[p][g]) /\ IsInjective(fifo'[p])
       /\ \A h \in ToSet(fifo'[p]) : InRam(pte'[p][h])
       /\ \A f \in Frames : f # pte'[p][g].loc => ram'[f] = ram[f]
       /\ \A x \in Slots : x \notin ToSet(swpFree) => swp'[x] = swp[x]
  BY <1>14, <1>16, <1>17, <1>18, <1>19
<1>22. /\ \A h \in Pages : cells'[p][h] # NotWritten =>
            Holds(pte'[p][h], ram', swp', cells'[p][h])
       /\ \A h \in Pages : h # g /\ pte[p][h] = EmptyEntry => pte'[p][h] = EmptyEntry
  BY <1>15, <1>16, <1>19
<1> QED
  BY <1>11, <1>12, <1>20, <1>21, <1>22 DEF Access

\* An access keeps every part of the invariant that it can disturb.
LEMMA AccessKeeps ==
  ASSUME Inv, NEW p \in Procs, NEW g \in Pages, Mapped(p, g),
         Access(p, g), UNCHANGED <<mapped, kpte, kcells>>
  PROVE  /\ FrameExclusive' /\ SlotExclusive' /\ FifoPresent'
         /\ MemoryIntegrity' /\ KernelIntegrity' /\ BeyondEnd'
<1>1. /\ pte \in [Procs -> Table] /\ pte' \in [Procs -> Table]
      /\ \A q \in Procs : q # p => pte'[q] = pte[q]
  BY InvApart DEF Access
<1>2. KernelFrames' = KernelFrames /\ KernelPages' = KernelPages
  BY DEF KernelFrames, KernelPages
<1>3. Apart(pte', ramFree', KernelFrames, Frames, "ram")
  <2>1. Apart(pte, ramFree, KernelFrames, Frames, "ram")
    BY InvApart
  <2>2. Keeps(pte'[p], ramFree', pte[p], ramFree, "ram")
    BY DEF Access
  <2> QED
    BY <1>1, <2>1, <2>2, KeepsApart
<1>4. Apart(pte', swpFree', {}, Slots, "swap")
  <2>1. Apart(pte, swpFree, {}, Slots, "swap")
    BY InvApart
  <2>2. Keeps(pte'[p], swpFree', pte[p], swpFree, "swap")
    BY DEF Access
  <2> QED
    BY <1>1, <2>1, <2>2, KeepsApart
<1>5. FrameExclusive'
  <2>1. UserFrames' = AllOwn(pte', "ram")
    BY <1>1, ByKind DEF UserFrames, Present
  <2>2. FramesDiffer'
    BY <1>3 DEF FramesDiffer, Apart, Differ, Present, InRam
  <2>3. \A k, l \in KernelPages' : kpte'[k].loc = kpte'[l].loc => k = l
    BY <1>2 DEF Inv, FrameExclusive
  <2> QED
    BY <1>2, <1>3, <2>1, <2>2, <2>3 DEF FrameExclusive, Apart
<1>6. SlotExclusive'
  <2>1. UserSlots' = AllOwn(pte', "swap")
    BY <1>1, ByKind DEF UserSlots, Swapped
  <2>2. SlotsDiffer'
    BY <1>4 DEF SlotsDiffer, Apart, Differ, Swapped, InSwap
  <2> QED
    BY <1>4, <2>1, <2>2 DEF SlotExclusive, Apart
<1>7. FifoPresent'
  <2>1. ASSUME NEW q \in Procs
        PROVE  /\ IsInjective(fifo'[q])
               /\ \A i \in DOMAIN fifo'[q] : InRam(pte'[q][fifo'[q][i]])
    <3>1. CASE q = p
      BY <3>1 DEF Access, ToSet
    <3>2. CASE q # p
      BY <3>2 DEF Access, Inv, FifoPresent, Present
    <3> QED
      BY <3>1, <3>2
  <2> QED
    BY <2>1 DEF FifoPresent, Present
<1>8. MemoryIntegrity'
  <2>1. ASSUME NEW q \in Procs, NEW h \in Pages, cells'[q][h] # NotWritten
        PROVE  Holds(pte'[q][h], ram', swp', cells'[q][h])
    <3>1. CASE q = p
      BY <2>1, <3>1 DEF Access
    <3>2. CASE q # p
      <4>1. cells'[q][h] = cells[q][h] /\ pte'[q][h] = pte[q][h]
        BY <3>2 DEF Access
      <4>2. Holds(pte[q][h], ram, swp, cells[q][h])
        BY <2>1, <4>1, InvApart DEF Before
      <4>3. pte[q][h] \in EntrySet(Frames, Slots)
        BY <1>1 DEF Table
      <4>4. CASE InRam(pte[q][h])
        <5>1. pte[q][h].loc \in Frames
          BY <4>3, <4>4, EntryFields DEF InRam
        <5>2. pte[q][h].loc # pte'[p][g].loc
          <6>1. pte'[q][h].st = "ram" /\ pte'[p][g].st = "ram"
            BY <4>1, <4>4 DEF Access, InRam
          <6> QED
            BY <1>3, <3>2, <4>1, <6>1 DEF Apart, Differ
        <5>3. ram'[pte[q][h].loc] = ram[pte[q][h].loc]
          BY <5>1, <5>2 DEF Access
        <5> QED
          BY <4>1, <4>2, <4>4, <5>3 DEF Holds, InRam, InSwap
      <4>5. CASE InSwap(pte[q][h])
        <5>1. pte[q][h].loc \in Slots
          BY <4>3, <4>5, EntryFields DEF InSwap
        <5>2. pte[q][h].loc \in AllOwn(pte, "swap")
          BY <4>5 DEF AllOwn, Own, InSwap
        <5>3. pte[q][h].loc \notin ToSet(swpFree)
          BY <5>2, InvApart DEF Apart
        <5>4. swp'[pte[q][h].loc] = swp[pte[q][h].loc]
          BY <5>1, <5>3 DEF Access
        <5> QED
          BY <4>1, <4>2, <4>5, <5>4 DEF Holds, InRam, InSwap
      <4> QED
        BY <4>2, <4>4, <4>5 DEF Holds
    <3> QED
      BY <3>1, <3>2
  <2> QED
    BY <2>1 DEF MemoryIntegrity, Holds, Present, Swapped
<1>9. KernelIntegrity'
  <2>1. ASSUME NEW k \in KernelPages, kcells[k] # NotWritten
        PROVE  ram'[kpte[k].loc] = kcells[k]
    <3>1. kpte[k].loc \in KernelFrames
      BY DEF KernelFrames
    <3>2. pte'[p][g].loc \in AllOwn(pte', "ram")
      BY DEF Access, AllOwn, Own, InRam
    <3>3. kpte[k].loc # pte'[p][g].loc
      BY <1>3, <3>1, <3>2 DEF Apart
    <3>4. kpte[k].loc \in Frames
      BY <1>3, <3>1 DEF Apart
    <3>5. ram'[kpte[k].loc] = ram[kpte[k].loc]
      BY <3>3, <3>4 DEF Access
    <3> QED
      BY <2>1, <3>5 DEF Inv, KernelIntegrity
  <2> QED
    BY <1>2, <2>1 DEF KernelIntegrity
<1>10. BeyondEnd'
  <2>1. ASSUME NEW q \in Procs, NEW h \in Pages, ~Mapped(q, h)
        PROVE  pte'[q][h] = EmptyEntry /\ cells'[q][h] = NotWritten
    <3>1. pte[q][h] = EmptyEntry /\ cells[q][h] = NotWritten /\ (q # p \/ h # g)
      BY <2>1 DEF Inv, BeyondEnd
    <3> QED
      BY <3>1 DEF Access
  <2> QED
    BY <2>1 DEF BeyondEnd, Mapped
<1> QED
  BY <1>5, <1>6, <1>7, <1>8, <1>9, <1>10

-----------------------------------------------------------------------------
(* The initial states and the steps.                                          *)

\* What a copy can have in hand.
Copies == {NoCopy} \cup [to : {"kernel"}, page : KernelPages, val : Bytes]
                   \cup [to : {"user"}, page : Pages, val : Bytes]

LEMMA CopyFields ==
  ASSUME NEW c \in Copies
  PROVE  /\ c.to = "user" => c.page \in Pages /\ c.val \in Bytes
         /\ c.to = "kernel" => c.page \in KernelPages /\ c.val \in Bytes
<1>1. CASE c = NoCopy
  BY <1>1 DEF NoCopy
<1>2. CASE c \in [to : {"kernel"}, page : KernelPages, val : Bytes]
  BY <1>2
<1>3. CASE c \in [to : {"user"}, page : Pages, val : Bytes]
  BY <1>3
<1> QED
  BY <1>1, <1>2, <1>3 DEF Copies

\* The devices are formatted and the tables are empty.
LEMMA InitInv == Init => Inv
<1> SUFFICES ASSUME Init PROVE Inv
  OBVIOUS
<1>1. /\ ramFree \in Seq(Frames) /\ IsInjective(ramFree) /\ ToSet(ramFree) = Frames
      /\ swpFree \in Seq(Slots) /\ IsInjective(swpFree) /\ ToSet(swpFree) = Slots
  BY PagingAssumption, FormatFreeProperties DEF Init, Frames, Slots
<1>2. /\ \A p \in Procs, g \in Pages : pte[p][g] = EmptyEntry
      /\ \A p \in Procs, g \in Pages : cells[p][g] = NotWritten
      /\ \A p \in Procs : fifo[p] = <<>> /\ copy[p] = NoCopy
      /\ KernelPages = {}
  BY DEF Init, KernelPages
<1>3. \A p \in Procs, g \in Pages : ~InRam(pte[p][g]) /\ ~InSwap(pte[p][g])
  BY <1>2 DEF EmptyEntry, InRam, InSwap
<1>4. TypeOK
  <2>1. 0 \in Bytes /\ EmptyEntry \in EntrySet(Frames, Slots) /\ 0 \in 0 .. NumPages
    BY PagingAssumption DEF Bytes, EntrySet
  <2>2. kpte \in Seq(EntrySet(Frames, {}))
    BY DEF Init
  <2>3. kcells \in [KernelPages -> Bytes \cup {NotWritten}]
    BY DEF Init, KernelPages
  <2>4. \A p \in Procs : <<>> \in Seq(Pages)
    OBVIOUS
  <2> QED
    BY <1>1, <2>1, <2>2, <2>3, <2>4 DEF Init, TypeOK
<1>5. UserFrames = {} /\ UserSlots = {} /\ KernelFrames = {}
  BY <1>2, <1>3 DEF UserFrames, UserSlots, KernelFrames, Present, Swapped
<1>6. FrameExclusive /\ SlotExclusive
  BY <1>1, <1>2, <1>3, <1>5
     DEF FrameExclusive, SlotExclusive, FramesDiffer, SlotsDiffer, Present, Swapped
<1>7. FifoPresent
  BY <1>2 DEF FifoPresent, IsInjective
<1>8. MemoryIntegrity /\ KernelIntegrity /\ BeyondEnd
  BY <1>2 DEF MemoryIntegrity, KernelIntegrity, BeyondEnd
<1>9. CopyMapped
  BY <1>2 DEF CopyMapped, NoCopy
<1> QED
  BY <1>4, <1>6, <1>7, <1>8, <1>9 DEF Inv

\* An access preserves the invariant, whatever becomes of the instruction.
LEMMA AccessInv ==
  ASSUME Inv, NEW p \in Procs, NEW g \in Pages, Mapped(p, g),
         Access(p, g), UNCHANGED <<mapped, kpte, kcells>>,
         copy' \in [Procs -> Copies], over' \subseteq Procs, CopyMapped'
  PROVE  Inv'
<1>1. KernelPages' = KernelPages
  BY DEF KernelPages
<1>2. TypeOK'
  <2>1. /\ pte' \in [Procs -> [Pages -> EntrySet(Frames, Slots)]]
        /\ fifo' \in [Procs -> Seq(Pages)]
        /\ ram' \in [Frames -> Bytes] /\ ramFree' \in Seq(Frames)
        /\ swp' \in [Slots -> Bytes] /\ swpFree' \in Seq(Slots)
        /\ cells' \in [Procs -> [Pages -> Bytes \cup {NotWritten}]]
    BY DEF Access, Table, Mem, Swap
  <2>2. /\ mapped' \in [Procs -> 0 .. NumPages]
        /\ kpte' \in Seq(EntrySet(Frames, {}))
        /\ kcells' \in [KernelPages -> Bytes \cup {NotWritten}]
    BY DEF Inv, TypeOK
  <2>3. copy' \in [Procs -> {NoCopy}
                     \cup [to : {"kernel"}, page : KernelPages, val : Bytes]
                     \cup [to : {"user"}, page : Pages, val : Bytes]]
    BY DEF Copies
  <2> QED
    BY <1>1, <2>1, <2>2, <2>3 DEF TypeOK
<1> QED
  BY <1>2, AccessKeeps DEF Inv

\* So does one that fails: at most a page leaves the replacement list.
LEMMA FailInv ==
  ASSUME Inv, NEW p \in Procs, NEW g \in Pages, GetPageFails(p, g),
         UNCHANGED <<mapped, cells, kpte, kcells>>,
         copy' \in [Procs -> Copies], over' \subseteq Procs, CopyMapped'
  PROVE  Inv'
<1> DEFINE list == IF fifo[p] = <<>> THEN fifo[p] ELSE WithoutVictim(p)
<1>1. fifo \in [Procs -> Seq(Pages)] /\ fifo[p] \in Seq(Pages)
  BY DEF Inv, TypeOK
<1>2. fifo' = [fifo EXCEPT ![p] = list] /\ UNCHANGED <<pte, devVars>>
  BY <1>1 DEF GetPageFails
<1>3. /\ list \in Seq(Pages) /\ IsInjective(list)
      /\ ToSet(list) \subseteq ToSet(fifo[p])
  BY <1>1, DropLast DEF Inv, FifoPresent, WithoutVictim
<1> HIDE DEF list
<1>4. TypeOK'
  BY <1>1, <1>2, <1>3 DEF Inv, TypeOK, devVars, Copies, KernelPages
<1>5. FifoPresent'
  <2>1. ASSUME NEW q \in Procs
        PROVE  /\ IsInjective(fifo'[q])
               /\ \A i \in DOMAIN fifo'[q] : InRam(pte[q][fifo'[q][i]])
    <3>1. CASE q = p
      <4>1. fifo'[q] = list
        BY <1>1, <1>2, <3>1
      <4>2. \A h \in ToSet(fifo[p]) : InRam(pte[p][h])
        BY DEF Inv, FifoPresent, Present, ToSet
      <4>3. \A h \in ToSet(list) : InRam(pte[p][h])
        BY <1>3, <4>2
      <4> QED
        BY <1>3, <3>1, <4>1, <4>3 DEF ToSet
    <3>2. CASE q # p
      BY <1>1, <1>2, <3>2 DEF Inv, FifoPresent, Present
    <3> QED
      BY <3>1, <3>2
  <2> QED
    BY <1>2, <2>1 DEF FifoPresent, Present
<1>6. FrameExclusive'
  BY <1>2 DEF Inv, FrameExclusive, FramesDiffer, UserFrames, KernelFrames,
              KernelPages, Present, devVars
<1>7. SlotExclusive'
  BY <1>2 DEF Inv, SlotExclusive, SlotsDiffer, UserSlots, Swapped, devVars
<1>8. MemoryIntegrity' /\ KernelIntegrity' /\ BeyondEnd'
  BY <1>2 DEF Inv, MemoryIntegrity, KernelIntegrity, BeyondEnd, Present, Swapped,
              KernelPages, Mapped, devVars
<1> QED
  BY <1>4, <1>5, <1>6, <1>7, <1>8 DEF Inv

\* The state of the instruction is all that changes.
LEMMA InstructionInv ==
  ASSUME Inv, UNCHANGED <<pte, fifo, mapped, devVars, kernelVars, cells>>,
         copy' \in [Procs -> Copies], over' \subseteq Procs, CopyMapped'
  PROVE  Inv'
<1>1. TypeOK'
  BY DEF Inv, TypeOK, devVars, kernelVars, Copies, KernelPages
<1>2. FrameExclusive' /\ SlotExclusive'
  BY DEF Inv, FrameExclusive, FramesDiffer, UserFrames, KernelFrames, KernelPages,
         Present, SlotExclusive, SlotsDiffer, UserSlots, Swapped, devVars, kernelVars
<1>3. FifoPresent' /\ MemoryIntegrity' /\ KernelIntegrity' /\ BeyondEnd'
  BY DEF Inv, FifoPresent, MemoryIntegrity, KernelIntegrity, BeyondEnd, Present,
         Swapped, KernelPages, Mapped, devVars, kernelVars
<1> QED
  BY <1>1, <1>2, <1>3 DEF Inv

\* pg_getval finds a byte.
LEMMA ByteInType ==
  ASSUME FramesFit, Inv, NEW p \in Procs, NEW g \in Pages, CanGetPage(p, g)
  PROVE  ByteIn(GetPage(p, g), g) \in Bytes
<1> DEFINE s == GetPage(p, g)
<1>1. Served(p, g, s)
  BY GetPageServed
<1> HIDE DEF s
<1>2. s.pt[g].loc \in Frames /\ s.ram \in [Frames -> Bytes]
  BY <1>1, EntryFields DEF Served, Table, InRam, Mem
<1>3. ByteIn(s, g) \in Bytes
  BY <1>2 DEF ByteIn, ReadFrame
<1> QED
  BY <1>3 DEF s

LEMMA GrowInv ==
  ASSUME Inv, NEW p \in Procs, Grow(p)
  PROVE  Inv'
<1>1. /\ mapped \in [Procs -> 0 .. NumPages] /\ mapped[p] \in Pages
      /\ pte \in [Procs -> [Pages -> EntrySet(Frames, Slots)]]
  BY PagingAssumption DEF Inv, TypeOK, Grow, Pages
<1>2. pte' = pte
  <2>1. pte[p][mapped[p]] = EmptyEntry
    BY <1>1 DEF Inv, BeyondEnd, Mapped, Pages
  <2>2. pte' = [pte EXCEPT ![p][mapped[p]] = EmptyEntry]
    BY DEF Grow
  <2> QED
    BY <1>1, <2>1, <2>2
<1>3. /\ mapped' \in [Procs -> 0 .. NumPages]
      /\ \A q \in Procs : mapped'[q] >= mapped[q]
  BY <1>1, PagingAssumption DEF Grow, Pages
<1>4. UNCHANGED <<fifo, devVars, kernelVars, copy, over, cells>>
  BY DEF Grow
<1>5. TypeOK'
  BY <1>2, <1>3, <1>4 DEF Inv, TypeOK, devVars, kernelVars, KernelPages
<1>6. FrameExclusive' /\ SlotExclusive'
  BY <1>2, <1>4 DEF Inv, FrameExclusive, FramesDiffer, UserFrames, KernelFrames,
       KernelPages, Present, SlotExclusive, SlotsDiffer, UserSlots, Swapped,
       devVars, kernelVars
<1>7. FifoPresent' /\ MemoryIntegrity' /\ KernelIntegrity'
  BY <1>2, <1>4 DEF Inv, FifoPresent, MemoryIntegrity, KernelIntegrity, Present,
       Swapped, KernelPages, devVars, kernelVars
<1>8. \A q \in Procs, g \in Pages : Mapped(q, g) => Mapped(q, g)'
  BY <1>1, <1>3, PagingAssumption DEF Mapped, Pages
<1>9. BeyondEnd'
  BY <1>2, <1>4, <1>8 DEF Inv, BeyondEnd
<1>10. CopyMapped'
  <2>1. ASSUME NEW q \in Procs, copy[q].to = "user" PROVE copy[q].page \in Pages
    BY <2>1, CopyFields DEF Inv, TypeOK, Copies
  <2> QED
    BY <1>4, <1>8, <2>1 DEF Inv, CopyMapped, Mapped
<1> QED
  BY <1>5, <1>6, <1>7, <1>9, <1>10 DEF Inv

LEMMA EndProgramInv ==
  ASSUME Inv, NEW p \in Procs, EndProgram(p)
  PROVE  Inv'
<1>1. copy' \in [Procs -> Copies] /\ over' \subseteq Procs /\ CopyMapped'
  BY DEF Inv, TypeOK, Copies, EndProgram, CopyMapped, Mapped
<1> QED
  BY <1>1, InstructionInv DEF EndProgram

LEMMA ReadInv ==
  ASSUME FramesFit, Inv, NEW p \in Procs, NEW g \in Pages, Read(p, g)
  PROVE  Inv'
<1>1. copy' \in [Procs -> Copies] /\ CopyMapped' /\ over' \subseteq Procs
  BY DEF Inv, TypeOK, Copies, Read, CopyMapped, Mapped
<1>2. CASE ReadByte(p, g)
  BY <1>1, <1>2, ReadByteAccess, AccessInv DEF Read, kernelVars
<1>3. CASE GetPageFails(p, g)
  BY <1>1, <1>3, FailInv DEF Read, kernelVars
<1> QED
  BY <1>2, <1>3 DEF Read

LEMMA WriteByteInv ==
  ASSUME FramesFit, Inv, NEW p \in Procs, NEW g \in Pages, NEW v \in Bytes,
         Mapped(p, g), WriteByte(p, g, v), UNCHANGED <<mapped, kernelVars, over>>,
         copy' \in [Procs -> Copies], CopyMapped'
  PROVE  Inv'
<1>1. over' \subseteq Procs
  BY DEF Inv, TypeOK
<1>2. CASE StoreByte(p, g, v)
  BY <1>1, <1>2, StoreByteAccess, AccessInv DEF kernelVars
<1>3. CASE GetPageFails(p, g) /\ UNCHANGED cells
  BY <1>1, <1>3, FailInv DEF kernelVars
<1> QED
  BY <1>2, <1>3 DEF WriteByte

LEMMA WriteInv ==
  ASSUME FramesFit, Inv, NEW p \in Procs, NEW g \in Pages, NEW v \in Values,
         Write(p, g, v)
  PROVE  Inv'
<1>1. copy' \in [Procs -> Copies] /\ CopyMapped'
  BY DEF Inv, TypeOK, Copies, Write, CopyMapped, Mapped
<1>2. v \in Bytes
  BY DEF Bytes
<1> QED
  BY <1>1, <1>2, WriteByteInv DEF Write

LEMMA ReadUserMemInv ==
  ASSUME FramesFit, Inv, NEW p \in Procs, NEW g \in Pages, NEW k \in KernelPages,
         ReadUserMem(p, g, k)
  PROVE  Inv'
<1>1. copy \in [Procs -> Copies] /\ over \subseteq Procs
  BY DEF Inv, TypeOK, Copies
<1>2. CASE ReadByte(p, g)
  <2> DEFINE b == ByteIn(GetPage(p, g), g)
             c == [to |-> "kernel", page |-> k, val |-> b]
  <2>1. CanGetPage(p, g)
    BY <1>2 DEF ReadByte, GetsPage
  <2>2. b \in Bytes
    BY <2>1, ByteInType
  <2>3. CASE copy' = [copy EXCEPT ![p] = c] /\ UNCHANGED over
    <3> HIDE DEF b
    <3>1. c \in Copies /\ c.to = "kernel"
      BY <2>2 DEF Copies
    <3> HIDE DEF c
    <3>2. copy' \in [Procs -> Copies]
      BY <1>1, <2>3, <3>1
    <3>3. CopyMapped'
      BY <1>1, <2>3, <3>1 DEF Inv, CopyMapped, Mapped, ReadUserMem
    <3> QED
      BY <1>1, <1>2, <2>3, <3>2, <3>3, ReadByteAccess, AccessInv
         DEF ReadUserMem, kernelVars
  <2>4. CASE GetPageFails(p, g)
    BY <2>1, <2>4 DEF GetPageFails
  <2> QED
    BY <2>3, <2>4 DEF ReadUserMem
<1>3. CASE GetPageFails(p, g)
  <2>1. ~ReadByte(p, g)
    BY <1>3 DEF GetPageFails, ReadByte, GetsPage
  <2>2. UNCHANGED copy /\ over' = over \cup {p}
    BY <2>1 DEF ReadUserMem
  <2>3. copy' \in [Procs -> Copies] /\ over' \subseteq Procs /\ CopyMapped'
    BY <1>1, <2>2 DEF Inv, CopyMapped, Mapped, ReadUserMem
  <2> QED
    BY <1>3, <2>3, FailInv DEF ReadUserMem, kernelVars
<1> QED
  BY <1>2, <1>3 DEF ReadUserMem

LEMMA ReadKernelMemInv ==
  ASSUME Inv, NEW p \in Procs, NEW g \in Pages, NEW k \in KernelPages,
         ReadKernelMem(p, k, g)
  PROVE  Inv'
<1> DEFINE b == ReadFrame(ram, kpte[k].loc)
           c == [to |-> "user", page |-> g, val |-> b]
<1>1. copy \in [Procs -> Copies] /\ over \subseteq Procs
  BY DEF Inv, TypeOK, Copies
<1>2. b \in Bytes
  <2>1. kpte[k].loc \in Frames
    BY DEF Inv, FrameExclusive, KernelFrames
  <2> QED
    BY <2>1 DEF Inv, TypeOK, ReadFrame
<1>3. copy' = [copy EXCEPT ![p] = c]
  BY DEF ReadKernelMem
<1> HIDE DEF b
<1>4. c \in Copies /\ c.page = g
  BY <1>2 DEF Copies
<1> HIDE DEF c
<1>5. copy' \in [Procs -> Copies] /\ over' \subseteq Procs
  BY <1>1, <1>3, <1>4 DEF ReadKernelMem
<1>6. CopyMapped'
  BY <1>1, <1>3, <1>4 DEF Inv, CopyMapped, Mapped, ReadKernelMem
<1> QED
  BY <1>5, <1>6, InstructionInv DEF ReadKernelMem

LEMMA WriteUserMemInv ==
  ASSUME FramesFit, Inv, NEW p \in Procs, WriteUserMem(p)
  PROVE  Inv'
<1>1. copy[p].to = "user" /\ copy[p].page \in Pages /\ copy[p].val \in Bytes
  BY CopyFields DEF Inv, TypeOK, Copies, WriteUserMem
<1>2. Mapped(p, copy[p].page)
  BY <1>1 DEF Inv, CopyMapped
<1>3. copy \in [Procs -> Copies] /\ copy' = [copy EXCEPT ![p] = NoCopy]
  BY DEF Inv, TypeOK, Copies, WriteUserMem
<1>4. copy' \in [Procs -> Copies] /\ CopyMapped'
  BY <1>3 DEF Inv, Copies, CopyMapped, Mapped, NoCopy, WriteUserMem
<1> QED
  BY <1>1, <1>2, <1>4, WriteByteInv DEF WriteUserMem

\* The frame of a kernel page is nobody else's.
LEMMA WriteKernelMemInv ==
  ASSUME Inv, NEW p \in Procs, WriteKernelMem(p)
  PROVE  Inv'
<1> DEFINE k == copy[p].page
           v == copy[p].val
           f == kpte[k].loc
<1>1. k \in KernelPages /\ v \in Bytes /\ f \in KernelFrames
  BY DEF Inv, TypeOK, NoCopy, WriteKernelMem, KernelFrames
<1>2. f \in Frames /\ ram \in [Frames -> Bytes]
  BY <1>1 DEF Inv, TypeOK, FrameExclusive
<1>3. /\ ram' = [ram EXCEPT ![f] = v] /\ kcells' = [kcells EXCEPT ![k] = v]
      /\ copy' = [copy EXCEPT ![p] = NoCopy]
      /\ UNCHANGED <<pte, fifo, mapped, ramFree, swp, swpFree, kpte, over, cells>>
  BY <1>2 DEF WriteKernelMem, WriteFrame
<1> HIDE DEF k, v, f
<1>4. TypeOK'
  BY <1>1, <1>2, <1>3 DEF Inv, TypeOK, KernelPages
<1>5. FrameExclusive' /\ SlotExclusive'
  BY <1>3 DEF Inv, FrameExclusive, FramesDiffer, UserFrames, KernelFrames,
       KernelPages, Present, SlotExclusive, SlotsDiffer, UserSlots, Swapped
<1>6. FifoPresent' /\ BeyondEnd'
  BY <1>3 DEF Inv, FifoPresent, BeyondEnd, Present, Mapped
<1>7. MemoryIntegrity'
  <2>1. ASSUME NEW q \in Procs, NEW g \in Pages, Present(q, g)
        PROVE  ram'[pte[q][g].loc] = ram[pte[q][g].loc]
    <3>1. pte[q][g].loc \in Frames
      BY <2>1, EntryFields DEF Inv, TypeOK, Present, InRam
    <3>2. pte[q][g].loc \in UserFrames
      BY <2>1, <3>1 DEF UserFrames
    <3>3. pte[q][g].loc # f
      BY <1>1, <3>2 DEF Inv, FrameExclusive
    <3> QED
      BY <1>2, <1>3, <3>1, <3>3
  <2> QED
    BY <1>3, <2>1 DEF Inv, MemoryIntegrity, Present, Swapped
<1>8. KernelIntegrity'
  <2>1. ASSUME NEW l \in KernelPages, kcells'[l] # NotWritten
        PROVE  ram'[kpte[l].loc] = kcells'[l]
    <3>1. kcells \in [KernelPages -> Bytes \cup {NotWritten}]
      BY DEF Inv, TypeOK
    <3>2. CASE l = k
      BY <1>1, <1>2, <1>3, <3>1, <3>2 DEF f
    <3>3. CASE l # k
      <4>1. kpte[l].loc # f
        BY <1>1, <3>3 DEF Inv, FrameExclusive, f
      <4>2. kpte[l].loc \in Frames
        BY DEF Inv, FrameExclusive, KernelFrames
      <4> QED
        BY <1>1, <1>2, <1>3, <2>1, <3>1, <3>3, <4>1, <4>2
           DEF Inv, KernelIntegrity
    <3> QED
      BY <3>2, <3>3
  <2> QED
    BY <1>3, <2>1 DEF KernelIntegrity, KernelPages
<1>9. CopyMapped'
  <2>1. copy \in [Procs -> Copies]
    BY DEF Inv, TypeOK, Copies
  <2> QED
    BY <1>3, <2>1 DEF Inv, CopyMapped, Mapped, NoCopy
<1> QED
  BY <1>4, <1>5, <1>6, <1>7, <1>8, <1>9 DEF Inv

\* Frames that leave the free list for the kernel's table.
LEMMA KernelMapInv ==
  ASSUME FramesFit, Inv, NEW n \in 1 .. MaxKernelRun, KernelMap(n)
  PROVE  Inv'
<1> DEFINE f == FreeRun(ramFree, n, NumFrames)
           R == f .. f + n - 1
           new == [i \in 1 .. n |-> Pinned(f + i - 1)]
           blank == [i \in 1 .. n |-> NotWritten]
           last == Len(kpte)
<1>1. /\ n \in Nat /\ NumFrames \in Nat /\ ramFree \in Seq(Frames)
      /\ kpte \in Seq(EntrySet(Frames, {}))
      /\ kcells \in [KernelPages -> Bytes \cup {NotWritten}]
  BY PagingAssumption DEF Inv, TypeOK
<1>2. f \in Nat /\ f + n <= NumFrames /\ R \subseteq ToSet(ramFree)
  BY <1>1, FindRun DEF KernelMap
<1>3. /\ ramFree' = AfterGetRun(ramFree, f, n)
      /\ kpte' = kpte \o new /\ kcells' = kcells \o blank
      /\ UNCHANGED <<pte, fifo, mapped, ram, swp, swpFree, copy, over, cells, res>>
  BY DEF KernelMap
<1> HIDE DEF f
<1>4. /\ ramFree' \in Seq(Frames) /\ IsInjective(ramFree')
      /\ ToSet(ramFree') = ToSet(ramFree) \ R
  <2>1. IsInjective(ramFree)
    BY DEF Inv, FrameExclusive
  <2>2. /\ AfterGetRun(ramFree, f, n) \in Seq(Frames)
        /\ ToSet(AfterGetRun(ramFree, f, n)) = ToSet(ramFree) \ (f .. f + n - 1)
        /\ IsInjective(ramFree) => IsInjective(AfterGetRun(ramFree, f, n))
    BY <1>1, <1>2, TakeRun
  <2> QED
    BY <1>3, <2>1, <2>2
<1>5. /\ new \in [1 .. n -> EntrySet(Frames, {})]
      /\ \A i \in 1 .. n : new[i].loc = f + i - 1
  <2>1. ASSUME NEW i \in 1 .. n
        PROVE  Pinned(f + i - 1) \in EntrySet(Frames, {}) /\ Pinned(f + i - 1).loc = f + i - 1
    <3>1. f + i - 1 \in Frames
      BY <1>1, <1>2 DEF Frames
    <3> QED
      BY <3>1, PinnedEntry
  <2> QED
    BY <2>1
<1> HIDE DEF new
<1>6. /\ kpte' \in Seq(EntrySet(Frames, {})) /\ Len(kpte') = last + n
      /\ last \in Nat
      /\ \A k \in 1 .. last : kpte'[k] = kpte[k]
      /\ \A k \in last + 1 .. last + n : kpte'[k] = new[k - last]
  <2> DEFINE S == EntrySet(Frames, {})
  <2> HIDE DEF S
  <2>1. kpte \in Seq(S) /\ n \in Nat /\ new \in [1 .. n -> S]
    BY <1>1, <1>5 DEF S
  <2>2. /\ kpte \o new \in Seq(S) /\ Len(kpte \o new) = last + n /\ last \in Nat
        /\ \A k \in 1 .. last : (kpte \o new)[k] = kpte[k]
        /\ \A k \in last + 1 .. last + n : (kpte \o new)[k] = new[k - last]
    BY <2>1, PutRun
  <2> QED
    BY <1>3, <2>2 DEF S
<1>7. /\ kcells' \in [1 .. last + n -> Bytes \cup {NotWritten}]
      /\ \A k \in 1 .. last : kcells'[k] = kcells[k]
      /\ \A k \in last + 1 .. last + n : kcells'[k] = NotWritten
  <2>1. kcells \in Seq(Bytes \cup {NotWritten}) /\ Len(kcells) = last
    <3> DEFINE B == Bytes \cup {NotWritten}
    <3>1. kcells \in [1 .. last -> B] /\ last \in Nat
      BY <1>1, <1>6 DEF KernelPages
    <3> HIDE DEF B, last
    <3>2. kcells \in Seq(B) /\ DOMAIN kcells = 1 .. last
      BY <3>1, SeqDef
    <3>3. Len(kcells) \in Nat /\ DOMAIN kcells = 1 .. Len(kcells)
      BY <3>2, LenProperties
    <3>4. Len(kcells) = last
      BY <3>1, <3>2, <3>3
    <3> QED
      BY <3>2, <3>4 DEF B
  <2> DEFINE S == Bytes \cup {NotWritten}
  <2>2. blank \in [1 .. n -> S]
    OBVIOUS
  <2> HIDE DEF S, blank
  <2>3. kcells \in Seq(S) /\ n \in Nat
    BY <1>1, <2>1 DEF S
  <2>4. /\ kcells \o blank \in Seq(S)
        /\ Len(kcells \o blank) = Len(kcells) + n
        /\ \A k \in 1 .. Len(kcells) : (kcells \o blank)[k] = kcells[k]
        /\ \A k \in Len(kcells) + 1 .. Len(kcells) + n :
             (kcells \o blank)[k] = blank[k - Len(kcells)]
    BY <2>2, <2>3, PutRun
  <2> HIDE DEF last
  <2>5. /\ kcells' \in Seq(S) /\ Len(kcells') = last + n
        /\ \A k \in 1 .. last : kcells'[k] = kcells[k]
        /\ \A k \in last + 1 .. last + n : kcells'[k] = blank[k - last]
    BY <1>3, <2>1, <2>4
  <2>6. kcells' \in [1 .. last + n -> S]
    BY <2>5, LenProperties
  <2>7. ASSUME NEW k \in last + 1 .. last + n PROVE blank[k - last] = NotWritten
    BY <1>1, <1>6 DEF blank
  <2> QED
    BY <2>5, <2>6, <2>7 DEF S
<1>8. ASSUME NEW k \in last + 1 .. last + n
      PROVE  /\ k - last \in 1 .. n
             /\ kpte'[k].loc = f + (k - last) - 1
             /\ kpte'[k].loc \in R
  <2>1. k - last \in 1 .. n /\ kpte'[k] = new[k - last]
    BY <1>1, <1>6
  <2>2. kpte'[k].loc = f + (k - last) - 1
    BY <1>5, <2>1
  <2> QED
    BY <1>1, <1>2, <1>6, <2>1, <2>2
<1> HIDE DEF last
<1>9. KernelPages = 1 .. last /\ KernelPages' = 1 .. last + n
  BY <1>6 DEF KernelPages, last
<1>10. KernelFrames' = KernelFrames \cup R
  <2>1. ASSUME NEW x \in KernelFrames' PROVE x \in KernelFrames \cup R
    <3>1. PICK k \in 1 .. last + n : x = kpte'[k].loc
      BY <1>9 DEF KernelFrames
    <3>2. CASE k \in 1 .. last
      BY <1>6, <1>9, <3>1, <3>2 DEF KernelFrames
    <3>3. CASE k \notin 1 .. last
      <4>1. k \in last + 1 .. last + n
        BY <1>1, <1>6, <3>3
      <4> QED
        BY <1>8, <3>1, <4>1
    <3> QED
      BY <3>2, <3>3
  <2>2. ASSUME NEW x \in KernelFrames PROVE x \in KernelFrames'
    <3>1. PICK k \in 1 .. last : x = kpte[k].loc
      BY <1>9 DEF KernelFrames
    <3>2. k \in 1 .. last + n /\ kpte'[k].loc = x
      BY <1>1, <1>6, <3>1
    <3> QED
      BY <1>9, <3>2 DEF KernelFrames
  <2>3. ASSUME NEW x \in R PROVE x \in KernelFrames'
    <3>1. last + (x - f) + 1 \in last + 1 .. last + n
      BY <1>1, <1>2, <1>6
    <3>2. kpte'[last + (x - f) + 1].loc = x
      <4> DEFINE k == last + (x - f) + 1
      <4>0. k \in last + 1 .. last + n
        BY <3>1
      <4> HIDE DEF k
      <4>1. kpte'[k].loc = f + (k - last) - 1
        BY <1>8, <4>0
      <4>2. f \in Nat /\ last \in Nat /\ x \in Int
        BY <1>2, <1>6
      <4>3. f + (k - last) - 1 = x
        BY <4>2 DEF k
      <4> QED
        BY <4>1, <4>3 DEF k
    <3>3. last + (x - f) + 1 \in 1 .. last + n
      BY <1>1, <1>6, <3>1
    <3> QED
      BY <1>9, <3>2, <3>3 DEF KernelFrames
  <2> QED
    BY <2>1, <2>2, <2>3
<1>11. ASSUME NEW k \in 1 .. last + n, NEW l \in 1 .. last + n,
              kpte'[k].loc = kpte'[l].loc
       PROVE  k = l
  <2>1. \A i \in 1 .. last : kpte'[i].loc \in KernelFrames
    BY <1>6, <1>9 DEF KernelFrames
  <2>2. \A i \in last + 1 .. last + n : kpte'[i].loc \in R
    BY <1>8
  <2>3. KernelFrames \cap R = {}
    BY <1>2 DEF Inv, FrameExclusive
  <2>4. \A i \in 1 .. last + n : i \in 1 .. last \/ i \in last + 1 .. last + n
    BY <1>1, <1>6
  <2>5. CASE k \in 1 .. last /\ l \in 1 .. last
    BY <1>6, <1>9, <1>11, <2>5 DEF Inv, FrameExclusive
  <2>6. CASE k \in last + 1 .. last + n /\ l \in last + 1 .. last + n
    <3>1. kpte'[k].loc = f + (k - last) - 1 /\ kpte'[l].loc = f + (l - last) - 1
      BY <1>8, <2>6
    <3>2. f \in Nat /\ last \in Nat /\ k \in Int /\ l \in Int
      BY <1>2, <1>6, <2>6
    <3>3. f + (k - last) - 1 = f + (l - last) - 1
      BY <1>11, <3>1
    <3> QED
      BY <3>2, <3>3
  <2>7. CASE ~(k \in 1 .. last <=> l \in 1 .. last)
    <3> HIDE DEF R
    <3> QED
      BY <1>11, <2>1, <2>2, <2>3, <2>4, <2>7
  <2> QED
    BY <2>4, <2>5, <2>6, <2>7
<1>12. TypeOK'
  <2>1. ASSUME NEW p \in Procs
        PROVE  copy[p] \in {NoCopy}
                 \cup [to : {"kernel"}, page : 1 .. last + n, val : Bytes]
                 \cup [to : {"user"}, page : Pages, val : Bytes]
    <3>1. copy[p] \in Copies /\ KernelPages \subseteq 1 .. last + n
      BY <1>1, <1>6, <1>9 DEF Inv, TypeOK, Copies
    <3> QED
      BY <3>1 DEF Copies
  <2>2. copy' \in [Procs -> {NoCopy}
                     \cup [to : {"kernel"}, page : 1 .. last + n, val : Bytes]
                     \cup [to : {"user"}, page : Pages, val : Bytes]]
    BY <1>3, <2>1 DEF Inv, TypeOK
  <2> QED
    BY <1>3, <1>4, <1>6, <1>7, <1>9, <2>2 DEF Inv, TypeOK
<1>13. FrameExclusive'
  <2>1. FramesDiffer' /\ UserFrames' = UserFrames
    BY <1>3 DEF Inv, FrameExclusive, FramesDiffer, UserFrames, Present
  <2>2. /\ UserFrames \cap ToSet(ramFree) = {}
        /\ UserFrames \cap KernelFrames = {}
        /\ KernelFrames \cap ToSet(ramFree) = {}
        /\ Frames = UserFrames \cup ToSet(ramFree) \cup KernelFrames
    BY DEF Inv, FrameExclusive
  <2>3. /\ UserFrames' \cap ToSet(ramFree') = {}
        /\ UserFrames' \cap KernelFrames' = {}
        /\ KernelFrames' \cap ToSet(ramFree') = {}
        /\ Frames = UserFrames' \cup ToSet(ramFree') \cup KernelFrames'
    <3> HIDE DEF R
    <3> QED
      BY <1>2, <1>4, <1>10, <2>1, <2>2
  <2> QED
    BY <1>4, <1>9, <1>11, <2>1, <2>3 DEF FrameExclusive
<1>14. SlotExclusive' /\ FifoPresent' /\ BeyondEnd' /\ MemoryIntegrity'
  BY <1>3 DEF Inv, SlotExclusive, SlotsDiffer, UserSlots, FifoPresent, BeyondEnd,
       MemoryIntegrity, Present, Swapped, Mapped
<1>15. KernelIntegrity'
  <2>1. ASSUME NEW k \in 1 .. last + n, kcells'[k] # NotWritten
        PROVE  ram[kpte'[k].loc] = kcells'[k]
    <3>1. k \in 1 .. last
      BY <1>1, <1>6, <1>7, <2>1
    <3> QED
      BY <1>6, <1>7, <1>9, <2>1, <3>1 DEF Inv, KernelIntegrity
  <2> QED
    BY <1>3, <1>9, <2>1 DEF KernelIntegrity
<1>16. CopyMapped'
  BY <1>3 DEF Inv, CopyMapped, Mapped
<1> QED
  BY <1>12, <1>13, <1>14, <1>15, <1>16 DEF Inv

\* Every step preserves the invariant.
LEMMA NextInv == FramesFit /\ Inv /\ [Next]_vars => Inv'
<1> SUFFICES ASSUME FramesFit, Inv, [Next]_vars PROVE Inv'
  OBVIOUS
<1>1. ASSUME NEW p \in Procs, Grow(p) \/ EndProgram(p) \/ WriteKernelMem(p)
                              \/ WriteUserMem(p)
      PROVE  Inv'
  BY <1>1, GrowInv, EndProgramInv, WriteKernelMemInv, WriteUserMemInv
<1>2. ASSUME NEW p \in Procs, NEW g \in Pages, Read(p, g)
      PROVE  Inv'
  BY <1>2, ReadInv
<1>3. ASSUME NEW p \in Procs, NEW g \in Pages, NEW v \in Values, Write(p, g, v)
      PROVE  Inv'
  BY <1>3, WriteInv
<1>4. ASSUME NEW p \in Procs, NEW g \in Pages, NEW k \in KernelPages,
             ReadUserMem(p, g, k) \/ ReadKernelMem(p, k, g)
      PROVE  Inv'
  BY <1>4, ReadUserMemInv, ReadKernelMemInv
<1>5. ASSUME NEW n \in 1 .. MaxKernelRun, KernelMap(n)
      PROVE  Inv'
  BY <1>5, KernelMapInv
<1>6. CASE UNCHANGED vars
  <2>1. copy' \in [Procs -> Copies] /\ over' \subseteq Procs /\ CopyMapped'
    BY <1>6 DEF Inv, TypeOK, Copies, CopyMapped, Mapped, vars
  <2> QED
    BY <1>6, <2>1, InstructionInv DEF vars
<1> QED
  BY <1>1, <1>2, <1>3, <1>4, <1>5, <1>6 DEF Next

\* The invariant holds in every reachable state.
LEMMA InvHolds == ASSUME FramesFit PROVE Spec => []Inv
<1> QED
  BY InitInv, NextInv, PTL DEF Spec

-----------------------------------------------------------------------------
(* The refinement: each step of the code is one step of ProcessMemory, or none *)
(* of its business.                                                           *)

\* pg_getval returns what was stored last.
LEMMA ReadsBack ==
  ASSUME FramesFit, Inv, NEW p \in Procs, NEW g \in Pages, CanGetPage(p, g)
  PROVE  ByteIn(GetPage(p, g), g) \in MEM!Reads(cells[p][g])
<1> DEFINE s == GetPage(p, g)
           b == ByteIn(s, g)
<1>1. Served(p, g, s)
  BY GetPageServed
<1>2. b \in Bytes
  BY ByteInType
<1> HIDE DEF s
<1>3. s.pt[g].loc \in Frames /\ s.ram \in [Frames -> Bytes]
  BY <1>1, EntryFields DEF Served, Table, InRam, Mem
<1>4. b = s.ram[s.pt[g].loc]
  BY <1>3 DEF ByteIn, ReadFrame
<1>5. cells[p][g] # NotWritten => b = cells[p][g]
  BY <1>1, <1>4 DEF Served, Holds, InRam, InSwap
<1> HIDE DEF b
<1>6. b \in MEM!Reads(cells[p][g])
  BY <1>2, <1>5 DEF MEM!Reads, MEM!NotWritten, NotWritten
<1> QED
  BY <1>6 DEF b, s

LEMMA InitRefines == Init => MEM!MemInit
BY DEF Init, MEM!MemInit, MEM!NotWritten, NotWritten, MEM!NoCopy, NoCopy,
       MEM!NoResult, NoResult

\* A write is stored, or nothing happens.
LEMMA WriteByteRefines ==
  ASSUME NEW p, NEW g, NEW v, WriteByte(p, g, v)
  PROVE  UNCHANGED cells \/ cells' = [cells EXCEPT ![p][g] = v]
BY DEF WriteByte, StoreByte

LEMMA GrowRefines ==
  ASSUME Inv, NEW p \in Procs, Grow(p)
  PROVE  MEM!GrowMem(p)
<1>1. mapped[p] \in Pages
  BY PagingAssumption DEF Inv, TypeOK, Grow, Pages
<1> QED
  BY <1>1 DEF Grow, MEM!GrowMem, kernelVars

LEMMA ReadRefines ==
  ASSUME FramesFit, Inv, NEW p \in Procs, NEW g \in Pages, Read(p, g)
  PROVE  MEM!ReadMem(p, g) \/ UNCHANGED MEM!memVars
<1>1. g < mapped[p] /\ UNCHANGED <<mapped, kcells, copy, cells>>
  BY DEF Read, Mapped, kernelVars
<1>2. CASE ReadByte(p, g) /\ res' = [op |-> "read", proc |-> p, page |-> g,
                                     val |-> ByteIn(GetPage(p, g), g)]
  <2>1. ByteIn(GetPage(p, g), g) \in MEM!Reads(cells[p][g])
    BY <1>2, ReadsBack DEF ReadByte, GetsPage
  <2> QED
    BY <1>1, <1>2, <2>1 DEF MEM!ReadMem
<1>3. CASE UNCHANGED res
  BY <1>1, <1>3 DEF MEM!memVars
<1> QED
  BY <1>2, <1>3 DEF Read

LEMMA WriteRefines ==
  ASSUME Inv, NEW p \in Procs, NEW g \in Pages, NEW v \in Values, Write(p, g, v)
  PROVE  MEM!WriteMem(p, g, v) \/ UNCHANGED MEM!memVars
BY WriteByteRefines DEF Write, Mapped, kernelVars, MEM!WriteMem, MEM!memVars

\* The pages of the kernel.
LEMMA KernelDomain == ASSUME Inv PROVE DOMAIN kcells = KernelPages
BY DEF Inv, TypeOK

LEMMA ReadUserMemRefines ==
  ASSUME FramesFit, Inv, NEW p \in Procs, NEW g \in Pages, NEW k \in KernelPages,
         ReadUserMem(p, g, k)
  PROVE  MEM!TakeUser(p, g, k) \/ UNCHANGED MEM!memVars
<1>1. /\ g < mapped[p] /\ copy[p] = MEM!NoCopy /\ k \in DOMAIN kcells
      /\ UNCHANGED <<mapped, kcells, cells, res>>
  BY KernelDomain DEF ReadUserMem, Ready, Mapped, kernelVars, MEM!NoCopy, NoCopy
<1>2. CASE /\ ReadByte(p, g)
           /\ copy' = [copy EXCEPT ![p] = [to |-> "kernel", page |-> k,
                                           val |-> ByteIn(GetPage(p, g), g)]]
  <2>1. ByteIn(GetPage(p, g), g) \in MEM!Reads(cells[p][g])
    BY <1>2, ReadsBack DEF ReadByte, GetsPage
  <2> QED
    BY <1>1, <1>2, <2>1 DEF MEM!TakeUser
<1>3. CASE UNCHANGED copy
  BY <1>1, <1>3 DEF MEM!memVars
<1> QED
  BY <1>2, <1>3 DEF ReadUserMem

LEMMA ReadKernelMemRefines ==
  ASSUME Inv, NEW p \in Procs, NEW g \in Pages, NEW k \in KernelPages,
         ReadKernelMem(p, k, g)
  PROVE  MEM!TakeKernel(p, k, g)
<1> DEFINE b == ReadFrame(ram, kpte[k].loc)
<1>1. /\ g < mapped[p] /\ copy[p] = MEM!NoCopy /\ k \in DOMAIN kcells
      /\ UNCHANGED <<mapped, kcells, cells, res>>
  BY KernelDomain DEF ReadKernelMem, Ready, Mapped, kernelVars, MEM!NoCopy, NoCopy
<1>2. kpte[k].loc \in Frames
  BY DEF Inv, FrameExclusive, KernelFrames
<1>3. b \in Bytes /\ b = ram[kpte[k].loc]
  BY <1>2 DEF Inv, TypeOK, ReadFrame
<1>4. copy' = [copy EXCEPT ![p] = [to |-> "user", page |-> g, val |-> b]]
  BY DEF ReadKernelMem
<1> HIDE DEF b
<1>5. b \in MEM!Reads(kcells[k])
  BY <1>3 DEF Inv, KernelIntegrity, MEM!Reads, MEM!NotWritten, NotWritten
<1> QED
  BY <1>1, <1>4, <1>5 DEF MEM!TakeKernel

LEMMA WriteKernelMemRefines ==
  ASSUME NEW p \in Procs, WriteKernelMem(p)
  PROVE  MEM!PutKernel(p)
BY DEF WriteKernelMem, MEM!PutKernel, MEM!NoCopy, NoCopy

LEMMA WriteUserMemRefines ==
  ASSUME NEW p \in Procs, WriteUserMem(p)
  PROVE  MEM!PutUser(p)
<1>1. UNCHANGED cells \/ cells' = [cells EXCEPT ![p][copy[p].page] = copy[p].val]
  BY WriteByteRefines DEF WriteUserMem
<1> QED
  BY <1>1 DEF WriteUserMem, kernelVars, MEM!PutUser, MEM!NoCopy, NoCopy

LEMMA KernelMapRefines ==
  ASSUME NEW n \in 1 .. MaxKernelRun, KernelMap(n)
  PROVE  MEM!GrowKernel(n)
BY DEF KernelMap, MEM!GrowKernel, MEM!NotWritten, NotWritten

LEMMA NextRefines ==
  ASSUME FramesFit, Inv, [Next]_vars
  PROVE  [MEM!MemNext]_(MEM!memVars)
<1>1. ASSUME NEW p \in Procs, Grow(p) \/ WriteKernelMem(p) \/ WriteUserMem(p)
      PROVE  MEM!MemNext
  BY <1>1, GrowRefines, WriteKernelMemRefines, WriteUserMemRefines DEF MEM!MemNext
<1>2. ASSUME NEW p \in Procs, EndProgram(p)
      PROVE  UNCHANGED MEM!memVars
  BY <1>2 DEF EndProgram, MEM!memVars, kernelVars
<1>3. ASSUME NEW p \in Procs, NEW g \in Pages, Read(p, g)
      PROVE  MEM!MemNext \/ UNCHANGED MEM!memVars
  BY <1>3, ReadRefines DEF MEM!MemNext
<1>4. ASSUME NEW p \in Procs, NEW g \in Pages, NEW v \in Values, Write(p, g, v)
      PROVE  MEM!MemNext \/ UNCHANGED MEM!memVars
  <2>1. v \in Bytes
    BY DEF Bytes
  <2> QED
    BY <1>4, <2>1, WriteRefines DEF MEM!MemNext
<1>5. ASSUME NEW p \in Procs, NEW g \in Pages, NEW k \in KernelPages,
             ReadUserMem(p, g, k) \/ ReadKernelMem(p, k, g)
      PROVE  MEM!MemNext \/ UNCHANGED MEM!memVars
  BY <1>5, KernelDomain, ReadUserMemRefines, ReadKernelMemRefines DEF MEM!MemNext
<1>6. ASSUME NEW n \in 1 .. MaxKernelRun, KernelMap(n)
      PROVE  MEM!MemNext
  BY <1>6, KernelMapRefines DEF MEM!MemNext
<1>7. CASE UNCHANGED vars
  BY <1>7 DEF vars, kernelVars, MEM!memVars
<1> QED
  BY <1>1, <1>2, <1>3, <1>4, <1>5, <1>6, <1>7 DEF Next

-----------------------------------------------------------------------------
(* Results.                                                                   *)

\* Entries name frames and slots that exist: pg_getpage never stores a location
\* that its device does not have.
THEOREM TypeCorrect == ASSUME FramesFit PROVE Spec => []TypeOK
<1>1. Inv => TypeOK
  BY DEF Inv
<1> QED
  BY <1>1, InvHolds, PTL

\* No frame is shared, lost or doubled by page faults, evictions and the
\* kernel's contiguous allocation.
THEOREM FramesExclusive == ASSUME FramesFit PROVE Spec => []FrameExclusive
<1>1. Inv => FrameExclusive
  BY DEF Inv
<1> QED
  BY <1>1, InvHolds, PTL

\* No swap slot is shared, lost or doubled by evictions and page-ins.
THEOREM SlotsExclusive == ASSUME FramesFit PROVE Spec => []SlotExclusive
<1>1. Inv => SlotExclusive
  BY DEF Inv
<1> QED
  BY <1>1, InvHolds, PTL

\* A victim always has a frame to give up.
THEOREM VictimsPresent == ASSUME FramesFit PROVE Spec => []FifoPresent
<1>1. Inv => FifoPresent
  BY DEF Inv
<1> QED
  BY <1>1, InvHolds, PTL

\* What a process stored is in RAM behind a dirty entry or in its swap slot.
THEOREM MemoryKept == ASSUME FramesFit PROVE Spec => []MemoryIntegrity
<1>1. Inv => MemoryIntegrity
  BY DEF Inv
<1> QED
  BY <1>1, InvHolds, PTL

\* What was copied to a kernel page stays there until the next copy to it.
THEOREM KernelKept == ASSUME FramesFit PROVE Spec => []KernelIntegrity
<1>1. Inv => KernelIntegrity
  BY DEF Inv
<1> QED
  BY <1>1, InvHolds, PTL

\* Every program sees a private memory and the kernel's pages as if there were
\* neither frames nor swap: the paging code implements ProcessMemory.
THEOREM PagingRefines == ASSUME FramesFit PROVE Spec => RefinesProcessMemory
<1>1. Inv /\ [Next]_vars => [MEM!MemNext]_(MEM!memVars)
  BY NextRefines
<1> QED
  BY <1>1, InvHolds, InitRefines, PTL DEF Spec, RefinesProcessMemory, MEM!MemSpec
=============================================================================
