--------------------------- MODULE PageTableProofs ---------------------------
(* Proofs about PageTable for directories and pages of any size: the walks    *)
(* build one tree for each space, and read through them the words are a       *)
(* private map from pages to entries.                                         *)
EXTENDS PageTable, FiniteSetTheorems, WellFoundedInduction, TLAPS

-----------------------------------------------------------------------------
(* Division.                                                                  *)

LEMMA Division ==
  ASSUME NEW x \in Nat, NEW d \in Nat \ {0}
  PROVE  /\ x \div d \in Nat /\ x % d \in 0 .. d - 1
         /\ x = d * (x \div d) + (x % d)
  OBVIOUS

LEMMA DivisionIsUnique ==
  ASSUME NEW q \in Nat, NEW d \in Nat \ {0}, NEW r \in 0 .. d - 1
  PROVE  (d * q + r) \div d = q /\ (d * q + r) % d = r
  OBVIOUS

\* A common factor cancels.
LEMMA CancelFactor ==
  ASSUME NEW x \in Nat, NEW c \in Nat \ {0}, NEW d \in Nat \ {0}
  PROVE  (x * c) \div (c * d) = x \div d
<1> DEFINE q == x \div d
           r == x % d
<1>1. q \in Nat /\ r \in 0 .. d - 1 /\ x = d * q + r
  BY Division
<1> HIDE DEF q, r
<1>2. x * c = (c * d) * q + r * c
  BY <1>1
<1>3. c * d \in Nat \ {0} /\ r * c \in 0 .. c * d - 1
  <2>1. r * c \in Nat /\ c * d \in Nat \ {0}
    BY <1>1
  <2>2. r + 1 <= d /\ r \in Nat
    BY <1>1
  <2>3. (r + 1) * c <= d * c
    BY <2>2
  <2>4. r * c + c <= c * d
    BY <2>2, <2>3
  <2> QED
    BY <2>1, <2>4
<1>4. (x * c) \div (c * d) = q
  BY <1>1, <1>2, <1>3, DivisionIsUnique
<1> QED
  BY <1>4 DEF q

\* Dividing by a product is dividing twice.
LEMMA DivideTwice ==
  ASSUME NEW x \in Nat, NEW c \in Nat \ {0}, NEW d \in Nat \ {0}
  PROVE  x \div (c * d) = (x \div c) \div d
<1> DEFINE y == x \div c
           a == x % c
           q == y \div d
           b == y % d
<1>1. y \in Nat /\ a \in 0 .. c - 1 /\ x = c * y + a
  BY Division
<1> HIDE DEF y, a
<1>2. q \in Nat /\ b \in 0 .. d - 1 /\ y = d * q + b
  BY <1>1, Division
<1> HIDE DEF q, b
<1>3. x = (c * d) * q + (c * b + a)
  <2>1. c * y = c * (d * q) + c * b
    BY <1>2
  <2>2. c * (d * q) = (c * d) * q
    BY <1>2
  <2> QED
    BY <1>1, <1>2, <2>1, <2>2
<1>4. c * d \in Nat \ {0} /\ c * b + a \in 0 .. c * d - 1
  <2>1. c * b + a \in Nat /\ c * d \in Nat \ {0} /\ b \in Nat /\ b + 1 <= d
    BY <1>1, <1>2
  <2>2. c * (b + 1) <= c * d
    BY <2>1
  <2>3. c * b + c <= c * d
    BY <2>1, <2>2
  <2> QED
    BY <1>1, <2>1, <2>3
<1>5. x \div (c * d) = q
  BY <1>2, <1>3, <1>4, DivisionIsUnique
<1> QED
  BY <1>5 DEF q, y

LEMMA QuotientBound ==
  ASSUME NEW x \in Nat, NEW d \in Nat \ {0}, NEW m \in Nat, x < d * m
  PROVE  x \div d < m
  OBVIOUS

-----------------------------------------------------------------------------
(* Pages and their indexes.                                                   *)

\* What the assumption says, and what the pages below an entry amount to.
LEMMA Sizes ==
  /\ PageSize \in Nat \ {0} /\ NumEntries \in Nat \ {0} /\ NumPages \in Nat \ {0}
  /\ \A level \in 0 .. 4 : PagesBelow[level + 1] \in Nat \ {0}
  /\ PagesBelow[1] = 1
  /\ \A level \in 0 .. 3 :
       PagesBelow[level + 2] = PagesBelow[level + 1] * NumEntries
  /\ NumPages = PagesBelow[5] * NumEntries
<1>1. PageSize \in Nat \ {0} /\ NumEntries \in Nat \ {0}
  BY PageTableAssumption
<1> DEFINE n == NumEntries
<1>2. /\ n \in Nat \ {0} /\ n * n \in Nat \ {0} /\ n * n * n \in Nat \ {0}
      /\ n * n * n * n \in Nat \ {0} /\ (n * n * n * n) * n \in Nat \ {0}
  <2>1. \A x, y \in Nat \ {0} : x * y \in Nat \ {0}
    OBVIOUS
  <2> QED
    BY <1>1, <2>1
<1>3. PagesBelow = <<1, n, n * n, n * n * n, n * n * n * n>>
  BY DEF PagesBelow
<1> HIDE DEF n
<1>4. \A level \in 0 .. 4 : PagesBelow[level + 1] \in Nat \ {0}
  BY <1>2, <1>3
<1>5. PagesBelow[1] = 1 /\ PagesBelow[5] = n * n * n * n
  BY <1>3
<1>6. \A level \in 0 .. 3 : PagesBelow[level + 2] = PagesBelow[level + 1] * n
  <2> TAKE level \in 0 .. 3
  <2>1. CASE level = 0
    BY <1>2, <1>3, <2>1
  <2>2. CASE level = 1
    BY <1>2, <1>3, <2>2
  <2>3. CASE level = 2
    BY <1>2, <1>3, <2>3
  <2>4. CASE level = 3
    BY <1>2, <1>3, <2>4
  <2> QED
    BY <2>1, <2>2, <2>3, <2>4
<1>7. NumPages \in Nat \ {0} /\ NumPages = PagesBelow[5] * NumEntries
  BY <1>2, <1>5 DEF NumPages, n
<1> QED
  BY <1>1, <1>4, <1>5, <1>6, <1>7 DEF n

\* The index of a page at a level is a digit of its number.
Upper(g, level) == g \div PagesBelow[level + 1]

LEMMA IndexIsDigit ==
  ASSUME NEW g \in Nat, NEW level \in 0 .. 4
  PROVE  /\ PageIndex(g, level) = Upper(g, level) % NumEntries
         /\ Upper(g, level) \in Nat
         /\ PageIndex(g, level) \in Indexes
<1>1. PageSize \in Nat \ {0} /\ NumEntries \in Nat \ {0}
      /\ PagesBelow[level + 1] \in Nat \ {0}
  BY Sizes
<1>2. (g * PageSize) \div (PageSize * PagesBelow[level + 1]) = Upper(g, level)
  BY <1>1, CancelFactor DEF Upper
<1>3. Upper(g, level) \in Nat
  BY <1>1, Division DEF Upper
<1>4. PageIndex(g, level) = Upper(g, level) % NumEntries
  BY <1>2 DEF PageIndex, Index
<1> QED
  BY <1>1, <1>3, <1>4, Division DEF Indexes

LEMMA UpperSteps ==
  ASSUME NEW g \in Nat
  PROVE  /\ Upper(g, 0) = g
         /\ \A level \in 0 .. 3 : Upper(g, level + 1) = Upper(g, level) \div NumEntries
         /\ g < NumPages => Upper(g, 4) < NumEntries
<1>1. Upper(g, 0) = g
  BY Sizes DEF Upper
<1>2. ASSUME NEW level \in 0 .. 3
      PROVE  Upper(g, level + 1) = Upper(g, level) \div NumEntries
  <2>1. level \in 0 .. 4 /\ (level + 1) + 1 = level + 2
    OBVIOUS
  <2>2. /\ PagesBelow[level + 2] = PagesBelow[level + 1] * NumEntries
        /\ PagesBelow[level + 1] \in Nat \ {0} /\ NumEntries \in Nat \ {0}
    BY <2>1, Sizes
  <2> QED
    BY <2>1, <2>2, DivideTwice DEF Upper
<1>3. ASSUME g < NumPages PROVE Upper(g, 4) < NumEntries
  <2>1. PagesBelow[5] \in Nat \ {0} /\ NumEntries \in Nat
    <3>1. 4 \in 0 .. 4 /\ 4 + 1 = 5
      OBVIOUS
    <3> QED
      BY <3>1, Sizes
  <2>2. g < PagesBelow[5] * NumEntries
    BY <1>3, Sizes
  <2>3. g \div PagesBelow[5] < NumEntries
    BY <2>1, <2>2, QuotientBound
  <2>4. Upper(g, 4) = g \div PagesBelow[5]
    BY DEF Upper
  <2> QED
    BY <2>3, <2>4
<1> QED
  BY <1>1, <1>2, <1>3

\* Two pages with the same indexes are the same: the walk loses nothing.
LEMMA IndexesTellPages ==
  ASSUME NEW g \in Pages, NEW h \in Pages,
         \A level \in 0 .. 4 : PageIndex(g, level) = PageIndex(h, level)
  PROVE  g = h
<1>1. g \in Nat /\ h \in Nat /\ g < NumPages /\ h < NumPages
  BY Sizes DEF Pages
<1>2. NumEntries \in Nat \ {0}
  BY Sizes
<1>3. \A level \in 0 .. 4 :
        /\ Upper(g, level) \in Nat /\ Upper(h, level) \in Nat
        /\ Upper(g, level) % NumEntries = Upper(h, level) % NumEntries
  <2> TAKE level \in 0 .. 4
  <2>1. Upper(g, level) \in Nat /\ PageIndex(g, level) = Upper(g, level) % NumEntries
    BY <1>1, IndexIsDigit
  <2>2. Upper(h, level) \in Nat /\ PageIndex(h, level) = Upper(h, level) % NumEntries
    BY <1>1, IndexIsDigit
  <2>3. PageIndex(g, level) = PageIndex(h, level)
    OBVIOUS
  <2> QED
    BY <2>1, <2>2, <2>3
<1>4. Upper(g, 4) = Upper(h, 4)
  <2>1. \A x \in Nat : x < NumEntries => x % NumEntries = x
    BY <1>2
  <2> QED
    BY <1>1, <1>3, <2>1, UpperSteps
<1>5. ASSUME NEW level \in 0 .. 3, Upper(g, level + 1) = Upper(h, level + 1)
      PROVE  Upper(g, level) = Upper(h, level)
  <2> DEFINE x == Upper(g, level)
             y == Upper(h, level)
  <2>1. x \in Nat /\ y \in Nat /\ x % NumEntries = y % NumEntries
    BY <1>3
  <2>2. x \div NumEntries = y \div NumEntries
    BY <1>1, <1>5, UpperSteps
  <2> HIDE DEF x, y
  <2>3. /\ x = NumEntries * (x \div NumEntries) + (x % NumEntries)
        /\ y = NumEntries * (y \div NumEntries) + (y % NumEntries)
    BY <1>2, <2>1, Division
  <2>4. x = y
    BY <2>1, <2>2, <2>3
  <2> QED
    BY <2>4 DEF x, y
<1>6. Upper(g, 3) = Upper(h, 3)
  BY <1>4, <1>5
<1>7. Upper(g, 2) = Upper(h, 2)
  BY <1>5, <1>6
<1>8. Upper(g, 1) = Upper(h, 1)
  BY <1>5, <1>7
<1>9. Upper(g, 0) = Upper(h, 0)
  BY <1>5, <1>8
<1> QED
  BY <1>1, <1>9, UpperSteps

\* The pages from the start of a space on are numbered from 0, modulo the
\* number of pages.
LEMMA PagesOfSpace ==
  ASSUME NEW s, NEW i \in Nat
  PROVE  PageAt(s, i) \in Pages /\ (i \in Pages => PageAt(s, i) = i)
<1>1. PageSize \in Nat \ {0} /\ NumPages \in Nat \ {0}
  BY Sizes
<1> DEFINE c == IF s = Kernel THEN 127 ELSE 0
<1>2. c \in Nat /\ StartOf(s) = (c * NumPages) * PageSize
  <2>1. 127 * (PageSize * NumPages) = (127 * NumPages) * PageSize
    BY <1>1
  <2> QED
    BY <1>1, <2>1 DEF StartOf
<1> HIDE DEF c
<1>3. (StartOf(s) + i * PageSize) \div PageSize = NumPages * c + i
  <2> DEFINE m == NumPages * c
  <2>1. m \in Nat /\ StartOf(s) = m * PageSize
    BY <1>1, <1>2
  <2> HIDE DEF m
  <2>2. StartOf(s) + i * PageSize = PageSize * (m + i) + 0
    <3>1. m * PageSize + i * PageSize = PageSize * (m + i)
      BY <1>1, <2>1
    <3>2. PageSize * (m + i) \in Nat
      BY <1>1, <2>1
    <3> QED
      BY <2>1, <3>1, <3>2
  <2>3. m + i \in Nat /\ 0 \in 0 .. PageSize - 1
    BY <1>1, <2>1
  <2>4. (PageSize * (m + i) + 0) \div PageSize = m + i
    BY <1>1, <2>3, DivisionIsUnique
  <2> QED
    BY <2>2, <2>4 DEF m
<1>4. PageAt(s, i) = (NumPages * c + i) % NumPages
  BY <1>3 DEF PageAt, PGN
<1>5. NumPages * c + i \in Nat
  BY <1>1, <1>2
<1>6. PageAt(s, i) \in Pages
  BY <1>1, <1>4, <1>5, Division DEF Pages
<1>7. ASSUME i \in Pages PROVE PageAt(s, i) = i
  BY <1>1, <1>2, <1>4, <1>7, DivisionIsUnique DEF Pages
<1> QED
  BY <1>6, <1>7

-----------------------------------------------------------------------------
(* Induction on bounded naturals.                                             *)

\* Every set of natural numbers that is not empty has a least element.
LEMMA LeastNatural ==
  ASSUME NEW T, T \subseteq Nat, T # {}
  PROVE  \E x \in T : \A y \in T : x <= y
<1>1. PICK x \in T : \A y \in T : <<y, x>> \notin OpToRel(<, Nat)
  BY WFMin, NatLessThanWellFounded
<1>2. \A y \in T : ~(y < x)
  BY <1>1 DEF OpToRel
<1> QED
  BY <1>2

\* A set that has 0, and n with n - 1, has everything.
LEMMA UpTo ==
  ASSUME NEW n \in Nat, NEW A, 0 \in A,
         \A i \in 1 .. n : i - 1 \in A => i \in A
  PROVE  \A i \in 0 .. n : i \in A
<1> DEFINE B == {i \in 0 .. n : i \notin A}
<1>1. SUFFICES ASSUME B # {} PROVE FALSE
  OBVIOUS
<1>2. B \subseteq Nat
  OBVIOUS
<1>3. PICK k \in B : \A j \in B : k <= j
  BY <1>1, <1>2, LeastNatural
<1>4. k \in 1 .. n /\ k - 1 \notin B
  BY <1>2, <1>3
<1>5. k - 1 \in A
  BY <1>4
<1> QED
  BY <1>3, <1>4, <1>5

-----------------------------------------------------------------------------
(* The numbers in the fields of a word.                                       *)

LEMMA WeightDoubles ==
  /\ Weight(0) = 1 /\ Weight(13) = 2^13 /\ Weight(21) = 2^21
  /\ \A b \in 0 .. 20 : Weight(b + 1) = 2 * Weight(b)
  /\ \A b \in 0 .. 21 : Weight(b) \in Nat \ {0}
<1>1. Weight(0) = 1 /\ Weight(13) = 2^13 /\ Weight(21) = 2^21
  BY DEF Weight
<1>2. \A b \in 0 .. 20 : Weight(b + 1) = 2 * Weight(b)
  BY DEF Weight
<1>3. \A b \in 0 .. 21 : Weight(b) \in Nat \ {0}
  BY DEF Weight
<1> QED
  BY <1>1, <1>2, <1>3

\* A further bit of a number.
LEMMA NextBit ==
  ASSUME NEW n \in Nat, NEW m \in Nat \ {0}
  PROVE  n % (2 * m) = (n % m) + (IF (n \div m) % 2 = 1 THEN m ELSE 0)
<1> DEFINE q == n \div m
           r == n % m
           h == q \div 2
           b == q % 2
<1>1. q \in Nat /\ r \in 0 .. m - 1 /\ n = m * q + r
  BY Division
<1> HIDE DEF q, r
<1>2. h \in Nat /\ b \in 0 .. 1 /\ q = 2 * h + b
  BY <1>1, Division
<1> HIDE DEF h, b
<1>3. n = (2 * m) * h + (m * b + r)
  <2>1. m * q = m * (2 * h) + m * b
    BY <1>2
  <2>2. m * (2 * h) = (2 * m) * h
    BY <1>2
  <2> QED
    BY <1>1, <1>2, <2>1, <2>2
<1>4. m * b = IF b = 1 THEN m ELSE 0
  <2>1. b = 0 \/ b = 1
    BY <1>2
  <2> QED
    BY <2>1
<1>5. m * b + r \in 0 .. 2 * m - 1 /\ 2 * m \in Nat \ {0}
  BY <1>1, <1>2, <1>4
<1>6. n % (2 * m) = m * b + r
  BY <1>2, <1>3, <1>5, DivisionIsUnique
<1> QED
  BY <1>1, <1>4, <1>6 DEF q, r, b

LowStep(F, w, k) ==
  IF k = 0 THEN 0
  ELSE IF k - 1 \in w THEN F[k - 1] + Weight(k - 1) ELSE F[k - 1]

CountsBits(F, w, m) == F = [k \in 0 .. m |-> LowStep(F, w, k)]

\* The sum that Number makes exists.
LEMMA LowExists ==
  ASSUME NEW w
  PROVE  \E F : CountsBits(F, w, 21)
<1> DEFINE A == {m \in 0 .. 21 : \E F : CountsBits(F, w, m)}
<1>1. 0 \in A
  <2> DEFINE F == [k \in 0 .. 0 |-> 0]
  <2>1. CountsBits(F, w, 0)
    BY DEF CountsBits, LowStep
  <2> QED
    BY <2>1
<1>2. ASSUME NEW m \in 1 .. 21, m - 1 \in A PROVE m \in A
  <2>1. PICK G : CountsBits(G, w, m - 1)
    BY <1>2
  <2> DEFINE F == [k \in 0 .. m |-> IF k = m THEN LowStep(G, w, m) ELSE G[k]]
  <2>2. LowStep(F, w, m) = LowStep(G, w, m)
    BY DEF LowStep
  <2>3. ASSUME NEW k \in 0 .. m - 1 PROVE F[k] = LowStep(F, w, k)
    <3>1. G[k] = LowStep(G, w, k)
      BY <2>1 DEF CountsBits
    <3>2. F[k] = G[k]
      OBVIOUS
    <3>3. k # 0 => F[k - 1] = G[k - 1]
      OBVIOUS
    <3> QED
      BY <3>1, <3>2, <3>3 DEF LowStep
  <2>4. \A k \in 0 .. m : F[k] = LowStep(F, w, k)
    BY <2>2, <2>3
  <2>5. CountsBits(F, w, m)
    BY <2>4 DEF CountsBits
  <2> QED
    BY <2>5
<1> HIDE DEF A
<1>3. 21 \in A
  BY <1>1, <1>2, UpTo
<1> QED
  BY <1>3 DEF A

\* The low bits of a number make the number modulo a power of 2.
LEMMA NumberOfBits ==
  ASSUME NEW n \in Nat, NEW m \in 0 .. 21, NEW w,
         \A b \in 0 .. 20 : b \in w <=> b < m /\ (n \div Weight(b)) % 2 = 1
  PROVE  Number(w) = n % Weight(m)
<1> DEFINE F == CHOOSE G : CountsBits(G, w, 21)
           Top(k) == IF k < m THEN k ELSE m
           A == {k \in 0 .. 21 : F[k] = n % Weight(Top(k))}
<1>1. CountsBits(F, w, 21)
  BY LowExists
<1>2. Number(w) = F[21]
  BY DEF Number, CountsBits, LowStep
<1> HIDE DEF F
<1>3. F[0] = 0 /\ \A k \in 1 .. 21 : F[k] = LowStep(F, w, k)
  BY <1>1 DEF CountsBits, LowStep
<1>4. 0 \in A
  <2>1. Top(0) = 0 /\ n % 1 = 0
    OBVIOUS
  <2> QED
    BY <1>3, <2>1, WeightDoubles
<1>5. ASSUME NEW k \in 1 .. 21, k - 1 \in A PROVE k \in A
  <2>1. CASE m < k
    <3>1. k - 1 \notin w /\ Top(k) = m /\ Top(k - 1) = m
      BY <2>1
    <3> QED
      BY <1>3, <1>5, <3>1 DEF LowStep
  <2>2. CASE k <= m
    <3>1. /\ Top(k) = k /\ Top(k - 1) = k - 1 /\ k - 1 \in 0 .. 20
          /\ k - 1 \in w <=> (n \div Weight(k - 1)) % 2 = 1
      BY <2>2
    <3>2. Weight(k) = 2 * Weight(k - 1) /\ Weight(k - 1) \in Nat \ {0}
      <4>1. k = (k - 1) + 1 /\ k - 1 \in 0 .. 21
        BY <3>1
      <4> QED
        BY <3>1, <4>1, WeightDoubles
    <3>3. n % Weight(k) = (n % Weight(k - 1))
                          + (IF (n \div Weight(k - 1)) % 2 = 1 THEN Weight(k - 1) ELSE 0)
      BY <3>2, NextBit
    <3>4. F[k - 1] = n % Weight(k - 1)
      BY <1>5, <3>1
    <3>5. n % Weight(k - 1) \in Nat
      <4>1. PICK c \in Nat \ {0} : c = Weight(k - 1)
        BY <3>2
      <4>2. n % c \in 0 .. c - 1
        BY Division
      <4>3. n % c \in Nat
        BY <4>2
      <4> QED
        BY <4>1, <4>3
    <3>6. F[k] = n % Weight(k)
      BY <1>3, <3>1, <3>2, <3>3, <3>4, <3>5 DEF LowStep
    <3> QED
      BY <3>1, <3>6
  <2> QED
    BY <2>1, <2>2
<1> HIDE DEF A
<1>6. 21 \in A
  BY <1>4, <1>5, UpTo
<1> QED
  BY <1>2, <1>6 DEF A

-----------------------------------------------------------------------------
(* The words that the setters make, and what they mean.                       *)

\* A number whose bits are in the frame field is read back modulo 2^13.
LEMMA FrameField ==
  ASSUME NEW w \in Word, NEW f \in Nat, \A b \in 0 .. 12 : b \in w <=> b \in Bits(f)
  PROVE  Fpn(w) = f % 2^13
<1> DEFINE v == GETVAL(w, FPN, 0)
<1>1. v = w \cap 0 .. 12
  <2>1. \A b \in w \cap 0 .. 12 : b - 0 = b
    OBVIOUS
  <2>2. v = {b - 0 : b \in w \cap 0 .. 12}
    BY DEF GETVAL, FPN, GENMASK
  <2> QED
    BY <2>1, <2>2
<1> HIDE DEF v
<1>2. \A b \in 0 .. 20 : b \in v <=> b < 13 /\ (f \div Weight(b)) % 2 = 1
  <2> TAKE b \in 0 .. 20
  <2>1. b \in v <=> b \in w /\ b \in 0 .. 12
    BY <1>1
  <2>2. b \in Bits(f) <=> (f \div Weight(b)) % 2 = 1
    BY DEF Bits
  <2>3. b \in 0 .. 12 <=> b < 13
    OBVIOUS
  <2> QED
    BY <2>1, <2>2, <2>3
<1>3. Number(v) = f % Weight(13)
  BY <1>2, NumberOfBits
<1> QED
  BY <1>3, WeightDoubles DEF Fpn, v

\* A number below 2^21 whose bits are in the swap offset is read back as it is.
LEMMA SlotField ==
  ASSUME NEW w \in Word, NEW s \in 0 .. 2^21 - 1,
         \A b \in 5 .. 25 : b \in w <=> b - 5 \in Bits(s)
  PROVE  Swpoff(w) = s
<1> DEFINE v == GETVAL(w, SWPOFF, 5)
<1>1. v = {b - 5 : b \in w \cap 5 .. 25}
  BY DEF GETVAL, SWPOFF, GENMASK
<1> HIDE DEF v
<1>2. \A b \in 0 .. 20 : b \in v <=> b < 21 /\ (s \div Weight(b)) % 2 = 1
  <2> TAKE b \in 0 .. 20
  <2>1. b + 5 \in 5 .. 25 /\ (b + 5) - 5 = b
    OBVIOUS
  <2>2. b \in v <=> b + 5 \in w
    <3>1. ASSUME b \in v PROVE b + 5 \in w
      <4>1. PICK c \in w \cap 5 .. 25 : b = c - 5
        BY <1>1, <3>1
      <4>2. c = b + 5
        BY <4>1
      <4> QED
        BY <4>1, <4>2
    <3>2. ASSUME b + 5 \in w PROVE b \in v
      BY <1>1, <2>1, <3>2
    <3> QED
      BY <3>1, <3>2
  <2>3. b + 5 \in w <=> b \in Bits(s)
    BY <2>1
  <2>4. b \in Bits(s) <=> (s \div Weight(b)) % 2 = 1
    BY DEF Bits
  <2> QED
    BY <2>2, <2>3, <2>4
<1>3. Number(v) = s % Weight(21)
  BY <1>2, NumberOfBits
<1>4. s % 2^21 = s
  OBVIOUS
<1> QED
  BY <1>3, <1>4, WeightDoubles DEF Swpoff, v

\* pte_set_fpn, bit by bit.
LEMMA FrameWord ==
  ASSUME NEW w \in Word, NEW f \in Nat
  PROVE  /\ MapFrame(w, f) \in Word
         /\ 31 \in MapFrame(w, f) /\ 30 \notin MapFrame(w, f)
         /\ 28 \in MapFrame(w, f) <=> 28 \in w
         /\ \A b \in 0 .. 12 : b \in MapFrame(w, f) <=> b \in Bits(f)
<1> DEFINE x == Bits(f)
<1>1. x \subseteq 0 .. 20
  BY DEF Bits
<1>2. Shifted(x, 0) = x
  <2>1. \A b \in x : b + 0 = b
    BY <1>1
  <2> QED
    BY <2>1 DEF Shifted
<1> HIDE DEF x
<1>3. MapFrame(w, f) = ((((((w \cup {31}) \cap 0 .. 31) \ {30}) \cap 0 .. 31) \ 0 .. 12)
                        \cup (x \cap 0 .. 12))
  BY <1>2 DEF MapFrame, SETVAL, CLRBIT, SETBIT, PRESENT, SWAPPED, FPN, GENMASK, x
<1> DEFINE u == MapFrame(w, f)
<1>4. \A b : b \in u <=> \/ b \in x /\ b \in 0 .. 12
                        \/ /\ b \in w \/ b = 31
                           /\ b \in 0 .. 31 /\ b # 30 /\ b \notin 0 .. 12
  BY <1>3
<1> HIDE DEF u
<1>5. u \in Word
  BY <1>1, <1>4 DEF Word
<1>6. 31 \in u /\ 30 \notin u /\ (28 \in u <=> 28 \in w)
  BY <1>4
<1>7. \A b \in 0 .. 12 : b \in u <=> b \in x
  BY <1>4
<1> QED
  BY <1>5, <1>6, <1>7 DEF u, x

\* pte_set_swap, bit by bit.
LEMMA SlotWord ==
  ASSUME NEW w \in Word, NEW s \in 0 .. 2^21 - 1
  PROVE  /\ MapSlot(w, s) \in Word
         /\ 31 \notin MapSlot(w, s) /\ 30 \in MapSlot(w, s)
         /\ 28 \in MapSlot(w, s) <=> 28 \in w
         /\ \A b \in 5 .. 25 : b \in MapSlot(w, s) <=> b - 5 \in Bits(s)
<1> DEFINE x == Bits(s)
           y == Shifted(Bits(ActiveSwap), 0) \cap 0 .. 4
           z == Shifted(x, 5) \cap 5 .. 25
           v == ((w \cap 0 .. 31) \ {31}) \cup {30}
           u == MapSlot(w, s)
<1>1. u = ((((((v \cap 0 .. 31) \ 0 .. 4) \cup y) \cap 0 .. 31) \ 5 .. 25) \cup z)
  BY DEF MapSlot, SETVAL, CLRBIT, SETBIT, PRESENT, SWAPPED, SWPTYP, SWPOFF, GENMASK
<1>2. x \subseteq 0 .. 20 /\ y \subseteq 0 .. 4
  BY DEF Bits
<1>3. \A b \in 5 .. 25 : b \in z <=> b - 5 \in x
  <2> TAKE b \in 5 .. 25
  <2> HIDE DEF x
  <2>1. b \in z <=> \E c \in x : b = c + 5
    BY DEF Shifted
  <2>2. (\E c \in x : b = c + 5) <=> b - 5 \in x
    <3>1. \A c \in x : b = c + 5 => c = b - 5
      BY <1>2
    <3>2. b = (b - 5) + 5
      OBVIOUS
    <3> QED
      BY <3>1, <3>2
  <2> QED
    BY <2>1, <2>2
<1>4. z \subseteq 5 .. 25
  OBVIOUS
<1> HIDE DEF x, y, z, u
<1>5. \A b : b \in u <=> \/ b \in z
                        \/ /\ b \in 0 .. 31 /\ b \notin 5 .. 25
                           /\ \/ b \in y
                              \/ /\ b \notin 0 .. 4
                                 /\ b = 30 \/ (b \in w /\ b # 31)
  BY <1>1
<1>6. u \in Word
  <2>1. \A b \in z : b \in 0 .. 31
    BY <1>4
  <2>2. \A b \in u : b \in z \/ b \in 0 .. 31
    BY <1>5, Zenon
  <2> QED
    BY <2>1, <2>2 DEF Word
<1>7. 31 \notin u /\ 30 \in u /\ (28 \in u <=> 28 \in w)
  BY <1>2, <1>4, <1>5
<1>8. \A b \in 5 .. 25 : b \in u <=> b - 5 \in x
  BY <1>3, <1>5
<1> QED
  BY <1>6, <1>7, <1>8 DEF u, x

\* The flags of a word.
LEMMA Flags ==
  ASSUME NEW w \in Word
  PROVE  /\ Present(w) <=> 31 \in w
         /\ Swapped(w) <=> 30 \in w
         /\ w \cap DIRTY # {} <=> 28 \in w
         /\ SETBIT(w, DIRTY) \in Word
         /\ \A b : b \in SETBIT(w, DIRTY) <=> b \in w \/ b = 28
         /\ CLRBIT(w, DIRTY) \in Word
         /\ \A b : b \in CLRBIT(w, DIRTY) <=> b \in w /\ b # 28
<1>1. (Present(w) <=> 31 \in w) /\ (Swapped(w) <=> 30 \in w)
      /\ (w \cap DIRTY # {} <=> 28 \in w)
  BY DEF Present, Swapped, PRESENT, SWAPPED, DIRTY
<1>2. SETBIT(w, DIRTY) = w \cup {28} /\ CLRBIT(w, DIRTY) = (w \cap 0 .. 31) \ {28}
  BY DEF SETBIT, CLRBIT, DIRTY
<1>3. \A b \in w : b \in 0 .. 31
  BY DEF Word
<1>4. \A b : b \in SETBIT(w, DIRTY) <=> b \in w \/ b = 28
  BY <1>2
<1>5. \A b : b \in CLRBIT(w, DIRTY) <=> b \in w /\ b # 28
  BY <1>2, <1>3
<1>6. \A b \in SETBIT(w, DIRTY) : b \in 0 .. 31
  BY <1>3, <1>4
<1>7. \A b \in CLRBIT(w, DIRTY) : b \in 0 .. 31
  BY <1>3, <1>5
<1>8. SETBIT(w, DIRTY) \in Word /\ CLRBIT(w, DIRTY) \in Word
  BY <1>6, <1>7 DEF Word
<1> QED
  BY <1>1, <1>4, <1>5, <1>8

LEMMA MeaningOf ==
  ASSUME NEW w \in Word, NEW dirty \in BOOLEAN, dirty <=> 28 \in w
  PROVE  /\ 31 \in w => Meaning[w] = [st |-> "ram", dirty |-> dirty, loc |-> Fpn(w)]
         /\ 31 \notin w /\ 30 \in w =>
              Meaning[w] = [st |-> "swap", dirty |-> dirty, loc |-> Swpoff(w)]
         /\ 31 \notin w /\ 30 \notin w =>
              Meaning[w] = [st |-> "none", dirty |-> dirty, loc |-> 0]
<1>1. Meaning[w] =
        [st    |-> IF Present(w) THEN "ram" ELSE IF Swapped(w) THEN "swap" ELSE "none",
         dirty |-> w \cap DIRTY # {},
         loc   |-> IF Present(w) THEN Fpn(w) ELSE IF Swapped(w) THEN Swpoff(w) ELSE 0]
  BY DEF Meaning
<1>2. (w \cap DIRTY # {}) = dirty
  BY Flags
<1>3. (Present(w) <=> 31 \in w) /\ (Swapped(w) <=> 30 \in w)
  BY Flags
<1> QED
  BY <1>1, <1>2, <1>3, Zenon

LEMMA EmptyWord == {} \in Word /\ Meaning[{}] = PM!EmptyEntry
<1>1. {} \in Word
  BY DEF Word
<1>2. Meaning[{}] = [st |-> "none", dirty |-> FALSE, loc |-> 0]
  BY <1>1, MeaningOf
<1> QED
  BY <1>1, <1>2 DEF PM!EmptyEntry

LEMMA PinnedWord ==
  ASSUME NEW f \in Nat
  PROVE  Meaning[MapFrame({}, f)] = PM!Pinned(f)
<1>1. {} \in Word
  BY EmptyWord
<1> DEFINE w == MapFrame({}, f)
<1>2. w \in Word /\ 31 \in w /\ 28 \notin w /\ Fpn(w) = f % 2^13
  BY <1>1, FrameWord, FrameField
<1> HIDE DEF w
<1>3. Meaning[w] = [st |-> "ram", dirty |-> FALSE, loc |-> f % 2^13]
  BY <1>2, MeaningOf
<1> QED
  BY <1>3 DEF w, PM!Pinned

LEMMA LoadedWord ==
  ASSUME NEW w \in Word, NEW f \in Nat, ~Present(w)
  PROVE  LET new == MapFrame(w, f)
             v   == IF Swapped(w) THEN SETBIT(new, DIRTY) ELSE CLRBIT(new, DIRTY)
         IN  v \in Word /\ Meaning[v] = PM!Loaded(Meaning[w], f)
<1> DEFINE new == MapFrame(w, f)
           v   == IF Swapped(w) THEN SETBIT(new, DIRTY) ELSE CLRBIT(new, DIRTY)
<1>1. new \in Word /\ 31 \in new
      /\ \A b \in 0 .. 12 : b \in new <=> b \in Bits(f)
  BY FrameWord
<1> HIDE DEF new
<1>2. v \in Word /\ (28 \in v <=> 30 \in w) /\ \A b : b # 28 => (b \in v <=> b \in new)
  BY <1>1, Flags
<1> HIDE DEF v
<1>3. 31 \in v /\ Fpn(v) = f % 2^13
  <2>1. \A b \in 0 .. 12 : b \in v <=> b \in Bits(f)
    <3> TAKE b \in 0 .. 12
    <3>1. b # 28
      OBVIOUS
    <3> QED
      BY <1>1, <1>2, <3>1
  <2>2. 31 \in v
    BY <1>1, <1>2
  <2> QED
    BY <1>2, <2>1, <2>2, FrameField
<1>4. PICK back \in BOOLEAN : back <=> 30 \in w
  OBVIOUS
<1>5. PICK dirty \in BOOLEAN : dirty <=> 28 \in w
  OBVIOUS
<1>6. Meaning[v] = [st |-> "ram", dirty |-> back, loc |-> f % 2^13]
  BY <1>2, <1>3, <1>4, MeaningOf
<1>7. 31 \notin w
  BY Flags
<1>8. (Meaning[w].st = "swap") <=> back
  <2>1. CASE 30 \in w
    <3>1. Meaning[w] = [st |-> "swap", dirty |-> dirty, loc |-> Swpoff(w)]
      BY <1>7, <1>5, <2>1, MeaningOf
    <3> QED
      BY <1>4, <2>1, <3>1
  <2>2. CASE 30 \notin w
    <3>1. Meaning[w] = [st |-> "none", dirty |-> dirty, loc |-> 0]
      BY <1>7, <1>5, <2>2, MeaningOf
    <3> QED
      BY <1>4, <2>2, <3>1
  <2> QED
    BY <2>1, <2>2
<1>9. PM!Loaded(Meaning[w], f) = [st |-> "ram", dirty |-> back, loc |-> f % 2^13]
  <2>1. PM!InSwap(Meaning[w]) = back
    BY <1>8 DEF PM!InSwap
  <2> QED
    BY <2>1 DEF PM!Loaded
<1> QED
  BY <1>2, <1>6, <1>9 DEF v, new

LEMMA SwappedWord ==
  ASSUME NEW w \in Word, NEW s \in 0 .. 2^21 - 1
  PROVE  MapSlot(w, s) \in Word /\ Meaning[MapSlot(w, s)] = PM!SetSwap(Meaning[w], s)
<1> DEFINE v == MapSlot(w, s)
<1>1. v \in Word /\ 31 \notin v /\ 30 \in v /\ (28 \in v <=> 28 \in w) /\ Swpoff(v) = s
  BY SlotWord, SlotField
<1> HIDE DEF v
<1>2. PICK dirty \in BOOLEAN : dirty <=> 28 \in w
  OBVIOUS
<1>3. Meaning[v] = [st |-> "swap", dirty |-> dirty, loc |-> s]
  BY <1>1, <1>2, MeaningOf
<1>4. Meaning[w].dirty = dirty
  <2>1. \E st, loc : Meaning[w] = [st |-> st, dirty |-> dirty, loc |-> loc]
    BY <1>2, MeaningOf
  <2> QED
    BY <2>1
<1> QED
  BY <1>1, <1>3, <1>4 DEF v, PM!SetSwap

LEMMA DirtyWord ==
  ASSUME NEW w \in Word, Present(w)
  PROVE  /\ SETBIT(w, DIRTY) \in Word
         /\ Meaning[SETBIT(w, DIRTY)] = PM!Touched(Meaning[w])
<1> DEFINE v == SETBIT(w, DIRTY)
<1>1. v \in Word /\ 31 \in w /\ 31 \in v /\ 28 \in v
      /\ GETVAL(v, FPN, 0) = GETVAL(w, FPN, 0)
  <2>1. v \in Word /\ 31 \in w /\ 31 \in v /\ 28 \in v
    BY Flags
  <2>2. v \cap FPN = w \cap FPN
    BY DEF SETBIT, DIRTY, FPN, GENMASK
  <2> QED
    BY <2>1, <2>2 DEF GETVAL
<1> HIDE DEF v
<1>2. Meaning[v] = [st |-> "ram", dirty |-> TRUE, loc |-> Fpn(w)]
  BY <1>1, MeaningOf DEF Fpn
<1>3. Meaning[w].st = "ram" /\ Meaning[w].loc = Fpn(w)
  <2>1. PICK dirty \in BOOLEAN : dirty <=> 28 \in w
    OBVIOUS
  <2>2. Meaning[w] = [st |-> "ram", dirty |-> dirty, loc |-> Fpn(w)]
    BY <1>1, <2>1, MeaningOf
  <2> QED
    BY <2>2
<1> QED
  BY <1>1, <1>2, <1>3 DEF v, PM!Touched

-----------------------------------------------------------------------------
(* The tree.  A level function gives the spaces' roots level 4, every other   *)
(* directory one level less than the entry it hangs from, and 0 to those that *)
(* hold words; it is what keeps words and pointers apart.                     *)

DirsOf(t)  == 0 .. t.next - 1
NodesOf(t) == Spaces \cup DirsOf(t)

Tree(t, L) ==
  /\ t.next \in Nat
  /\ L \in [NodesOf(t) -> 0 .. 4] /\ \A s \in Spaces : L[s] = 4
  /\ DOMAIN t.dir \subseteq NodesOf(t) \X Indexes
  /\ DOMAIN t.word \subseteq DirsOf(t) \X Indexes
  /\ \A at \in DOMAIN t.dir : t.dir[at] \in DirsOf(t)
  /\ \A at \in DOMAIN t.word : t.word[at] \in Word
  /\ \A d \in NodesOf(t), i \in Indexes :
       Below(t, d, i) # NULL => L[d] = L[Below(t, d, i)] + 1
  /\ \A d, e \in NodesOf(t), i, j \in Indexes :
       Below(t, d, i) # NULL /\ Below(t, d, i) = Below(t, e, j) => d = e /\ i = j
  /\ \A c \in DirsOf(t) :
       \E d \in Spaces \cup 0 .. c - 1, i \in Indexes : Below(t, d, i) = c
  /\ \A d \in DirsOf(t), i \in Indexes : <<d, i>> \in DOMAIN t.word => L[d] = 0

WellFormed(t) == \E L : Tree(t, L)

\* Tables u have everything that tables t have, and no other word.
Grown(t, L, u, M) ==
  /\ t.next <= u.next
  /\ \A c \in NodesOf(t) : M[c] = L[c]
  /\ \A c \in NodesOf(t), i \in Indexes :
       Below(t, c, i) # NULL => Below(u, c, i) = Below(t, c, i)
  /\ u.word = t.word

LEMMA Names ==
  /\ NULL \notin Spaces /\ NULL \notin Nat
  /\ \A t : t.next \in Nat => /\ DirsOf(t) \subseteq Nat /\ NULL \notin NodesOf(t)
                             /\ Spaces \cap DirsOf(t) = {}
                             /\ t.next \notin NodesOf(t)
<1>1. NULL \notin Spaces /\ NULL \notin Nat /\ \A s \in Spaces : s \notin Nat
  BY PageTableAssumption
<1>2. ASSUME NEW t, t.next \in Nat
      PROVE  /\ DirsOf(t) \subseteq Nat /\ NULL \notin NodesOf(t)
             /\ Spaces \cap DirsOf(t) = {}
             /\ t.next \notin NodesOf(t)
  <2>1. DirsOf(t) \subseteq Nat /\ t.next \notin DirsOf(t)
    BY <1>2 DEF DirsOf
  <2> QED
    BY <1>1, <1>2, <2>1 DEF NodesOf
<1> QED
  BY <1>1, <1>2

\* What is below a node, and below nothing there is nothing.
LEMMA BelowIs ==
  ASSUME NEW t, NEW L, Tree(t, L), NEW d, NEW i
  PROVE  /\ Below(t, d, i) \in DirsOf(t) \cup {NULL}
         /\ d \notin NodesOf(t) => Below(t, d, i) = NULL
         /\ Below(t, d, i) # NULL => d \in NodesOf(t) /\ i \in Indexes
         /\ Below(t, d, i) # NULL <=> <<d, i>> \in DOMAIN t.dir
<1>1. /\ DOMAIN t.dir \subseteq NodesOf(t) \X Indexes
      /\ \A at \in DOMAIN t.dir : t.dir[at] \in DirsOf(t)
      /\ t.next \in Nat
  BY DEF Tree
<1>2. NULL \notin DirsOf(t)
  BY <1>1, Names DEF NodesOf
<1>3. CASE <<d, i>> \in DOMAIN t.dir
  <2>1. Below(t, d, i) = t.dir[<<d, i>>] /\ t.dir[<<d, i>>] \in DirsOf(t)
    BY <1>1, <1>3 DEF Below
  <2>2. d \in NodesOf(t) /\ i \in Indexes
    BY <1>1, <1>3
  <2> QED
    BY <1>2, <1>3, <2>1, <2>2
<1>4. CASE <<d, i>> \notin DOMAIN t.dir
  BY <1>4 DEF Below
<1> QED
  BY <1>3, <1>4

LEMMA EnsureGrows ==
  ASSUME NEW t, NEW L, Tree(t, L), NEW d \in NodesOf(t), NEW i \in Indexes, L[d] > 0
  PROVE  \E M : LET u == Ensure(t, d, i) IN
                  /\ Tree(u, M) /\ Grown(t, L, u, M)
                  /\ Below(u, d, i) \in DirsOf(u)
                  /\ M[Below(u, d, i)] = L[d] - 1
<1>0. t.next \in Nat /\ L \in [NodesOf(t) -> 0 .. 4]
  BY DEF Tree
<1>1. CASE <<d, i>> \in DOMAIN t.dir
  <2>1. Ensure(t, d, i) = t
    BY <1>1 DEF Ensure
  <2>2. Below(t, d, i) # NULL /\ Below(t, d, i) \in DirsOf(t)
    BY <1>1, BelowIs
  <2>3. L[d] = L[Below(t, d, i)] + 1
    BY <2>2 DEF Tree
  <2>4. L[Below(t, d, i)] \in 0 .. 4 /\ L[d] \in 0 .. 4
    BY <1>0, <2>2 DEF NodesOf
  <2>5. L[Below(t, d, i)] = L[d] - 1
    BY <2>3, <2>4
  <2>6. Grown(t, L, t, L)
    BY <1>0 DEF Grown
  <2> QED
    BY <2>1, <2>2, <2>5, <2>6
<1>2. CASE <<d, i>> \notin DOMAIN t.dir
  <2> DEFINE c == t.next
             u == Ensure(t, d, i)
             M == [x \in NodesOf(u) |-> IF x = c THEN L[d] - 1 ELSE L[x]]
  <2>1. u = [dir |-> Put(t.dir, <<d, i>>, c), word |-> t.word, next |-> c + 1]
    BY <1>2 DEF Ensure
  <2>2. /\ u.next = c + 1 /\ u.word = t.word
        /\ DOMAIN u.dir = DOMAIN t.dir \cup {<<d, i>>}
        /\ u.dir[<<d, i>>] = c
        /\ \A x \in DOMAIN t.dir : u.dir[x] = t.dir[x]
    BY <1>2, <2>1 DEF Put
  <2>3. DirsOf(u) = DirsOf(t) \cup {c} /\ NodesOf(u) = NodesOf(t) \cup {c}
    BY <1>0, <2>2 DEF DirsOf, NodesOf
  <2>4. c \notin NodesOf(t) /\ c # NULL /\ c \in Nat /\ d # c
    BY <1>0, Names
  <2>5. \A e, j : Below(u, e, j) = IF e = d /\ j = i THEN c ELSE Below(t, e, j)
    BY <2>2 DEF Below
  <2>6. Below(t, d, i) = NULL
    BY <1>2 DEF Below
  <2> HIDE DEF u
  <2>7. M \in [NodesOf(u) -> 0 .. 4] /\ \A s \in Spaces : M[s] = 4
    <3>1. \A x \in NodesOf(t) : L[x] \in 0 .. 4
      BY <1>0
    <3>2. L[d] - 1 \in 0 .. 4
      BY <3>1
    <3>3. \A s \in Spaces : s \in NodesOf(t) /\ L[s] = 4
      BY DEF Tree, NodesOf
    <3> QED
      BY <2>3, <2>4, <3>1, <3>2, <3>3
  <2>8. /\ DOMAIN u.dir \subseteq NodesOf(u) \X Indexes
        /\ DOMAIN u.word \subseteq DirsOf(u) \X Indexes
        /\ \A at \in DOMAIN u.dir : u.dir[at] \in DirsOf(u)
        /\ \A at \in DOMAIN u.word : u.word[at] \in Word
    BY <2>2, <2>3 DEF Tree
  <2>9. ASSUME NEW e \in NodesOf(u), NEW j \in Indexes, Below(u, e, j) # NULL
        PROVE  M[e] = M[Below(u, e, j)] + 1
    <3>1. CASE e = d /\ j = i
      <4>1. M[c] = L[d] - 1 /\ M[d] = L[d] /\ L[d] \in 0 .. 4
        BY <1>0, <2>3, <2>4
      <4> QED
        BY <2>5, <3>1, <4>1
    <3>2. CASE ~(e = d /\ j = i)
      <4> DEFINE b == Below(t, e, j)
      <4>1. Below(u, e, j) = b /\ b # NULL
        BY <2>5, <2>9, <3>2
      <4>2. b \in DirsOf(t) /\ e \in NodesOf(t)
        BY <4>1, BelowIs
      <4>3. L[e] = L[b] + 1
        BY <4>1, <4>2 DEF Tree
      <4>4. b \in NodesOf(t)
        BY <4>2 DEF NodesOf
      <4> HIDE DEF b
      <4>5. M[e] = L[e] /\ M[b] = L[b]
        BY <2>3, <2>4, <4>2, <4>4
      <4> QED
        BY <4>1, <4>3, <4>5
    <3> QED
      BY <3>1, <3>2
  <2>10. ASSUME NEW e \in NodesOf(u), NEW x \in NodesOf(u),
                NEW j \in Indexes, NEW k \in Indexes,
                Below(u, e, j) # NULL, Below(u, e, j) = Below(u, x, k)
         PROVE  e = x /\ j = k
    <3>1. \A y, l : Below(t, y, l) # c
      BY <1>0, <2>4, BelowIs DEF NodesOf
    <3>2. CASE Below(u, e, j) = c
      <4>1. \A y \in NodesOf(u), l \in Indexes :
              Below(u, y, l) = c => y = d /\ l = i
        BY <2>5, <3>1
      <4>2. Below(u, x, k) = c
        BY <2>10, <3>2
      <4>3. e = d /\ j = i
        BY <3>2, <4>1
      <4>4. x = d /\ k = i
        BY <4>1, <4>2
      <4> QED
        BY <4>3, <4>4
    <3>3. CASE Below(u, e, j) # c
      <4>1. Below(t, e, j) # NULL /\ Below(t, e, j) = Below(t, x, k)
        BY <2>5, <2>10, <3>3
      <4>2. e \in NodesOf(t) /\ x \in NodesOf(t)
        BY <4>1, BelowIs
      <4> QED
        BY <4>1, <4>2 DEF Tree
    <3> QED
      BY <3>2, <3>3
  <2>11. ASSUME NEW x \in DirsOf(u)
         PROVE  \E e \in Spaces \cup 0 .. x - 1, j \in Indexes : Below(u, e, j) = x
    <3>1. CASE x = c
      <4>1. d \in Spaces \cup 0 .. c - 1
        BY DEF NodesOf, DirsOf
      <4>2. Below(u, d, i) = c
        BY <2>5
      <4> QED
        BY <3>1, <4>1, <4>2
    <3>2. CASE x \in DirsOf(t)
      <4>1. PICK e \in Spaces \cup 0 .. x - 1, j \in Indexes : Below(t, e, j) = x
        BY <3>2 DEF Tree
      <4>2. x # NULL
        BY <1>0, <3>2, Names DEF NodesOf
      <4>3. Below(u, e, j) = x
        BY <2>5, <2>6, <4>1, <4>2
      <4> QED
        BY <4>1, <4>3
    <3> QED
      BY <2>3, <3>1, <3>2
  <2>12. ASSUME NEW e \in DirsOf(u), NEW j \in Indexes, <<e, j>> \in DOMAIN u.word
         PROVE  M[e] = 0
    <3>1. e \in DirsOf(t) /\ L[e] = 0
      BY <2>2, <2>12 DEF Tree
    <3>2. e \in NodesOf(t)
      BY <3>1 DEF NodesOf
    <3> QED
      BY <2>3, <2>4, <3>1, <3>2
  <2>13. u.next \in Nat
    BY <2>2, <2>4
  <2> HIDE DEF M
  <2>14. Tree(u, M)
    BY <2>7, <2>8, <2>9, <2>10, <2>11, <2>12, <2>13 DEF Tree
  <2>15. Grown(t, L, u, M)
    <3>1. t.next <= u.next
      BY <1>0, <2>2
    <3>2. \A x \in NodesOf(t) : M[x] = L[x]
      BY <2>3, <2>4 DEF M
    <3>3. \A e \in NodesOf(t), j \in Indexes :
            Below(t, e, j) # NULL => Below(u, e, j) = Below(t, e, j)
      BY <2>5, <2>6
    <3> QED
      BY <2>2, <3>1, <3>2, <3>3 DEF Grown
  <2>16. Below(u, d, i) \in DirsOf(u) /\ M[Below(u, d, i)] = L[d] - 1
    BY <2>3, <2>5 DEF M
  <2> QED
    BY <2>14, <2>15, <2>16 DEF u
<1> QED
  BY <1>1, <1>2

LEMMA GrownTransitive ==
  ASSUME NEW t, NEW K, NEW u, NEW L, NEW v, NEW M,
         Tree(t, K), Tree(u, L), Tree(v, M), Grown(t, K, u, L), Grown(u, L, v, M)
  PROVE  Grown(t, K, v, M)
<1>1. t.next \in Nat /\ u.next \in Nat /\ v.next \in Nat /\ t.next <= u.next
      /\ u.next <= v.next
  BY DEF Tree, Grown
<1>2. NodesOf(t) \subseteq NodesOf(u) /\ t.next <= v.next
  BY <1>1 DEF NodesOf, DirsOf
<1>3. \A c \in NodesOf(t) : M[c] = K[c]
  BY <1>2 DEF Grown
<1>4. \A c \in NodesOf(t), i \in Indexes :
        Below(t, c, i) # NULL => Below(v, c, i) = Below(t, c, i)
  BY <1>2 DEF Grown
<1>5. v.word = t.word
  BY DEF Grown
<1> QED
  BY <1>2, <1>3, <1>4, <1>5 DEF Grown

\* A directory that was there hangs where it did.
LEMMA GrownBack ==
  ASSUME NEW t, NEW L, NEW u, NEW M, Tree(t, L), Tree(u, M), Grown(t, L, u, M),
         NEW d, NEW i, Below(u, d, i) \in DirsOf(t)
  PROVE  d \in NodesOf(t) /\ Below(t, d, i) = Below(u, d, i)
<1> DEFINE c == Below(u, d, i)
<1>1. t.next \in Nat /\ u.next \in Nat /\ t.next <= u.next
  BY DEF Tree, Grown
<1>2. c # NULL
  BY <1>1, Names DEF NodesOf
<1>3. PICK e \in Spaces \cup 0 .. c - 1, j \in Indexes : Below(t, e, j) = c
  BY DEF Tree
<1>4. e \in NodesOf(t)
  BY <1>2, <1>3, BelowIs
<1>5. Below(u, e, j) = c
  BY <1>2, <1>3, <1>4 DEF Grown
<1>6. d \in NodesOf(u) /\ i \in Indexes /\ e \in NodesOf(u)
  BY <1>2, <1>5, BelowIs
<1>7. d = e /\ i = j
  BY <1>2, <1>5, <1>6 DEF Tree
<1> QED
  BY <1>3, <1>4, <1>7

-----------------------------------------------------------------------------
(* The walks.                                                                 *)

LEMMA PagesAreNumbers == Pages \subseteq Nat
  BY Sizes DEF Pages

LEMMA PageIndexes ==
  ASSUME NEW g \in Nat
  PROVE  \A level \in 0 .. 4 : PageIndex(g, level) \in Indexes
  BY IndexIsDigit

\* alloc_pte_ptr makes a path to a directory of words and leaves the rest.
LEMMA PathGrows ==
  ASSUME NEW t, NEW L, Tree(t, L), NEW s \in Spaces, NEW g \in Nat
  PROVE  \E M : LET u == AllocPath(t, s, g) IN
                  /\ Tree(u, M) /\ Grown(t, L, u, M)
                  /\ Leaf(u, s, g) \in DirsOf(u)
<1> DEFINE t4  == Ensure(t, s, PageIndex(g, 4))
           p4d == Below(t4, s, PageIndex(g, 4))
           t3  == Ensure(t4, p4d, PageIndex(g, 3))
           pud == Below(t3, p4d, PageIndex(g, 3))
           t2  == Ensure(t3, pud, PageIndex(g, 2))
           pmd == Below(t2, pud, PageIndex(g, 2))
           t1  == Ensure(t2, pmd, PageIndex(g, 1))
           pt  == Below(t1, pmd, PageIndex(g, 1))
<1>1. /\ PageIndex(g, 4) \in Indexes /\ PageIndex(g, 3) \in Indexes
      /\ PageIndex(g, 2) \in Indexes /\ PageIndex(g, 1) \in Indexes
  BY PageIndexes
<1>2. AllocPath(t, s, g) = t1
  BY DEF AllocPath
<1>3. s \in NodesOf(t) /\ L[s] = 4
  BY DEF Tree, NodesOf
<1>4. PICK L4 : /\ Tree(t4, L4) /\ Grown(t, L, t4, L4)
                /\ p4d \in DirsOf(t4) /\ L4[p4d] = 3
  <2>1. L[s] > 0 /\ L[s] - 1 = 3
    BY <1>3
  <2>2. \E M : /\ Tree(t4, M) /\ Grown(t, L, t4, M)
               /\ p4d \in DirsOf(t4) /\ M[p4d] = L[s] - 1
    BY <1>1, <1>3, <2>1, EnsureGrows
  <2> QED
    BY <2>1, <2>2
<1> HIDE DEF t4, p4d
<1>5. PICK L3 : /\ Tree(t3, L3) /\ Grown(t4, L4, t3, L3)
                /\ pud \in DirsOf(t3) /\ L3[pud] = 2
  <2>1. L4[p4d] > 0 /\ L4[p4d] - 1 = 2 /\ p4d \in NodesOf(t4)
    BY <1>4 DEF NodesOf
  <2>2. \E M : /\ Tree(t3, M) /\ Grown(t4, L4, t3, M)
               /\ pud \in DirsOf(t3) /\ M[pud] = L4[p4d] - 1
    BY <1>1, <1>4, <2>1, EnsureGrows
  <2> QED
    BY <2>1, <2>2
<1> HIDE DEF t3, pud
<1>6. PICK L2 : /\ Tree(t2, L2) /\ Grown(t3, L3, t2, L2)
                /\ pmd \in DirsOf(t2) /\ L2[pmd] = 1
  <2>1. L3[pud] > 0 /\ L3[pud] - 1 = 1 /\ pud \in NodesOf(t3)
    BY <1>5 DEF NodesOf
  <2>2. \E M : /\ Tree(t2, M) /\ Grown(t3, L3, t2, M)
               /\ pmd \in DirsOf(t2) /\ M[pmd] = L3[pud] - 1
    BY <1>1, <1>5, <2>1, EnsureGrows
  <2> QED
    BY <2>1, <2>2
<1> HIDE DEF t2, pmd
<1>7. PICK L1 : Tree(t1, L1) /\ Grown(t2, L2, t1, L1) /\ pt \in DirsOf(t1)
  <2>1. L2[pmd] > 0 /\ pmd \in NodesOf(t2)
    BY <1>6 DEF NodesOf
  <2>2. \E M : /\ Tree(t1, M) /\ Grown(t2, L2, t1, M)
               /\ pt \in DirsOf(t1) /\ M[pt] = L2[pmd] - 1
    BY <1>1, <1>6, <2>1, EnsureGrows
  <2> QED
    BY <2>2
<1> HIDE DEF t1, pt
<1>8. Grown(t3, L3, t1, L1)
  BY <1>5, <1>6, <1>7, GrownTransitive
<1>9. Grown(t4, L4, t1, L1)
  BY <1>4, <1>5, <1>7, <1>8, GrownTransitive
<1>10. Grown(t, L, t1, L1)
  BY <1>4, <1>7, <1>9, GrownTransitive
<1>11. Leaf(t1, s, g) = pt
  <2>1. /\ p4d # NULL /\ pud # NULL /\ pmd # NULL
        /\ s \in NodesOf(t4) /\ p4d \in NodesOf(t3) /\ pud \in NodesOf(t2)
    <3>1. \A u : u.next \in Nat => NULL \notin DirsOf(u)
      BY Names DEF NodesOf
    <3>2. t4.next \in Nat /\ t3.next \in Nat /\ t2.next \in Nat
      BY <1>4, <1>5, <1>6 DEF Tree
    <3>3. p4d \in DirsOf(t3) /\ pud \in DirsOf(t2)
      <4>1. t4.next <= t3.next /\ t3.next <= t2.next
        BY <1>5, <1>6 DEF Grown
      <4> QED
        BY <1>4, <1>5, <3>2, <4>1 DEF DirsOf
    <3> QED
      BY <1>4, <1>5, <1>6, <3>1, <3>2, <3>3 DEF NodesOf
  <2>2. Below(t1, s, PageIndex(g, 4)) = p4d
    BY <1>1, <1>9, <2>1 DEF Grown, p4d
  <2>3. Below(t1, p4d, PageIndex(g, 3)) = pud
    BY <1>1, <1>8, <2>1 DEF Grown, pud
  <2>4. Below(t1, pud, PageIndex(g, 2)) = pmd
    BY <1>1, <1>7, <2>1 DEF Grown, pmd
  <2>5. Below(t1, pmd, PageIndex(g, 1)) = pt
    BY DEF pt
  <2> QED
    BY <2>2, <2>3, <2>4, <2>5 DEF Leaf
<1> QED
  BY <1>2, <1>7, <1>10, <1>11

\* The nodes on the way to a leaf.
LEMMA WayDown ==
  ASSUME NEW t, NEW L, Tree(t, L), NEW s \in Spaces, NEW g \in Nat,
         Leaf(t, s, g) # NULL
  PROVE  \E a, b, c :
           /\ a = Below(t, s, PageIndex(g, 4)) /\ b = Below(t, a, PageIndex(g, 3))
           /\ c = Below(t, b, PageIndex(g, 2))
           /\ Leaf(t, s, g) = Below(t, c, PageIndex(g, 1))
           /\ {a, b, c, Leaf(t, s, g)} \subseteq DirsOf(t)
           /\ L[Leaf(t, s, g)] = 0
<1> DEFINE a == Below(t, s, PageIndex(g, 4))
           b == Below(t, a, PageIndex(g, 3))
           c == Below(t, b, PageIndex(g, 2))
           d == Below(t, c, PageIndex(g, 1))
<1>1. Leaf(t, s, g) = d
  BY DEF Leaf
<1>2. d # NULL /\ t.next \in Nat
  BY <1>1 DEF Tree
<1>3. NULL \notin NodesOf(t)
  BY <1>2, Names
<1> HIDE DEF a, b, c, d
<1>4. c \in NodesOf(t) /\ d \in DirsOf(t)
  BY <1>2, BelowIs DEF d
<1>5. b \in NodesOf(t) /\ c \in DirsOf(t)
  BY <1>3, <1>4, BelowIs DEF c
<1>6. a \in NodesOf(t) /\ b \in DirsOf(t)
  BY <1>3, <1>5, BelowIs DEF b
<1>7. s \in NodesOf(t) /\ a \in DirsOf(t)
  BY <1>3, <1>6, BelowIs DEF a
<1>8. L[d] = 0
  <2>1. /\ PageIndex(g, 4) \in Indexes /\ PageIndex(g, 3) \in Indexes
        /\ PageIndex(g, 2) \in Indexes /\ PageIndex(g, 1) \in Indexes
    BY PageIndexes
  <2>2. a # NULL /\ b # NULL /\ c # NULL
    BY <1>3, <1>4, <1>5, <1>6
  <2>3. L[s] = 4 /\ L[s] = L[a] + 1
    BY <1>7, <2>1, <2>2 DEF Tree, a
  <2>4. L[a] = L[b] + 1
    BY <1>6, <2>1, <2>2 DEF Tree, b
  <2>5. L[b] = L[c] + 1
    BY <1>5, <2>1, <2>2 DEF Tree, c
  <2>6. L[c] = L[d] + 1
    BY <1>2, <1>4, <2>1 DEF Tree, d
  <2>7. L[a] \in 0 .. 4 /\ L[b] \in 0 .. 4 /\ L[c] \in 0 .. 4 /\ L[d] \in 0 .. 4
    <3>1. d \in NodesOf(t)
      BY <1>4 DEF NodesOf
    <3> QED
      BY <1>4, <1>5, <1>6, <3>1 DEF Tree
  <2> QED
    BY <2>3, <2>4, <2>5, <2>6, <2>7
<1> QED
  BY <1>1, <1>4, <1>5, <1>6, <1>7, <1>8 DEF a, b, c, d

\* Where a walk ends: at a directory of words, or nowhere.
LEMMA LeafIs ==
  ASSUME NEW t, NEW L, Tree(t, L), NEW s \in Spaces, NEW g \in Nat
  PROVE  Leaf(t, s, g) # NULL => Leaf(t, s, g) \in DirsOf(t) /\ L[Leaf(t, s, g)] = 0
  BY WayDown

\* No two pages share the place of a word.
LEMMA PlacesDiffer ==
  ASSUME NEW t, NEW L, Tree(t, L),
         NEW s \in Spaces, NEW g \in Pages, NEW r \in Spaces, NEW h \in Pages,
         Leaf(t, s, g) # NULL, Leaf(t, s, g) = Leaf(t, r, h),
         PageIndex(g, 0) = PageIndex(h, 0)
  PROVE  s = r /\ g = h
<1> DEFINE d == Leaf(t, s, g)
<1>0. g \in Nat /\ h \in Nat
  BY PagesAreNumbers
<1>1. PICK a, b, c :
           /\ a = Below(t, s, PageIndex(g, 4)) /\ b = Below(t, a, PageIndex(g, 3))
           /\ c = Below(t, b, PageIndex(g, 2)) /\ d = Below(t, c, PageIndex(g, 1))
           /\ {a, b, c, d} \subseteq DirsOf(t)
  BY <1>0, WayDown
<1>2. PICK x, y, z :
           /\ x = Below(t, r, PageIndex(h, 4)) /\ y = Below(t, x, PageIndex(h, 3))
           /\ z = Below(t, y, PageIndex(h, 2)) /\ d = Below(t, z, PageIndex(h, 1))
           /\ {x, y, z} \subseteq DirsOf(t)
  BY <1>0, WayDown
<1> HIDE DEF d
<1>3. \A level \in 0 .. 4 :
        PageIndex(g, level) \in Indexes /\ PageIndex(h, level) \in Indexes
  BY <1>0, PageIndexes
<1>4. t.next \in Nat /\ NULL \notin DirsOf(t) /\ DirsOf(t) \subseteq NodesOf(t)
      /\ Spaces \subseteq NodesOf(t)
  BY Names DEF Tree, NodesOf
<1>5. ASSUME NEW e \in NodesOf(t), NEW f \in NodesOf(t),
             NEW i \in Indexes, NEW j \in Indexes,
             NEW k \in DirsOf(t), k = Below(t, e, i), k = Below(t, f, j)
      PROVE  e = f /\ i = j
  <2>1. Below(t, e, i) # NULL /\ Below(t, e, i) = Below(t, f, j)
    BY <1>4, <1>5
  <2> QED
    BY <2>1 DEF Tree
<1>6. c = z /\ PageIndex(g, 1) = PageIndex(h, 1)
  BY <1>1, <1>2, <1>3, <1>4, <1>5
<1>7. b = y /\ PageIndex(g, 2) = PageIndex(h, 2)
  BY <1>1, <1>2, <1>3, <1>4, <1>5, <1>6
<1>8. a = x /\ PageIndex(g, 3) = PageIndex(h, 3)
  BY <1>1, <1>2, <1>3, <1>4, <1>5, <1>7
<1>9. s = r /\ PageIndex(g, 4) = PageIndex(h, 4)
  BY <1>1, <1>2, <1>3, <1>4, <1>5, <1>8
<1>10. \A level \in 0 .. 4 : PageIndex(g, level) = PageIndex(h, level)
  <2> TAKE level \in 0 .. 4
  <2>1. level \in {0, 1, 2, 3, 4}
    OBVIOUS
  <2> QED
    BY <2>1, <1>6, <1>7, <1>8, <1>9
<1> QED
  BY <1>9, <1>10, IndexesTellPages

\* Making paths changes no entry.
LEMMA GrownKeepsEntries ==
  ASSUME NEW t, NEW L, NEW u, NEW M, Tree(t, L), Tree(u, M), Grown(t, L, u, M),
         NEW r \in Spaces, NEW h \in Nat
  PROVE  GetEntry(u, r, h) = GetEntry(t, r, h)
<1>1. t.next \in Nat /\ u.next \in Nat /\ t.next <= u.next /\ u.word = t.word
      /\ DOMAIN t.word \subseteq DirsOf(t) \X Indexes
  BY DEF Tree, Grown
<1>2. NULL \notin DirsOf(t) /\ Spaces \subseteq NodesOf(t)
      /\ DirsOf(t) \subseteq NodesOf(t)
  BY <1>1, Names DEF NodesOf
<1>3. \A level \in 0 .. 4 : PageIndex(h, level) \in Indexes
  BY PageIndexes
<1> DEFINE i == PageIndex(h, 0)
           d == Leaf(t, r, h)
           e == Leaf(u, r, h)
<1>4. CASE d # NULL
  <2>1. PICK a, b, c :
           /\ a = Below(t, r, PageIndex(h, 4)) /\ b = Below(t, a, PageIndex(h, 3))
           /\ c = Below(t, b, PageIndex(h, 2)) /\ d = Below(t, c, PageIndex(h, 1))
           /\ {a, b, c, d} \subseteq DirsOf(t)
    BY <1>4, WayDown
  <2>2. \A x \in NodesOf(t), j \in Indexes :
          Below(t, x, j) # NULL => Below(u, x, j) = Below(t, x, j)
    BY DEF Grown
  <2>3. a = Below(u, r, PageIndex(h, 4))
    BY <1>2, <1>3, <2>1, <2>2
  <2>4. b = Below(u, a, PageIndex(h, 3))
    BY <1>2, <1>3, <2>1, <2>2
  <2>5. c = Below(u, b, PageIndex(h, 2))
    BY <1>2, <1>3, <2>1, <2>2
  <2>6. d = Below(u, c, PageIndex(h, 1))
    <3> HIDE DEF d
    <3> QED
      BY <1>2, <1>3, <2>1, <2>2
  <2>7. e = d
    <3> HIDE DEF d
    <3> QED
      BY <2>3, <2>4, <2>5, <2>6 DEF Leaf
  <2> QED
    BY <1>1, <2>7 DEF GetEntry
<1>5. CASE d = NULL
  <2>1. <<d, i>> \notin DOMAIN t.word
    BY <1>1, <1>2, <1>5
  <2>2. SUFFICES ASSUME <<e, i>> \in DOMAIN u.word PROVE FALSE
    BY <2>1 DEF GetEntry
  <2>3. e \in DirsOf(t)
    BY <1>1, <2>2
  <2>4. PICK a, b, c :
           /\ a = Below(u, r, PageIndex(h, 4)) /\ b = Below(u, a, PageIndex(h, 3))
           /\ c = Below(u, b, PageIndex(h, 2)) /\ e = Below(u, c, PageIndex(h, 1))
    BY DEF Leaf
  <2> HIDE DEF e
  <2>5. c \in NodesOf(t) /\ Below(t, c, PageIndex(h, 1)) = e
    BY <2>3, <2>4, GrownBack
  <2>6. \A x, j : Below(u, x, j) \notin Spaces
    <3>1. NULL \notin Spaces /\ Spaces \cap DirsOf(u) = {}
      BY <1>1, Names
    <3> QED
      BY <3>1, BelowIs
  <2>7. b \in NodesOf(t) /\ Below(t, b, PageIndex(h, 2)) = c
    <3>1. c \in DirsOf(t)
      BY <2>4, <2>5, <2>6 DEF NodesOf
    <3> QED
      BY <2>4, <3>1, GrownBack
  <2>8. a \in NodesOf(t) /\ Below(t, a, PageIndex(h, 3)) = b
    <3>1. b \in DirsOf(t)
      BY <2>4, <2>6, <2>7 DEF NodesOf
    <3> QED
      BY <2>4, <3>1, GrownBack
  <2>9. Below(t, r, PageIndex(h, 4)) = a
    <3>1. a \in DirsOf(t)
      BY <2>4, <2>6, <2>8 DEF NodesOf
    <3> QED
      BY <2>4, <3>1, GrownBack
  <2>10. d = e
    BY <2>5, <2>7, <2>8, <2>9 DEF Leaf
  <2> QED
    BY <1>2, <1>5, <2>3, <2>10
<1> QED
  BY <1>4, <1>5

LEMMA EntryIsWord ==
  ASSUME NEW t, WellFormed(t), NEW s, NEW g
  PROVE  GetEntry(t, s, g) \in Word
<1>1. PICK L : Tree(t, L)
  BY DEF WellFormed
<1> QED
  BY <1>1, EmptyWord DEF Tree, GetEntry

\* pte_set_entry writes one entry, when there is a path to it, and no other.
LEMMA SetEntryWrites ==
  ASSUME NEW t, WellFormed(t), NEW s \in Spaces, NEW g \in Nat, NEW w \in Word,
         Leaf(t, s, g) # NULL
  PROVE  /\ WellFormed(SetEntry(t, s, g, w))
         /\ GetEntry(SetEntry(t, s, g, w), s, g) = w
         /\ g \in Pages =>
              \A r \in Spaces, h \in Pages : GetEntry(SetEntry(t, s, g, w), r, h) =
                IF r = s /\ h = g THEN w ELSE GetEntry(t, r, h)
<1>1. PICK L : Tree(t, L)
  BY DEF WellFormed
<1> DEFINE d == Leaf(t, s, g)
           i == PageIndex(g, 0)
           u == SetEntry(t, s, g, w)
<1>2. u = [dir |-> t.dir, word |-> Put(t.word, <<d, i>>, w), next |-> t.next]
  BY DEF SetEntry
<1>3. /\ u.dir = t.dir /\ u.next = t.next
      /\ DOMAIN u.word = DOMAIN t.word \cup {<<d, i>>} /\ u.word[<<d, i>>] = w
      /\ \A at \in DOMAIN t.word : at # <<d, i>> => u.word[at] = t.word[at]
  BY <1>2 DEF Put
<1>4. /\ \A x, j : Below(u, x, j) = Below(t, x, j)
      /\ \A r, h : Leaf(u, r, h) = Leaf(t, r, h)
      /\ DirsOf(u) = DirsOf(t) /\ NodesOf(u) = NodesOf(t)
  <2>1. \A x, j : Below(u, x, j) = Below(t, x, j)
    BY <1>3 DEF Below
  <2>2. \A q, h : Leaf(u, q, h) = Leaf(t, q, h)
    <3> HIDE DEF u
    <3> QED
      BY <2>1 DEF Leaf
  <2> QED
    BY <1>3, <2>1, <2>2 DEF DirsOf, NodesOf
<1>5. d \in DirsOf(t) /\ L[d] = 0 /\ i \in Indexes
  <2>1. i \in Indexes
    <3>1. 0 \in 0 .. 4
      OBVIOUS
    <3> QED
      BY <3>1, PageIndexes
  <2> QED
    BY <1>1, <2>1, LeafIs
<1> HIDE DEF u, d, i
<1>6. Tree(u, L)
  <2>1. DOMAIN u.word \subseteq DirsOf(u) \X Indexes
    BY <1>1, <1>3, <1>4, <1>5 DEF Tree
  <2>2. \A at \in DOMAIN u.word : u.word[at] \in Word
    BY <1>1, <1>3 DEF Tree
  <2>3. ASSUME NEW x \in DirsOf(u), NEW j \in Indexes, <<x, j>> \in DOMAIN u.word
        PROVE  L[x] = 0
    BY <1>1, <1>3, <1>4, <1>5, <2>3 DEF Tree
  <2>4. /\ u.next \in Nat
        /\ L \in [NodesOf(u) -> 0 .. 4] /\ \A r \in Spaces : L[r] = 4
        /\ DOMAIN u.dir \subseteq NodesOf(u) \X Indexes
        /\ \A at \in DOMAIN u.dir : u.dir[at] \in DirsOf(u)
    BY <1>1, <1>3, <1>4 DEF Tree
  <2>5. \A x \in NodesOf(u), j \in Indexes :
          Below(u, x, j) # NULL => L[x] = L[Below(u, x, j)] + 1
    BY <1>1, <1>4 DEF Tree
  <2>6. \A x, y \in NodesOf(u), j, k \in Indexes :
          Below(u, x, j) # NULL /\ Below(u, x, j) = Below(u, y, k) => x = y /\ j = k
    BY <1>1, <1>4 DEF Tree
  <2>7. \A c \in DirsOf(u) :
          \E x \in Spaces \cup 0 .. c - 1, j \in Indexes : Below(u, x, j) = c
    BY <1>1, <1>4 DEF Tree
  <2> QED
    BY <2>1, <2>2, <2>3, <2>4, <2>5, <2>6, <2>7 DEF Tree
<1>7. GetEntry(u, s, g) = w
  <2>1. Leaf(u, s, g) = d /\ PageIndex(g, 0) = i
    BY <1>4 DEF d, i
  <2> QED
    BY <1>3, <2>1 DEF GetEntry
<1>8. ASSUME g \in Pages, NEW r \in Spaces, NEW h \in Pages
      PROVE  GetEntry(u, r, h) = IF r = s /\ h = g THEN w ELSE GetEntry(t, r, h)
  <2> DEFINE e == Leaf(t, r, h)
             j == PageIndex(h, 0)
  <2>1. Leaf(u, r, h) = e
    BY <1>4
  <2>2. CASE r = s /\ h = g
    BY <1>7, <2>2
  <2>3. CASE ~(r = s /\ h = g)
    <3>1. ~(e = d /\ j = i)
      BY <1>1, <1>8, <2>3, PlacesDiffer DEF d, i
    <3>2. <<e, j>> # <<d, i>>
      BY <3>1
    <3> HIDE DEF e, j
    <3>3. <<e, j>> \in DOMAIN u.word <=> <<e, j>> \in DOMAIN t.word
      BY <1>3, <3>2
    <3>4. <<e, j>> \in DOMAIN t.word => u.word[<<e, j>>] = t.word[<<e, j>>]
      BY <1>3, <3>2
    <3>5. GetEntry(u, r, h) = IF <<e, j>> \in DOMAIN u.word THEN u.word[<<e, j>>] ELSE {}
      BY <2>1 DEF GetEntry, j
    <3>6. GetEntry(t, r, h) = IF <<e, j>> \in DOMAIN t.word THEN t.word[<<e, j>>] ELSE {}
      BY DEF GetEntry, e, j
    <3> QED
      BY <2>3, <3>3, <3>4, <3>5, <3>6
  <2> QED
    BY <2>2, <2>3
<1>9. WellFormed(u)
  BY <1>6 DEF WellFormed
<1> QED
  BY <1>7, <1>8, <1>9 DEF u

\* An entry that is not 0 has a path to it.
LEMMA EntryHasPath ==
  ASSUME NEW t, WellFormed(t), NEW s \in Spaces, NEW g \in Nat,
         GetEntry(t, s, g) # {}
  PROVE  Leaf(t, s, g) # NULL
<1>1. PICK L : Tree(t, L)
  BY DEF WellFormed
<1>2. NULL \notin DirsOf(t)
  BY <1>1, Names DEF Tree, NodesOf
<1>3. <<Leaf(t, s, g), PageIndex(g, 0)>> \in DOMAIN t.word
  BY DEF GetEntry
<1> QED
  BY <1>1, <1>2, <1>3 DEF Tree

\* The setters: whatever paths were there, one entry changes and no other.
LEMMA StoreWordWrites ==
  ASSUME NEW t, WellFormed(t), NEW s \in Spaces, NEW g \in Nat, NEW w \in Word
  PROVE  /\ WellFormed(StoreWord(t, s, g, w))
         /\ GetEntry(StoreWord(t, s, g, w), s, g) = w
         /\ g \in Pages =>
              \A r \in Spaces, h \in Pages : GetEntry(StoreWord(t, s, g, w), r, h) =
                IF r = s /\ h = g THEN w ELSE GetEntry(t, r, h)
<1>1. PICK L : Tree(t, L)
  BY DEF WellFormed
<1> DEFINE u == AllocPath(t, s, g)
<1>2. PICK M : Tree(u, M) /\ Grown(t, L, u, M) /\ Leaf(u, s, g) \in DirsOf(u)
  BY <1>1, PathGrows
<1> HIDE DEF u
<1>3. Leaf(u, s, g) # NULL
  BY <1>2, Names DEF Tree, NodesOf
<1>4. WellFormed(u)
  BY <1>2 DEF WellFormed
<1> DEFINE v == SetEntry(u, s, g, w)
<1>5. /\ WellFormed(v) /\ GetEntry(v, s, g) = w
      /\ g \in Pages =>
           \A r \in Spaces, h \in Pages :
             GetEntry(v, r, h) = IF r = s /\ h = g THEN w ELSE GetEntry(u, r, h)
  BY <1>3, <1>4, SetEntryWrites
<1>6. \A r \in Spaces, h \in Pages : GetEntry(u, r, h) = GetEntry(t, r, h)
  BY <1>1, <1>2, PagesAreNumbers, GrownKeepsEntries
<1>7. StoreWord(t, s, g, w) = v
  BY DEF StoreWord, u
<1> HIDE DEF v
<1> QED
  BY <1>5, <1>6, <1>7

-----------------------------------------------------------------------------
(* The loops over pages, a round at a time.                                   *)

Round(F, s, i, word, k) ==
  IF k = 0 THEN tables
  ELSE LET t == F[k - 1]
           g == PageAt(s, i + k - 1)
       IN  StoreWord(t, s, g, word[k - 1][GetEntry(t, s, g)])

RunsLoop(F, s, i, n, word) == F = [k \in 0 .. n |-> Round(F, s, i, word, k)]

LEMMA LoopExists ==
  ASSUME NEW s, NEW i, NEW n \in Nat, NEW word
  PROVE  \E F : RunsLoop(F, s, i, n, word)
<1> DEFINE A == {m \in 0 .. n : \E F : RunsLoop(F, s, i, m, word)}
<1>1. 0 \in A
  <2> DEFINE F == [k \in 0 .. 0 |-> tables]
  <2>1. F = [k \in 0 .. 0 |-> Round(F, s, i, word, k)]
    BY DEF Round
  <2> QED
    BY <2>1 DEF RunsLoop
<1>2. ASSUME NEW m \in 1 .. n, m - 1 \in A PROVE m \in A
  <2>1. PICK G : RunsLoop(G, s, i, m - 1, word)
    BY <1>2
  <2> DEFINE F == [k \in 0 .. m |-> IF k = m THEN Round(G, s, i, word, m) ELSE G[k]]
  <2>2. Round(F, s, i, word, m) = Round(G, s, i, word, m)
    BY DEF Round
  <2>3. ASSUME NEW k \in 0 .. m - 1 PROVE F[k] = Round(F, s, i, word, k)
    <3>1. G[k] = Round(G, s, i, word, k)
      BY <2>1 DEF RunsLoop
    <3>2. F[k] = G[k]
      OBVIOUS
    <3>3. k # 0 => F[k - 1] = G[k - 1]
      OBVIOUS
    <3> QED
      BY <3>1, <3>2, <3>3 DEF Round
  <2>4. \A k \in 0 .. m : F[k] = Round(F, s, i, word, k)
    BY <2>2, <2>3
  <2>5. RunsLoop(F, s, i, m, word)
    BY <2>4 DEF RunsLoop
  <2> QED
    BY <2>5
<1> HIDE DEF A
<1>3. n \in A
  BY <1>1, <1>2, UpTo
<1> QED
  BY <1>3 DEF A

\* The loops keep the tree, and write the pages they are for.
LEMMA StorePagesWrites ==
  ASSUME WellFormed(tables), NEW s \in Spaces, NEW i \in Nat, NEW n \in Nat, NEW word,
         \A k \in 0 .. n - 1, w \in Word : word[k][w] \in Word
  PROVE  /\ WellFormed(StorePages(s, i, n, word))
         /\ \A r \in Spaces \ {s}, h \in Pages :
              GetEntry(StorePages(s, i, n, word), r, h) = GetEntry(tables, r, h)
         /\ i + n <= NumPages =>
              \A r \in Spaces, h \in Pages : GetEntry(StorePages(s, i, n, word), r, h) =
                IF r = s /\ h \in i .. i + n - 1 THEN word[h - i][GetEntry(tables, s, h)]
                ELSE GetEntry(tables, r, h)
<1> DEFINE F == CHOOSE G : RunsLoop(G, s, i, n, word)
           Written(k) ==
             i + n <= NumPages =>
               \A r \in Spaces, h \in Pages : GetEntry(F[k], r, h) =
                 IF r = s /\ h \in i .. i + k - 1 THEN word[h - i][GetEntry(tables, s, h)]
                 ELSE GetEntry(tables, r, h)
           Others(k) == \A r \in Spaces \ {s}, h \in Pages :
                          GetEntry(F[k], r, h) = GetEntry(tables, r, h)
           A == {k \in 0 .. n : WellFormed(F[k]) /\ Written(k) /\ Others(k)}
<1>1. RunsLoop(F, s, i, n, word)
  BY LoopExists
<1>2. StorePages(s, i, n, word) = F[n]
  BY DEF StorePages, RunsLoop, Round
<1> HIDE DEF F
<1>3. F[0] = tables /\ \A k \in 1 .. n : F[k] = Round(F, s, i, word, k)
  BY <1>1 DEF RunsLoop, Round
<1>4. 0 \in A
  <2>1. \A h : h \notin i .. i + 0 - 1
    OBVIOUS
  <2> QED
    BY <1>3, <2>1
<1>5. ASSUME NEW k \in 1 .. n, k - 1 \in A PROVE k \in A
  <2> DEFINE t == F[k - 1]
             g == PageAt(s, i + k - 1)
             w == word[k - 1][GetEntry(t, s, g)]
             u == StoreWord(t, s, g, w)
  <2>1. F[k] = u
    BY <1>3 DEF Round
  <2>2. WellFormed(t) /\ Written(k - 1) /\ Others(k - 1)
    BY <1>5
  <2>3. i + k - 1 \in Nat /\ k - 1 \in 0 .. n - 1 /\ k - 1 \in 0 .. n
    OBVIOUS
  <2>4. g \in Pages /\ (i + k - 1 \in Pages => g = i + k - 1)
    BY <2>3, PagesOfSpace
  <2> HIDE DEF t, g
  <2>5. w \in Word
    BY <2>2, <2>3, EntryIsWord
  <2> HIDE DEF w
  <2>6. /\ WellFormed(u)
        /\ \A r \in Spaces, h \in Pages :
             GetEntry(u, r, h) = IF r = s /\ h = g THEN w ELSE GetEntry(t, r, h)
    BY <2>2, <2>4, <2>5, PagesAreNumbers, StoreWordWrites
  <2> HIDE DEF u
  <2>7. ASSUME i + n <= NumPages, NEW r \in Spaces, NEW h \in Pages
        PROVE  GetEntry(F[k], r, h) =
                 IF r = s /\ h \in i .. i + k - 1 THEN word[h - i][GetEntry(tables, s, h)]
                 ELSE GetEntry(tables, r, h)
    <3>1. NumPages \in Nat /\ h \in Nat
      BY Sizes DEF Pages
    <3>2. g = i + k - 1
      BY <2>3, <2>4, <2>7, <3>1 DEF Pages
    <3>3. \A x \in Spaces, y \in Pages : GetEntry(t, x, y) =
            IF x = s /\ y \in i .. i + (k - 1) - 1
            THEN word[y - i][GetEntry(tables, s, y)]
            ELSE GetEntry(tables, x, y)
      BY <2>2, <2>7 DEF t
    <3>4. CASE r = s /\ h = g
      <4>1. h \in i .. i + k - 1 /\ h - i = k - 1 /\ h \notin i .. i + (k - 1) - 1
        BY <3>1, <3>2, <3>4
      <4>2. GetEntry(t, s, g) = GetEntry(tables, s, g)
        BY <3>3, <3>4, <4>1
      <4> QED
        BY <2>1, <2>6, <3>4, <4>1, <4>2 DEF w
    <3>5. CASE ~(r = s /\ h = g)
      <4>1. r = s => (h \in i .. i + k - 1 <=> h \in i .. i + (k - 1) - 1)
        BY <3>1, <3>2, <3>5
      <4>2. GetEntry(F[k], r, h) = GetEntry(t, r, h)
        BY <2>1, <2>6, <3>5
      <4> QED
        BY <3>3, <4>1, <4>2
    <3> QED
      BY <3>4, <3>5
  <2>8. Others(k)
    <3>1. \A r \in Spaces \ {s}, h \in Pages : GetEntry(t, r, h) = GetEntry(tables, r, h)
      BY <2>2 DEF t
    <3> QED
      BY <2>1, <2>6, <3>1
  <2> QED
    BY <2>1, <2>6, <2>7, <2>8
<1>6. n \in A
  <2> HIDE DEF A
  <2> QED
    BY <1>4, <1>5, UpTo
<1> QED
  BY <1>2, <1>6

-----------------------------------------------------------------------------
(* The tree is there in every state.                                          *)

LEMMA TreeAtFirst == Init => WellFormed(tables)
<1>1. SUFFICES ASSUME Init PROVE WellFormed(tables)
  OBVIOUS
<1> DEFINE L == [s \in Spaces |-> 4]
<1>2. tables = [dir |-> <<>>, word |-> <<>>, next |-> 0]
  BY <1>1 DEF Init, NoTables
<1>3. /\ tables.next = 0 /\ DOMAIN tables.dir = {} /\ DOMAIN tables.word = {}
  BY <1>2
<1>4. DirsOf(tables) = {} /\ NodesOf(tables) = Spaces
  BY <1>3 DEF DirsOf, NodesOf
<1>5. \A d, i : Below(tables, d, i) = NULL
  BY <1>3 DEF Below
<1>6. L \in [Spaces -> 0 .. 4] /\ \A s \in Spaces : L[s] = 4
  OBVIOUS
<1> HIDE DEF L
<1>7. Tree(tables, L)
  BY <1>3, <1>4, <1>5, <1>6 DEF Tree
<1> QED
  BY <1>7 DEF WellFormed

\* The words the operations write are words.
LEMMA WrittenWords ==
  /\ {} \in Word /\ Deadbeef \in Word
  /\ \A w \in Word, f \in Nat : MapFrame(w, f) \in Word
  /\ \A w \in Word, s \in Slots : MapSlot(w, s) \in Word
<1>1. Deadbeef \in Word
  BY DEF Deadbeef, Word
<1>2. \A s \in Slots : s \in 0 .. 2^21 - 1
  BY PageTableAssumption
<1> QED
  BY <1>1, <1>2, EmptyWord, FrameWord, SwappedWord

\* pg_getpage's changes keep the tree ...
LEMMA FaultInKeepsTree ==
  ASSUME WellFormed(tables), NEW t, WellFormed(t),
         NEW p \in Spaces, NEW g \in Nat, NEW f \in Nat
  PROVE  WellFormed(FaultIn(t, p, g, f))
<1> DEFINE w  == MapFrame(GetEntry(t, p, g), f)
           t1 == StoreWord(t, p, g, w)
           v  == IF Swapped(GetEntry(tables, p, g)) THEN SETBIT(GetEntry(t1, p, g), DIRTY)
                 ELSE CLRBIT(GetEntry(t1, p, g), DIRTY)
<1>1. FaultIn(t, p, g, f) = SetEntry(t1, p, g, v)
  BY DEF FaultIn
<1>2. w \in Word /\ w # {}
  BY EntryIsWord, FrameWord
<1> HIDE DEF w
<1>3. WellFormed(t1) /\ GetEntry(t1, p, g) = w
  BY <1>2, StoreWordWrites
<1> HIDE DEF t1
<1>4. Leaf(t1, p, g) # NULL
  BY <1>2, <1>3, EntryHasPath
<1>5. v \in Word
  BY <1>2, <1>3, Flags
<1> HIDE DEF v
<1> QED
  BY <1>1, <1>3, <1>4, <1>5, SetEntryWrites

\* ... and write one entry.
LEMMA FaultInWrites ==
  ASSUME WellFormed(tables), NEW t, WellFormed(t),
         NEW p \in Spaces, NEW g \in Pages, NEW f \in Nat,
         GetEntry(t, p, g) = GetEntry(tables, p, g)
  PROVE  LET old == GetEntry(tables, p, g)
             new == MapFrame(old, f)
         IN  \A r \in Spaces, h \in Pages : GetEntry(FaultIn(t, p, g, f), r, h) =
               IF r = p /\ h = g
               THEN IF Swapped(old) THEN SETBIT(new, DIRTY) ELSE CLRBIT(new, DIRTY)
               ELSE GetEntry(t, r, h)
<1> DEFINE old == GetEntry(tables, p, g)
           w   == MapFrame(old, f)
           t1  == StoreWord(t, p, g, w)
           v   == IF Swapped(old) THEN SETBIT(w, DIRTY) ELSE CLRBIT(w, DIRTY)
<1>0. g \in Nat
  BY PagesAreNumbers
<1>1. w \in Word /\ w # {}
  BY EntryIsWord, FrameWord
<1> HIDE DEF w
<1>2. /\ WellFormed(t1) /\ GetEntry(t1, p, g) = w
      /\ \A r \in Spaces, h \in Pages :
           GetEntry(t1, r, h) = IF r = p /\ h = g THEN w ELSE GetEntry(t, r, h)
  BY <1>0, <1>1, StoreWordWrites
<1>3. FaultIn(t, p, g, f) = SetEntry(t1, p, g, v)
  BY <1>2 DEF FaultIn, w
<1> HIDE DEF t1
<1>4. Leaf(t1, p, g) # NULL
  BY <1>0, <1>1, <1>2, EntryHasPath
<1>5. v \in Word
  BY <1>1, Flags
<1> HIDE DEF v
<1>6. \A r \in Spaces, h \in Pages : GetEntry(SetEntry(t1, p, g, v), r, h) =
        IF r = p /\ h = g THEN v ELSE GetEntry(t1, r, h)
  BY <1>0, <1>2, <1>4, <1>5, SetEntryWrites
<1>7. \A r \in Spaces, h \in Pages : GetEntry(FaultIn(t, p, g, f), r, h) =
        IF r = p /\ h = g THEN v ELSE GetEntry(t, r, h)
  BY <1>2, <1>3, <1>6
<1> QED
  BY <1>7 DEF v, w

LEMMA NumberIsNatural ==
  ASSUME NEW w
  PROVE  Number(w) \in Nat
<1> DEFINE F == CHOOSE G : CountsBits(G, w, 21)
           A == {k \in 0 .. 21 : F[k] \in Nat}
<1>1. CountsBits(F, w, 21)
  BY LowExists
<1>2. Number(w) = F[21]
  BY DEF Number, CountsBits, LowStep
<1> HIDE DEF F
<1>3. F[0] = 0 /\ \A k \in 1 .. 21 : F[k] = LowStep(F, w, k)
  BY <1>1 DEF CountsBits, LowStep
<1>4. 0 \in A
  BY <1>3
<1>5. ASSUME NEW k \in 1 .. 21, k - 1 \in A PROVE k \in A
  <2>1. F[k - 1] \in Nat /\ Weight(k - 1) \in Nat
    <3>1. k - 1 \in 0 .. 21
      OBVIOUS
    <3> QED
      BY <1>5, <3>1, WeightDoubles
  <2> QED
    BY <1>3, <2>1 DEF LowStep
<1> HIDE DEF A
<1>6. 21 \in A
  BY <1>4, <1>5, UpTo
<1> QED
  BY <1>2, <1>6 DEF A

TreeInv ==
  /\ WellFormed(tables)
  /\ extent \in [Spaces -> 0 .. MaxPages]

\* A space grows by n pages where there is room for them.
LEMMA RoomIsEnough ==
  ASSUME TreeInv, NEW s \in Spaces, NEW n \in Grants, Room(n)
  PROVE  extent[s] + n \in 0 .. MaxPages
<1> DEFINE k == extent[s]
           Own == {s} \X (0 .. k - 1)
<1>1. k \in 0 .. MaxPages /\ n \in Nat /\ MaxPages \in Nat
  BY PageTableAssumption DEF TreeInv
<1>2. IsFiniteSet(Spaces)
  <2>1. IsFiniteSet(Procs)
    BY PageTableAssumption
  <2> QED
    BY <2>1, FS_AddElement DEF Spaces
<1>3. IsFiniteSet(0 .. MaxPages - 1)
  BY <1>1, FS_Interval
<1>4. IsFiniteSet(Spaces \X (0 .. MaxPages - 1))
  BY <1>2, <1>3, FS_Product
<1>5. IsFiniteSet(Mapped)
  <2>1. Mapped \subseteq Spaces \X (0 .. MaxPages - 1)
    BY DEF Mapped
  <2> QED
    BY <1>4, <2>1, FS_Subset
<1>6. Own \subseteq Mapped
  BY <1>1 DEF Mapped
<1>7. Cardinality(Own) = k
  <2>1. IsFiniteSet({s}) /\ Cardinality({s}) = 1
    BY FS_Singleton
  <2> HIDE DEF k
  <2>2. IsFiniteSet(0 .. k - 1) /\ Cardinality(0 .. k - 1) = k
    <3>1. 0 \in Int /\ k - 1 \in Int /\ (0 > k - 1 => k = 0) /\ k - 1 - 0 + 1 = k
      BY <1>1
    <3> QED
      BY <3>1, FS_Interval
  <2> DEFINE T == 0 .. k - 1
             One == {s}
  <2>3. Cardinality(One \X T) = Cardinality(One) * Cardinality(T)
    <3> HIDE DEF T, One
    <3>1. IsFiniteSet(One) /\ IsFiniteSet(T)
      BY <2>1, <2>2 DEF T, One
    <3> QED
      BY <3>1, FS_Product
  <2> QED
    BY <1>1, <2>1, <2>2, <2>3
<1>8. Cardinality(Own) <= Cardinality(Mapped)
  BY <1>5, <1>6, FS_Subset
<1>9. Cardinality(Mapped) \in Nat
  BY <1>5, FS_CardinalityType
<1> HIDE DEF k, Own
<1>10. k + n <= MaxPages
  BY <1>1, <1>7, <1>8, <1>9 DEF Room
<1> QED
  BY <1>1, <1>10 DEF k

LEMMA TreeInvStep == TreeInv /\ [Next]_vars => TreeInv'
<1>1. SUFFICES ASSUME TreeInv, [Next]_vars PROVE TreeInv'
  OBVIOUS
<1>2. WellFormed(tables) /\ extent \in [Spaces -> 0 .. MaxPages]
  BY <1>1 DEF TreeInv
<1>3. /\ MaxPages \in Nat /\ Grants \subseteq Nat /\ Frames \subseteq Nat
      /\ Reserves \subseteq Nat /\ ReservedAt \subseteq Nat
      /\ \A p \in Procs : p \in Spaces
      /\ Kernel \in Spaces
  BY PageTableAssumption, PagesAreNumbers DEF Spaces
<1>4. ASSUME NEW n \in Grants, NEW f \in Frames, KVmMapRam(n, f) PROVE TreeInv'
  <2> DEFINE word == [k \in Nat |-> [w \in Word |-> MapFrame(w, f + k)]]
  <2>1. \A k \in 0 .. n - 1, w \in Word : word[k][w] \in Word
    <3> TAKE k \in 0 .. n - 1, w \in Word
    <3>1. k \in Nat /\ f + k \in Nat
      BY <1>3
    <3> QED
      BY <3>1, WrittenWords
  <2>2. tables' = StorePages(Kernel, extent[Kernel], n, word)
    BY <1>4 DEF KVmMapRam
  <2> HIDE DEF word
  <2>3. extent[Kernel] \in Nat /\ n \in Nat
    BY <1>2, <1>3
  <2>4. WellFormed(StorePages(Kernel, extent[Kernel], n, word))
    BY <1>2, <1>3, <2>1, <2>3, StorePagesWrites
  <2>5. extent' \in [Spaces -> 0 .. MaxPages]
    BY <1>1, <1>2, <1>3, <1>4, RoomIsEnough DEF KVmMapRam
  <2> QED
    BY <2>2, <2>4, <2>5 DEF TreeInv
<1>5. ASSUME NEW p \in Procs, NEW n \in Grants, VmMapRam(p, n) PROVE TreeInv'
  <2> DEFINE word == [k \in Nat |-> [w \in Word |-> {}]]
  <2>1. \A k \in 0 .. n - 1, w \in Word : word[k][w] \in Word
    <3> TAKE k \in 0 .. n - 1, w \in Word
    <3>1. k \in Nat
      BY <1>3
    <3> QED
      BY <3>1, WrittenWords
  <2>2. tables' = StorePages(p, extent[p], n, word)
    BY <1>5 DEF VmMapRam
  <2> HIDE DEF word
  <2>3. extent[p] \in Nat /\ n \in Nat
    BY <1>2, <1>3
  <2>4. WellFormed(StorePages(p, extent[p], n, word))
    BY <1>2, <1>3, <2>1, <2>3, StorePagesWrites
  <2>5. extent' \in [Spaces -> 0 .. MaxPages]
    BY <1>1, <1>2, <1>3, <1>5, RoomIsEnough DEF VmMapRam
  <2> QED
    BY <2>2, <2>4, <2>5 DEF TreeInv
<1>6. ASSUME NEW p \in Procs, NEW g \in ReservedAt, NEW n \in Reserves,
             VmapPgdMemset(p, g, n)
      PROVE  TreeInv'
  <2> DEFINE word == [k \in Nat |-> [w \in Word |-> Deadbeef]]
  <2>1. \A k \in 0 .. n - 1, w \in Word : word[k][w] \in Word
    <3> TAKE k \in 0 .. n - 1, w \in Word
    <3>1. k \in Nat
      BY <1>3
    <3> QED
      BY <3>1, WrittenWords
  <2>2. tables' = StorePages(p, g, n, word) /\ extent' = extent
    BY <1>6 DEF VmapPgdMemset
  <2> HIDE DEF word
  <2>3. WellFormed(StorePages(p, g, n, word))
    BY <1>2, <1>3, <2>1, StorePagesWrites
  <2> QED
    BY <1>2, <2>2, <2>3 DEF TreeInv
<1>7. ASSUME NEW p \in Procs, NEW g \in 0 .. MaxPages - 1, PageDirty(p, g)
      PROVE  TreeInv'
  <2> DEFINE w == GetEntry(tables, p, g)
  <2>1. g \in Nat /\ w \in Word
    BY <1>2, EntryIsWord
  <2>2. /\ Present(w) /\ extent' = extent
        /\ tables' = SetEntry(tables, p, g, SETBIT(w, DIRTY))
    BY <1>7 DEF PageDirty
  <2>3. w # {}
    BY <2>2 DEF Present
  <2>4. Leaf(tables, p, g) # NULL
    BY <1>2, <1>3, <2>1, <2>3, EntryHasPath
  <2> HIDE DEF w
  <2>5. SETBIT(w, DIRTY) \in Word
    BY <2>1, Flags
  <2>6. WellFormed(SetEntry(tables, p, g, SETBIT(w, DIRTY)))
    BY <1>2, <1>3, <2>1, <2>4, <2>5, SetEntryWrites
  <2> QED
    BY <1>2, <2>2, <2>6 DEF TreeInv
<1>8. ASSUME NEW p \in Procs, NEW g \in 0 .. MaxPages - 1, NEW f \in Frames,
             PageFault(p, g, f)
      PROVE  TreeInv'
  <2>1. tables' = FaultIn(tables, p, g, f) /\ extent' = extent
    BY <1>8 DEF PageFault
  <2>2. g \in Nat /\ f \in Nat
    BY <1>3
  <2>3. WellFormed(FaultIn(tables, p, g, f))
    BY <1>2, <1>3, <2>2, FaultInKeepsTree
  <2> QED
    BY <1>2, <2>1, <2>3 DEF TreeInv
<1>9. ASSUME NEW p \in Procs, NEW g \in 0 .. MaxPages - 1, NEW v \in 0 .. MaxPages - 1,
             NEW s \in Slots, PageReplace(p, g, v, s)
      PROVE  TreeInv'
  <2> DEFINE old == GetEntry(tables, p, v)
             w   == MapSlot(old, s)
             t   == StoreWord(tables, p, v, w)
  <2>1. tables' = FaultIn(t, p, g, Fpn(old)) /\ extent' = extent
    BY <1>9 DEF PageReplace
  <2>2. g \in Nat /\ v \in Nat /\ w \in Word /\ Fpn(old) \in Nat
    BY <1>2, EntryIsWord, WrittenWords, NumberIsNatural DEF Fpn
  <2> HIDE DEF old, w
  <2>3. WellFormed(t)
    BY <1>2, <1>3, <2>2, StoreWordWrites
  <2> HIDE DEF t
  <2>4. WellFormed(FaultIn(t, p, g, Fpn(old)))
    BY <1>2, <1>3, <2>2, <2>3, FaultInKeepsTree
  <2> QED
    BY <1>2, <2>1, <2>4 DEF TreeInv
<1>10. CASE UNCHANGED vars
  BY <1>2, <1>10 DEF vars, TreeInv
<1> QED
  BY <1>1, <1>4, <1>5, <1>6, <1>7, <1>8, <1>9, <1>10 DEF Next

LEMMA TreeInvHolds == Spec => []TreeInv
<1>1. Init => TreeInv
  <2>1. SUFFICES ASSUME Init PROVE TreeInv
    OBVIOUS
  <2>2. WellFormed(tables)
    BY <2>1, TreeAtFirst
  <2>3. extent \in [Spaces -> 0 .. MaxPages]
    <3>1. 0 \in 0 .. MaxPages
      <4>1. MaxPages \in Nat
        BY PageTableAssumption
      <4> QED
        BY <4>1
    <3>2. extent = [s \in Spaces |-> 0]
      BY <2>1 DEF Init
    <3> QED
      BY <3>1, <3>2
  <2> QED
    BY <2>2, <2>3 DEF TreeInv
<1> QED
  BY <1>1, TreeInvStep, PTL DEF Spec

\* The entries hold what they should in every state: words of 32 bits, and
\* pointers to directories that have been allocated.
THEOREM PageTableTypes == Spec => []TypeOK
<1>1. TreeInv => TypeOK
  <2>1. SUFFICES ASSUME TreeInv PROVE TypeOK
    OBVIOUS
  <2>2. PICK L : Tree(tables, L)
    BY <2>1 DEF TreeInv, WellFormed
  <2>3. DirsOf(tables) = Dirs
    BY DEF DirsOf, Dirs
  <2> QED
    BY <2>1, <2>2, <2>3 DEF Tree, TypeOK, TreeInv, NodesOf
<1> QED
  BY <1>1, TreeInvHolds, PTL

\* However the walks of the spaces allocate the directories, they form a tree
\* for each, and no walk takes a word for a pointer.
THEOREM TablesAreTrees == Spec => []TreeShape
<1>1. TreeInv => TreeShape
  <2>1. SUFFICES ASSUME TreeInv PROVE TreeShape
    OBVIOUS
  <2>2. PICK L : Tree(tables, L)
    BY <2>1 DEF TreeInv, WellFormed
  <2>3. /\ DOMAIN tables.dir \subseteq NodesOf(tables) \X Indexes
        /\ DOMAIN tables.word \subseteq DirsOf(tables) \X Indexes
        /\ DirsOf(tables) = Dirs
    BY <2>2 DEF Tree, DirsOf, Dirs
  <2>4. \A d, i : <<d, i>> \in DOMAIN tables.dir =>
          /\ d \in NodesOf(tables) /\ i \in Indexes
          /\ Below(tables, d, i) # NULL
          /\ Below(tables, d, i) = tables.dir[<<d, i>>]
          /\ Below(tables, d, i) \in Dirs
    BY <2>2, <2>3, BelowIs DEF Below
  <2>5. NULL \notin Dirs
    BY <2>2, <2>3, Names DEF Tree, NodesOf
  <2>6. ASSUME NEW c \in Dirs
        PROVE  \E at \in DOMAIN tables.dir :
                 tables.dir[at] = c /\ at[1] \in Spaces \cup 0 .. c - 1
    <3>1. PICK d \in Spaces \cup 0 .. c - 1, i \in Indexes : Below(tables, d, i) = c
      BY <2>2, <2>3 DEF Tree
    <3>2. <<d, i>> \in DOMAIN tables.dir
      BY <2>2, <2>5, <3>1, BelowIs
    <3>3. tables.dir[<<d, i>>] = c /\ <<d, i>>[1] = d
      BY <2>4, <3>1, <3>2
    <3> QED
      BY <3>1, <3>2, <3>3
  <2>7. ASSUME NEW at \in DOMAIN tables.dir, NEW bt \in DOMAIN tables.dir,
               tables.dir[at] = tables.dir[bt]
        PROVE  at = bt
    <3>1. PICK d \in NodesOf(tables), i \in Indexes : at = <<d, i>>
      BY <2>3
    <3>2. PICK e \in NodesOf(tables), j \in Indexes : bt = <<e, j>>
      BY <2>3
    <3>3. Below(tables, d, i) # NULL /\ Below(tables, d, i) = Below(tables, e, j)
      BY <2>4, <2>7, <3>1, <3>2
    <3>4. d = e /\ i = j
      BY <2>2, <3>3 DEF Tree
    <3> QED
      BY <3>1, <3>2, <3>4
  <2>8. ASSUME NEW at \in DOMAIN tables.dir, NEW bt \in DOMAIN tables.word
        PROVE  at[1] # bt[1]
    <3>1. PICK d \in NodesOf(tables), i \in Indexes : at = <<d, i>>
      BY <2>3
    <3>2. PICK e \in Dirs, j \in Indexes : bt = <<e, j>>
      BY <2>3
    <3>3. L[e] = 0
      BY <2>2, <2>3, <3>2 DEF Tree
    <3>4. L[d] = L[Below(tables, d, i)] + 1
      BY <2>2, <2>4, <3>1 DEF Tree
    <3>5. L[Below(tables, d, i)] \in 0 .. 4
      <4>1. Below(tables, d, i) \in NodesOf(tables)
        BY <2>3, <2>4, <3>1 DEF NodesOf
      <4> QED
        BY <2>2, <4>1 DEF Tree
    <3>6. d # e
      BY <3>3, <3>4, <3>5
    <3> QED
      BY <3>1, <3>2, <3>6
  <2> QED
    BY <2>6, <2>7, <2>8 DEF TreeShape
<1> QED
  BY <1>1, TreeInvHolds, PTL

-----------------------------------------------------------------------------
(* What the operations do to the entries, where the spaces are not larger     *)
(* than the page numbers can tell.                                            *)

SpacesFit == MaxPages <= NumPages

\* SYSMEM_MAP_OP is not asked for pages beyond the end of the address space.
ReservesFit == \A g \in ReservedAt, n \in Reserves : g + n <= NumPages

\* The numbers that the lemmas below are about.
LEMMA PageBounds ==
  ASSUME SpacesFit, TreeInv
  PROVE  /\ MaxPages \in Nat /\ NumPages \in Nat /\ Frames \subseteq Nat
         /\ Grants \subseteq Nat \ {0} /\ Reserves \subseteq Nat
         /\ ReservedAt \subseteq Pages /\ \A p \in Procs : p \in Spaces /\ p # Kernel
         /\ Kernel \in Spaces
         /\ \A s \in Spaces : extent[s] \in Nat /\ extent[s] <= NumPages
         /\ \A s \in Spaces, g \in 0 .. MaxPages - 1 : g \in Pages
         /\ \A s \in Spaces, g \in Nat : g < extent[s] => g \in Pages
         /\ \A s \in Spaces, n \in Grants :
              Room(n) => extent[s] + n <= NumPages /\ extent[s] \in Pages
<1>1. /\ MaxPages \in Nat /\ Frames \subseteq Nat /\ Grants \subseteq Nat \ {0}
      /\ Reserves \subseteq Nat /\ ReservedAt \subseteq Pages
      /\ \A p \in Procs : p \in Spaces /\ p # Kernel
      /\ Kernel \in Spaces
  BY PageTableAssumption DEF Spaces
<1>2. NumPages \in Nat /\ Pages = 0 .. NumPages - 1 /\ MaxPages <= NumPages
  BY Sizes DEF Pages, SpacesFit
<1>3. \A s \in Spaces : extent[s] \in 0 .. MaxPages
  BY DEF TreeInv
<1>4. \A s \in Spaces : extent[s] \in Nat /\ extent[s] <= NumPages
  BY <1>1, <1>2, <1>3
<1>5. \A s \in Spaces, g \in 0 .. MaxPages - 1 : g \in Pages
  BY <1>1, <1>2
<1>6. \A s \in Spaces, g \in Nat : g < extent[s] => g \in Pages
  BY <1>2, <1>4
<1>7. ASSUME NEW s \in Spaces, NEW n \in Grants, Room(n)
      PROVE  extent[s] + n <= NumPages /\ extent[s] \in Pages
  <2>1. extent[s] + n \in 0 .. MaxPages
    BY <1>7, RoomIsEnough
  <2> QED
    BY <1>1, <1>2, <1>4, <2>1
<1> QED
  BY <1>1, <1>2, <1>4, <1>5, <1>6, <1>7

LEMMA KVmMapRamWrites ==
  ASSUME SpacesFit, TreeInv, NEW n \in Grants, NEW f \in Frames, KVmMapRam(n, f)
  PROVE  LET e == extent[Kernel] IN
         \A r \in Spaces, h \in Pages : GetEntry(tables', r, h) =
           IF r = Kernel /\ h \in e .. e + n - 1
           THEN MapFrame(GetEntry(tables, Kernel, h), f + (h - e))
           ELSE GetEntry(tables, r, h)
<1> DEFINE word == [k \in Nat |-> [w \in Word |-> MapFrame(w, f + k)]]
           e == extent[Kernel]
<1>1. /\ Kernel \in Spaces /\ e \in Nat /\ n \in Nat /\ f \in Nat
      /\ e + n <= NumPages /\ Pages \subseteq Nat
  BY PageBounds, PagesAreNumbers DEF KVmMapRam
<1>2. \A k \in Nat, w \in Word : word[k][w] = MapFrame(w, f + k) /\ word[k][w] \in Word
  <2> TAKE k \in Nat, w \in Word
  <2>1. f + k \in Nat
    BY <1>1
  <2> QED
    BY <2>1, WrittenWords
<1>3. tables' = StorePages(Kernel, e, n, word)
  BY DEF KVmMapRam
<1> HIDE DEF word, e
<1>4. \A k \in 0 .. n - 1, w \in Word : word[k][w] \in Word
  <2>1. \A k \in 0 .. n - 1 : k \in Nat
    BY <1>1
  <2> QED
    BY <1>2, <2>1
<1>5. WellFormed(tables)
  BY DEF TreeInv
<1>6. \A r \in Spaces, h \in Pages : GetEntry(tables', r, h) =
        IF r = Kernel /\ h \in e .. e + n - 1
        THEN word[h - e][GetEntry(tables, Kernel, h)] ELSE GetEntry(tables, r, h)
  BY <1>1, <1>3, <1>4, <1>5, StorePagesWrites
<1>7. \A h \in Pages : h \in e .. e + n - 1 =>
        word[h - e][GetEntry(tables, Kernel, h)]
          = MapFrame(GetEntry(tables, Kernel, h), f + (h - e))
  <2> TAKE h \in Pages
  <2>1. h \in e .. e + n - 1 => h - e \in Nat
    BY <1>1
  <2>2. GetEntry(tables, Kernel, h) \in Word
    BY <1>5, EntryIsWord
  <2> QED
    BY <1>2, <2>1, <2>2
<1> QED
  BY <1>6, <1>7 DEF e

LEMMA VmMapRamWrites ==
  ASSUME SpacesFit, TreeInv, NEW p \in Procs, NEW n \in Grants, VmMapRam(p, n)
  PROVE  LET e == extent[p] IN
         \A r \in Spaces, h \in Pages : GetEntry(tables', r, h) =
           IF r = p /\ h \in e .. e + n - 1 THEN {} ELSE GetEntry(tables, r, h)
<1> DEFINE word == [k \in Nat |-> [w \in Word |-> {}]]
           e == extent[p]
<1>1. /\ p \in Spaces /\ e \in Nat /\ n \in Nat /\ e + n <= NumPages
      /\ Pages \subseteq Nat
  BY PageBounds, PagesAreNumbers DEF VmMapRam
<1>2. \A k \in Nat, w \in Word : word[k][w] = {} /\ word[k][w] \in Word
  BY WrittenWords
<1>3. tables' = StorePages(p, e, n, word)
  BY DEF VmMapRam
<1> HIDE DEF word, e
<1>4. \A k \in 0 .. n - 1, w \in Word : word[k][w] \in Word
  <2>1. \A k \in 0 .. n - 1 : k \in Nat
    BY <1>1
  <2> QED
    BY <1>2, <2>1
<1>5. WellFormed(tables)
  BY DEF TreeInv
<1>6. \A r \in Spaces, h \in Pages : GetEntry(tables', r, h) =
        IF r = p /\ h \in e .. e + n - 1
        THEN word[h - e][GetEntry(tables, p, h)] ELSE GetEntry(tables, r, h)
  BY <1>1, <1>3, <1>4, <1>5, StorePagesWrites
<1>7. \A h \in Pages : h \in e .. e + n - 1 => word[h - e][GetEntry(tables, p, h)] = {}
  <2> TAKE h \in Pages
  <2>1. h \in e .. e + n - 1 => h - e \in Nat
    BY <1>1
  <2>2. GetEntry(tables, p, h) \in Word
    BY <1>5, EntryIsWord
  <2> QED
    BY <1>2, <2>1, <2>2
<1> QED
  BY <1>6, <1>7 DEF e

LEMMA VmapPgdMemsetWrites ==
  ASSUME TreeInv, NEW p \in Procs, NEW g \in ReservedAt, NEW n \in Reserves,
         VmapPgdMemset(p, g, n)
  PROVE  /\ \A r \in Spaces \ {p}, h \in Pages :
              GetEntry(tables', r, h) = GetEntry(tables, r, h)
         /\ g + n <= NumPages =>
              \A r \in Spaces, h \in Pages : GetEntry(tables', r, h) =
                IF r = p /\ h \in g .. g + n - 1 THEN Deadbeef ELSE GetEntry(tables, r, h)
<1> DEFINE word == [k \in Nat |-> [w \in Word |-> Deadbeef]]
<1>1. p \in Spaces /\ g \in Nat /\ n \in Nat /\ Pages \subseteq Nat
  BY PageTableAssumption, PagesAreNumbers DEF Spaces
<1>2. \A k \in Nat, w \in Word : word[k][w] = Deadbeef /\ word[k][w] \in Word
  BY WrittenWords
<1>3. tables' = StorePages(p, g, n, word)
  BY DEF VmapPgdMemset
<1> HIDE DEF word
<1>4. \A k \in 0 .. n - 1, w \in Word : word[k][w] \in Word
  <2>1. \A k \in 0 .. n - 1 : k \in Nat
    BY <1>1
  <2> QED
    BY <1>2, <2>1
<1>5. WellFormed(tables)
  BY DEF TreeInv
<1>6. \A r \in Spaces \ {p}, h \in Pages :
        GetEntry(tables', r, h) = GetEntry(tables, r, h)
  BY <1>1, <1>3, <1>4, <1>5, StorePagesWrites
<1>7. ASSUME g + n <= NumPages
      PROVE  \A r \in Spaces, h \in Pages : GetEntry(tables', r, h) =
        IF r = p /\ h \in g .. g + n - 1
        THEN word[h - g][GetEntry(tables, p, h)] ELSE GetEntry(tables, r, h)
  BY <1>1, <1>3, <1>4, <1>5, <1>7, StorePagesWrites
<1>8. \A h \in Pages :
        h \in g .. g + n - 1 => word[h - g][GetEntry(tables, p, h)] = Deadbeef
  <2> TAKE h \in Pages
  <2>1. h \in g .. g + n - 1 => h - g \in Nat
    BY <1>1
  <2>2. GetEntry(tables, p, h) \in Word
    BY <1>5, EntryIsWord
  <2> QED
    BY <1>2, <2>1, <2>2
<1> QED
  BY <1>6, <1>7, <1>8

LEMMA PageDirtyWrites ==
  ASSUME SpacesFit, TreeInv, NEW p \in Procs, NEW g \in 0 .. MaxPages - 1, PageDirty(p, g)
  PROVE  \A r \in Spaces, h \in Pages : GetEntry(tables', r, h) =
           IF r = p /\ h = g THEN SETBIT(GetEntry(tables, p, g), DIRTY)
           ELSE GetEntry(tables, r, h)
<1> DEFINE w == GetEntry(tables, p, g)
           v == SETBIT(w, DIRTY)
<1>1. p \in Spaces /\ g \in Pages /\ g \in Nat /\ WellFormed(tables)
  BY PageBounds, PagesAreNumbers DEF TreeInv
<1>2. w \in Word /\ w # {} /\ tables' = SetEntry(tables, p, g, v)
  BY <1>1, EntryIsWord DEF PageDirty, Present
<1>3. Leaf(tables, p, g) # NULL
  BY <1>1, <1>2, EntryHasPath
<1>4. v \in Word
  BY <1>2, Flags
<1> HIDE DEF v
<1>5. \A r \in Spaces, h \in Pages : GetEntry(SetEntry(tables, p, g, v), r, h) =
        IF r = p /\ h = g THEN v ELSE GetEntry(tables, r, h)
  BY <1>1, <1>3, <1>4, SetEntryWrites
<1> QED
  BY <1>2, <1>5 DEF v

\* The entry that pg_getpage gives a page whose word was w.
Incoming(w, f) ==
  IF Swapped(w) THEN SETBIT(MapFrame(w, f), DIRTY) ELSE CLRBIT(MapFrame(w, f), DIRTY)

LEMMA PageFaultWrites ==
  ASSUME SpacesFit, TreeInv, NEW p \in Procs, NEW g \in 0 .. MaxPages - 1,
         NEW f \in Frames, PageFault(p, g, f)
  PROVE  \A r \in Spaces, h \in Pages : GetEntry(tables', r, h) =
           IF r = p /\ h = g THEN Incoming(GetEntry(tables, p, g), f)
           ELSE GetEntry(tables, r, h)
<1>1. p \in Spaces /\ g \in Pages /\ f \in Nat /\ WellFormed(tables)
  BY PageBounds DEF TreeInv
<1>2. tables' = FaultIn(tables, p, g, f)
  BY DEF PageFault
<1> QED
  BY <1>1, <1>2, FaultInWrites DEF Incoming

LEMMA PageReplaceWrites ==
  ASSUME SpacesFit, TreeInv, NEW p \in Procs, NEW g \in 0 .. MaxPages - 1,
         NEW v \in 0 .. MaxPages - 1, NEW s \in Slots, PageReplace(p, g, v, s)
  PROVE  LET old == GetEntry(tables, p, v) IN
         \A r \in Spaces, h \in Pages : GetEntry(tables', r, h) =
           IF r = p /\ h = g THEN Incoming(GetEntry(tables, p, g), Fpn(old))
           ELSE IF r = p /\ h = v THEN MapSlot(old, s)
           ELSE GetEntry(tables, r, h)
<1> DEFINE old == GetEntry(tables, p, v)
           w   == MapSlot(old, s)
           t   == StoreWord(tables, p, v, w)
<1>1. p \in Spaces /\ g \in Pages /\ v \in Pages /\ v \in Nat /\ WellFormed(tables)
  BY PageBounds, PagesAreNumbers DEF TreeInv
<1>2. /\ tables' = FaultIn(t, p, g, Fpn(old))
      /\ ~Present(GetEntry(tables, p, g)) /\ Present(old)
  BY DEF PageReplace
<1>3. w \in Word /\ Fpn(old) \in Nat /\ g # v
  BY <1>1, <1>2, EntryIsWord, WrittenWords, NumberIsNatural DEF Fpn
<1> HIDE DEF old, w
<1>4. /\ WellFormed(t)
      /\ \A r \in Spaces, h \in Pages : GetEntry(t, r, h) =
           IF r = p /\ h = v THEN w ELSE GetEntry(tables, r, h)
  BY <1>1, <1>3, StoreWordWrites
<1> HIDE DEF t
<1>5. GetEntry(t, p, g) = GetEntry(tables, p, g)
  BY <1>1, <1>3, <1>4
<1>6. \A r \in Spaces, h \in Pages : GetEntry(FaultIn(t, p, g, Fpn(old)), r, h) =
        IF r = p /\ h = g THEN Incoming(GetEntry(tables, p, g), Fpn(old))
        ELSE GetEntry(t, r, h)
  BY <1>1, <1>3, <1>4, <1>5, FaultInWrites DEF Incoming
<1> QED
  BY <1>2, <1>4, <1>6 DEF old, w

-----------------------------------------------------------------------------
(* The kernel's pages.                                                        *)

\* They are present below the kernel's vm_end, and untouched above it.
KernelInv ==
  \A h \in Pages : IF h < extent[Kernel] THEN Present(GetEntry(tables, Kernel, h))
                   ELSE GetEntry(tables, Kernel, h) = {}

KernelUntouched ==
  /\ extent'[Kernel] = extent[Kernel]
  /\ \A h \in Pages : GetEntry(tables', Kernel, h) = GetEntry(tables, Kernel, h)

\* The kernel's pages change when the kernel grows, and then only the new ones.
LEMMA KernelKept ==
  ASSUME SpacesFit, TreeInv, [Next]_vars
  PROVE  \/ KernelUntouched
         \/ \E n \in Grants, f \in Frames : KVmMapRam(n, f)
<1>1. Kernel \in Spaces /\ \A p \in Procs : p \in Spaces /\ p # Kernel
  BY PageBounds
<1>2. extent \in [Spaces -> 0 .. MaxPages]
  BY DEF TreeInv
<1>3. ASSUME NEW p \in Procs, NEW n \in Grants, VmMapRam(p, n)
      PROVE  KernelUntouched
  <2>1. extent'[Kernel] = extent[Kernel]
    BY <1>1, <1>2, <1>3 DEF VmMapRam
  <2> QED
    BY <1>1, <1>3, <2>1, VmMapRamWrites DEF KernelUntouched
<1>4. ASSUME NEW p \in Procs, NEW g \in ReservedAt, NEW n \in Reserves,
             VmapPgdMemset(p, g, n)
      PROVE  KernelUntouched
  <2>1. extent'[Kernel] = extent[Kernel]
    BY <1>4 DEF VmapPgdMemset
  <2> QED
    BY <1>1, <1>4, <2>1, VmapPgdMemsetWrites DEF KernelUntouched
<1>5. ASSUME NEW p \in Procs, NEW g \in 0 .. MaxPages - 1, PageDirty(p, g)
      PROVE  KernelUntouched
  <2>1. extent'[Kernel] = extent[Kernel]
    BY <1>5 DEF PageDirty
  <2> QED
    BY <1>1, <1>5, <2>1, PageDirtyWrites DEF KernelUntouched
<1>6. ASSUME NEW p \in Procs, NEW g \in 0 .. MaxPages - 1, NEW f \in Frames,
             PageFault(p, g, f)
      PROVE  KernelUntouched
  <2>1. extent'[Kernel] = extent[Kernel]
    BY <1>6 DEF PageFault
  <2> QED
    BY <1>1, <1>6, <2>1, PageFaultWrites DEF KernelUntouched
<1>7. ASSUME NEW p \in Procs, NEW g \in 0 .. MaxPages - 1, NEW v \in 0 .. MaxPages - 1,
             NEW s \in Slots, PageReplace(p, g, v, s)
      PROVE  KernelUntouched
  <2>1. extent'[Kernel] = extent[Kernel]
    BY <1>7 DEF PageReplace
  <2> QED
    BY <1>1, <1>7, <2>1, PageReplaceWrites DEF KernelUntouched
<1>8. CASE UNCHANGED vars
  BY <1>8 DEF vars, KernelUntouched
<1> QED
  BY <1>3, <1>4, <1>5, <1>6, <1>7, <1>8 DEF Next

\* A word with a frame in it is present.
LEMMA FrameIsPresent ==
  ASSUME NEW w \in Word, NEW f \in Nat
  PROVE  Present(MapFrame(w, f))
  BY FrameWord, Flags

LEMMA KernelInvStep ==
  ASSUME SpacesFit, TreeInv, KernelInv, [Next]_vars
  PROVE  /\ KernelInv'
         /\ \A h \in Pages : h < extent[Kernel] =>
              GetEntry(tables', Kernel, h) = GetEntry(tables, Kernel, h)
<1>1. Kernel \in Spaces /\ extent[Kernel] \in Nat /\ Pages \subseteq Nat
  BY PageBounds, PagesAreNumbers
<1>2. CASE KernelUntouched
  BY <1>2 DEF KernelInv, KernelUntouched
<1>3. ASSUME NEW n \in Grants, NEW f \in Frames, KVmMapRam(n, f)
      PROVE  /\ KernelInv'
             /\ \A h \in Pages : h < extent[Kernel] =>
                  GetEntry(tables', Kernel, h) = GetEntry(tables, Kernel, h)
  <2> DEFINE e == extent[Kernel]
  <2>1. extent'[Kernel] = e + n /\ n \in Nat /\ f \in Nat
    BY <1>1, <1>3, PageBounds DEF KVmMapRam, TreeInv
  <2>2. \A h \in Pages : GetEntry(tables', Kernel, h) =
          IF h \in e .. e + n - 1 THEN MapFrame(GetEntry(tables, Kernel, h), f + (h - e))
          ELSE GetEntry(tables, Kernel, h)
    BY <1>1, <1>3, KVmMapRamWrites
  <2>3. e \in Nat
    BY <1>1
  <2> HIDE DEF e
  <2>4. ASSUME NEW h \in Pages
        PROVE  IF h < e + n THEN Present(GetEntry(tables', Kernel, h))
               ELSE GetEntry(tables', Kernel, h) = {}
    <3>0. h \in Nat /\ (IF h < e THEN Present(GetEntry(tables, Kernel, h))
                        ELSE GetEntry(tables, Kernel, h) = {})
      BY <1>1 DEF KernelInv, e
    <3>1. CASE h < e
      BY <2>1, <2>2, <2>3, <3>0, <3>1
    <3>2. CASE h \in e .. e + n - 1
      <4>1. f + (h - e) \in Nat
        BY <2>1, <2>3, <3>2
      <4>2. GetEntry(tables, Kernel, h) \in Word
        BY EntryIsWord DEF TreeInv
      <4>3. GetEntry(tables', Kernel, h)
              = MapFrame(GetEntry(tables, Kernel, h), f + (h - e))
        BY <2>2, <3>2
      <4>4. Present(GetEntry(tables', Kernel, h))
        BY <4>1, <4>2, <4>3, FrameIsPresent
      <4>5. h < e + n
        BY <2>1, <2>3, <3>2
      <4> QED
        BY <4>4, <4>5
    <3>3. CASE h >= e + n
      BY <2>1, <2>2, <2>3, <3>0, <3>3
    <3> QED
      BY <2>1, <2>3, <3>0, <3>1, <3>2, <3>3
  <2>5. \A h \in Pages :
          h < e => GetEntry(tables', Kernel, h) = GetEntry(tables, Kernel, h)
    BY <1>1, <2>2, <2>3
  <2> QED
    BY <2>1, <2>4, <2>5 DEF KernelInv, e
<1> QED
  BY <1>2, <1>3, KernelKept

\* What every reachable state satisfies.
PageTableInv == TreeInv /\ KernelInv

\* Without tables every entry reads as 0.
LEMMA NoEntries ==
  ASSUME Init, NEW s, NEW g
  PROVE  GetEntry(tables, s, g) = {}
<1>1. tables = [dir |-> <<>>, word |-> <<>>, next |-> 0]
  BY DEF Init, NoTables
<1>2. DOMAIN tables.word = {}
  BY <1>1
<1> QED
  BY <1>2 DEF GetEntry

LEMMA PageTableInvHolds == ASSUME SpacesFit PROVE Spec => []PageTableInv
<1>1. Init => KernelInv
  <2>1. SUFFICES ASSUME Init PROVE KernelInv
    OBVIOUS
  <2>2. extent[Kernel] = 0
    BY <2>1 DEF Init, Spaces
  <2>3. \A h \in Pages : ~(h < 0)
    BY PagesAreNumbers
  <2>4. \A h \in Pages : GetEntry(tables, Kernel, h) = {}
    BY <2>1, NoEntries
  <2> QED
    BY <2>2, <2>3, <2>4 DEF KernelInv
<1>2. TreeInv /\ KernelInv /\ [Next]_vars => KernelInv'
  BY KernelInvStep
<1> QED
  BY <1>1, <1>2, TreeInvHolds, PTL DEF Spec, PageTableInv

\* The kernel's pages keep their frames, whatever is mapped after them, in
\* spaces of any size that the page numbers can tell.
THEOREM KernelPagesPinned == ASSUME SpacesFit PROVE Spec => KernelPinned
<1>1. PageTableInv /\ [Next]_vars =>
        [\A i \in 0 .. extent[Kernel] - 1 :
           LET g == PageAt(Kernel, i) IN
             /\ Present(GetEntry(tables, Kernel, g))
             /\ GetEntry(tables', Kernel, g) = GetEntry(tables, Kernel, g)]_vars
  <2>1. SUFFICES ASSUME PageTableInv, [Next]_vars, NEW i \in 0 .. extent[Kernel] - 1
                 PROVE  /\ Present(GetEntry(tables, Kernel, PageAt(Kernel, i)))
                        /\ GetEntry(tables', Kernel, PageAt(Kernel, i))
                              = GetEntry(tables, Kernel, PageAt(Kernel, i))
    OBVIOUS
  <2>2. extent[Kernel] \in Nat /\ Kernel \in Spaces
    BY <2>1, PageBounds DEF PageTableInv
  <2>3. i \in Nat /\ i < extent[Kernel]
    BY <2>2
  <2>4. i \in Pages
    BY <2>1, <2>2, <2>3, PageBounds DEF PageTableInv
  <2>5. PageAt(Kernel, i) = i
    BY <2>3, <2>4, PagesOfSpace
  <2>6. Present(GetEntry(tables, Kernel, i))
    BY <2>1, <2>3, <2>4 DEF PageTableInv, KernelInv
  <2>7. GetEntry(tables', Kernel, i) = GetEntry(tables, Kernel, i)
    BY <2>1, <2>3, <2>4, KernelInvStep DEF PageTableInv
  <2> QED
    BY <2>5, <2>6, <2>7
<1> QED
  BY <1>1, PageTableInvHolds, PTL DEF Spec, KernelPinned

-----------------------------------------------------------------------------
(* The private maps.                                                          *)

\* The refinement looks at every page.
AllWatched == Watched = Pages

\* What tables t mean to the paging code.
MapOf(t) == [s \in Spaces |-> [g \in Pages |-> Meaning[GetEntry(t, s, g)]]]

LEMMA MapEntries ==
  ASSUME NEW t, NEW s \in Spaces, NEW g \in Pages
  PROVE  MapOf(t)[s][g] = Meaning[GetEntry(t, s, g)]
  BY DEF MapOf

\* A page is in RAM for the one as for the other.
LEMMA InRamIsPresent ==
  ASSUME NEW w \in Word
  PROVE  /\ PM!InRam(Meaning[w]) <=> Present(w)
         /\ Present(w) => Meaning[w].loc = Fpn(w)
<1>1. PICK dirty \in BOOLEAN : dirty <=> 28 \in w
  OBVIOUS
<1>2. Present(w) <=> 31 \in w
  BY Flags
<1>3. CASE 31 \in w
  <2>1. Meaning[w] = [st |-> "ram", dirty |-> dirty, loc |-> Fpn(w)]
    BY <1>1, <1>3, MeaningOf
  <2> QED
    BY <1>2, <1>3, <2>1 DEF PM!InRam
<1>4. CASE 31 \notin w
  <2>1. CASE 30 \in w
    <3>1. Meaning[w] = [st |-> "swap", dirty |-> dirty, loc |-> Swpoff(w)]
      BY <1>1, <1>4, <2>1, MeaningOf
    <3> QED
      BY <1>2, <1>4, <3>1 DEF PM!InRam
  <2>2. CASE 30 \notin w
    <3>1. Meaning[w] = [st |-> "none", dirty |-> dirty, loc |-> 0]
      BY <1>1, <1>4, <2>2, MeaningOf
    <3> QED
      BY <1>2, <1>4, <3>1 DEF PM!InRam
  <2> QED
    BY <2>1, <2>2
<1> QED
  BY <1>3, <1>4

\* The maps of the abstract specification's steps, spelt out.
LEMMA ExtendedMaps ==
  ASSUME AllWatched, NEW m, NEW p \in Procs, NEW g \in Pages,
         NEW n \in Grants \cup Reserves
  PROVE  [m EXCEPT ![p] = [h \in Pages |-> IF h \in g .. g + n - 1 THEN PM!EmptyEntry
                                           ELSE @[h]]]
         \in PM!Extended(m)
  BY DEF AllWatched, PM!Extended, PM!Fill

LEMMA PinnedMaps ==
  ASSUME AllWatched, NEW m, NEW g \in Pages, NEW n \in Grants \cup Reserves,
         NEW f \in Frames
  PROVE  [m EXCEPT ![Kernel] =
           [h \in Pages |-> IF h \in g .. g + n - 1 THEN PM!Pinned(f + (h - g))
                            ELSE @[h]]]
         \in PM!PinnedPages(m)
  BY DEF AllWatched, PM!PinnedPages, PM!Fill

LEMMA ReservedMaps ==
  ASSUME AllWatched, NEW m, NEW p \in Procs, NEW g \in Pages,
         NEW n \in Grants \cup Reserves
  PROVE  [m EXCEPT ![p] = [h \in Pages |-> IF h \in g .. g + n - 1 THEN Meaning[Deadbeef]
                                           ELSE @[h]]]
         \in PM!Reserved(m)
  BY DEF AllWatched, PM!Reserved, PM!Fill

LEMMA PagedInMaps ==
  ASSUME AllWatched, NEW m, NEW p \in Procs, NEW g \in Pages, NEW f \in Frames,
         ~PM!InRam(m[p][g])
  PROVE  [m EXCEPT ![p][g] = PM!Loaded(@, f)] \in PM!PagedIn(m)
<1> DEFINE at == <<p, g>>
<1>1. at \in {pg \in Procs \X Pages : ~PM!InRam(m[pg[1]][pg[2]])}
  OBVIOUS
<1>2. [m EXCEPT ![at[1]][at[2]] = PM!Loaded(@, f)] \in PM!PagedIn(m)
  <2> HIDE DEF at
  <2> QED
    BY <1>1 DEF PM!PagedIn, AllWatched
<1> QED
  BY <1>2

LEMMA ReplacedMaps ==
  ASSUME AllWatched, NEW m, NEW p \in Procs, NEW g \in Pages, NEW v \in Pages,
         NEW s \in Slots, ~PM!InRam(m[p][g]), PM!InRam(m[p][v])
  PROVE  [m EXCEPT ![p][g] = PM!Loaded(@, m[p][v].loc), ![p][v] = PM!SetSwap(@, s)]
         \in PM!Replaced(m)
<1> DEFINE at == <<p, g, v>>
           Ats == {pgv \in Procs \X Pages \X Pages : /\ ~PM!InRam(m[pgv[1]][pgv[2]])
                                                 /\ PM!InRam(m[pgv[1]][pgv[3]])}
           After(b, c) == [m EXCEPT ![b[1]][b[2]] = PM!Loaded(@, m[b[1]][b[3]].loc),
                                    ![b[1]][b[3]] = PM!SetSwap(@, c)]
<1>1. at \in Ats
  OBVIOUS
<1>2. PM!Replaced(m) = {After(b, c) : b \in Ats, c \in Slots}
  BY DEF PM!Replaced, AllWatched
<1>3. After(at, s) \in {After(b, c) : b \in Ats, c \in Slots}
  <2> HIDE DEF at, Ats, After
  <2> QED
    BY <1>1
<1>4. After(at, s) = [m EXCEPT ![p][g] = PM!Loaded(@, m[p][v].loc),
                            ![p][v] = PM!SetSwap(@, s)]
  <2>1. at[1] = p /\ at[2] = g /\ at[3] = v
    OBVIOUS
  <2> HIDE DEF at
  <2> QED
    BY <2>1, Zenon
<1> HIDE DEF at, Ats, After
<1> QED
  BY <1>2, <1>3, <1>4

LEMMA DirtiedMaps ==
  ASSUME AllWatched, NEW m, NEW p \in Procs, NEW g \in Pages, PM!InRam(m[p][g])
  PROVE  [m EXCEPT ![p][g] = PM!Touched(@)] \in PM!Dirtied(m)
<1> DEFINE at == <<p, g>>
<1>1. at \in {pg \in Procs \X Pages : PM!InRam(m[pg[1]][pg[2]])}
  OBVIOUS
<1>2. [m EXCEPT ![at[1]][at[2]] = PM!Touched(@)] \in PM!Dirtied(m)
  <2> HIDE DEF at
  <2> QED
    BY <1>1 DEF PM!Dirtied, AllWatched
<1> QED
  BY <1>2

LEMMA MapStep ==
  ASSUME AllWatched, NEW k, k = MapOf(tables'),
         k \in PM!Extended(MapOf(tables)) \cup PM!PinnedPages(MapOf(tables))
              \cup PM!Reserved(MapOf(tables)) \cup PM!PagedIn(MapOf(tables))
              \cup PM!Replaced(MapOf(tables)) \cup PM!Dirtied(MapOf(tables))
  PROVE  PM!MapNext
  BY DEF PM!MapNext, MapOf, AllWatched

\* Maps that differ in one space, in one page, or in two.
LEMMA OneSpace ==
  ASSUME NEW p \in Spaces, NEW e,
         e = [h \in Pages |-> Meaning[GetEntry(tables', p, h)]],
         \A r \in Spaces, h \in Pages :
           r # p => GetEntry(tables', r, h) = GetEntry(tables, r, h)
  PROVE  MapOf(tables') = [MapOf(tables) EXCEPT ![p] = e]
<1>1. \A r \in Spaces : MapOf(tables')[r] = IF r = p THEN e ELSE MapOf(tables)[r]
  BY DEF MapOf
<1>2. /\ MapOf(tables') = [r \in Spaces |-> MapOf(tables')[r]]
      /\ DOMAIN MapOf(tables) = Spaces
  BY DEF MapOf
<1>3. [MapOf(tables) EXCEPT ![p] = e]
        = [r \in Spaces |-> IF r = p THEN e ELSE MapOf(tables)[r]]
  BY <1>2
<1> QED
  BY <1>1, <1>2, <1>3

LEMMA OnePage ==
  ASSUME NEW p \in Spaces, NEW g \in Pages, NEW e,
         e = Meaning[GetEntry(tables', p, g)],
         \A r \in Spaces, h \in Pages :
           ~(r = p /\ h = g) => GetEntry(tables', r, h) = GetEntry(tables, r, h)
  PROVE  MapOf(tables') = [MapOf(tables) EXCEPT ![p][g] = e]
<1> DEFINE row == [h \in Pages |-> Meaning[GetEntry(tables', p, h)]]
           old == [h \in Pages |-> Meaning[GetEntry(tables, p, h)]]
<1>0. \A r \in Spaces, h \in Pages :
        r # p => GetEntry(tables', r, h) = GetEntry(tables, r, h)
  OBVIOUS
<1>1. MapOf(tables') = [MapOf(tables) EXCEPT ![p] = row]
  <2>1. row = [h \in Pages |-> Meaning[GetEntry(tables', p, h)]]
    OBVIOUS
  <2> HIDE DEF row
  <2> QED
    BY <1>0, <2>1, OneSpace
<1>2. MapOf(tables)[p] = old
  BY DEF MapOf
<1>3. row = [old EXCEPT ![g] = e]
  OBVIOUS
<1> HIDE DEF row, old
<1> QED
  BY <1>1, <1>2, <1>3

LEMMA TwoPages ==
  ASSUME NEW p \in Spaces, NEW g \in Pages, NEW v \in Pages, g # v,
         NEW e, NEW f,
         e = Meaning[GetEntry(tables', p, g)], f = Meaning[GetEntry(tables', p, v)],
         \A r \in Spaces, h \in Pages :
           ~(r = p /\ h \in {g, v}) => GetEntry(tables', r, h) = GetEntry(tables, r, h)
  PROVE  MapOf(tables') = [MapOf(tables) EXCEPT ![p][g] = e, ![p][v] = f]
<1> DEFINE row == [h \in Pages |-> Meaning[GetEntry(tables', p, h)]]
           old == [h \in Pages |-> Meaning[GetEntry(tables, p, h)]]
<1>0. \A r \in Spaces, h \in Pages :
        r # p => GetEntry(tables', r, h) = GetEntry(tables, r, h)
  OBVIOUS
<1>1. MapOf(tables') = [MapOf(tables) EXCEPT ![p] = row]
  <2>1. row = [h \in Pages |-> Meaning[GetEntry(tables', p, h)]]
    OBVIOUS
  <2> HIDE DEF row
  <2> QED
    BY <1>0, <2>1, OneSpace
<1>2. MapOf(tables)[p] = old /\ p \in DOMAIN MapOf(tables)
  BY DEF MapOf
<1>3. row = [[old EXCEPT ![g] = e] EXCEPT ![v] = f]
  OBVIOUS
<1> HIDE DEF row, old
<1>4. [[MapOf(tables) EXCEPT ![p][g] = e] EXCEPT ![p][v] = f]
        = [MapOf(tables) EXCEPT ![p] = row]
  <2> DEFINE m == MapOf(tables)
             x == [m EXCEPT ![p][g] = e]
  <2>1. p \in DOMAIN m /\ m[p] = old
    BY <1>2
  <2> HIDE DEF m
  <2>2. x[p] = [old EXCEPT ![g] = e] /\ DOMAIN x = DOMAIN m
        /\ \A r \in DOMAIN m : r # p => x[r] = m[r]
    BY <2>1
  <2> HIDE DEF x
  <2>3. [x EXCEPT ![p][v] = f] = [r \in DOMAIN x |-> IF r = p THEN row ELSE x[r]]
    BY <1>3, <2>1, <2>2
  <2>4. [m EXCEPT ![p] = row] = [r \in DOMAIN m |-> IF r = p THEN row ELSE m[r]]
    OBVIOUS
  <2> QED
    BY <2>2, <2>3, <2>4 DEF x, m
<1> QED
  BY <1>1, <1>4

\* The steps of the tables are steps of the maps.
LEMMA NextIsMapNext ==
  ASSUME SpacesFit, ReservesFit, AllWatched, PageTableInv, Next
  PROVE  PM!MapNext
<1> DEFINE m == MapOf(tables)
           k == MapOf(tables')
<1>0. m = MapOf(tables) /\ k = MapOf(tables')
  OBVIOUS
<1>1. TreeInv /\ KernelInv /\ WellFormed(tables)
  BY DEF PageTableInv, TreeInv
<1>2. /\ \A p \in Procs : p \in Spaces /\ p # Kernel
      /\ Kernel \in Spaces /\ Frames \subseteq Nat /\ Grants \subseteq Nat
      /\ Reserves \subseteq Nat /\ ReservedAt \subseteq Pages /\ Pages \subseteq Nat
      /\ \A g \in 0 .. MaxPages - 1 : g \in Pages
      /\ \A s \in Spaces, n \in Grants : Room(n) => extent[s] \in Pages
      /\ \A s \in Spaces : extent[s] \in Nat
  <2>1. \A g \in 0 .. MaxPages - 1 : g \in Pages
    BY <1>1, PageBounds
  <2> QED
    BY <1>1, <2>1, PageBounds, PagesAreNumbers
<1>3. \A s, g : GetEntry(tables, s, g) \in Word
  BY <1>1, EntryIsWord
<1>4. \A s \in Spaces, g \in Pages : m[s][g] = Meaning[GetEntry(tables, s, g)]
  BY MapEntries
<1> HIDE DEF m, k
<1>5. SUFFICES k \in PM!Extended(m) \cup PM!PinnedPages(m) \cup PM!Reserved(m)
                       \cup PM!PagedIn(m) \cup PM!Replaced(m) \cup PM!Dirtied(m)
  BY MapStep DEF k, m
<1>6. ASSUME NEW n \in Grants, NEW f \in Frames, KVmMapRam(n, f)
      PROVE  k \in PM!PinnedPages(m)
  <2> DEFINE e   == extent[Kernel]
             row == [h \in Pages |-> IF h \in e .. e + n - 1 THEN PM!Pinned(f + (h - e))
                                     ELSE m[Kernel][h]]
  <2>1. e \in Pages /\ e \in Nat /\ n \in Nat /\ f \in Nat
    BY <1>2, <1>6 DEF KVmMapRam
  <2>2. \A r \in Spaces, h \in Pages : GetEntry(tables', r, h) =
          IF r = Kernel /\ h \in e .. e + n - 1
          THEN MapFrame(GetEntry(tables, Kernel, h), f + (h - e))
          ELSE GetEntry(tables, r, h)
    BY <1>1, <1>6, KVmMapRamWrites
  <2>3. \A h \in Pages : h \in e .. e + n - 1 => GetEntry(tables, Kernel, h) = {}
    <3>1. \A h \in Pages : h \in e .. e + n - 1 => ~(h < e)
      BY <2>1
    <3> QED
      BY <1>1, <3>1 DEF KernelInv
  <2> HIDE DEF e
  <2>4. ASSUME NEW h \in Pages
        PROVE  Meaning[GetEntry(tables', Kernel, h)] = row[h]
    <3>1. CASE h \in e .. e + n - 1
      <4>1. f + (h - e) \in Nat
        BY <2>1, <3>1
      <4>2. GetEntry(tables', Kernel, h) = MapFrame({}, f + (h - e))
        BY <1>2, <2>2, <2>3, <3>1
      <4> QED
        BY <3>1, <4>1, <4>2, PinnedWord
    <3>2. CASE h \notin e .. e + n - 1
      BY <1>2, <1>4, <2>2, <3>2
    <3> QED
      BY <3>1, <3>2
  <2>5. row = [h \in Pages |-> Meaning[GetEntry(tables', Kernel, h)]]
    BY <2>4
  <2>6. [m EXCEPT ![Kernel] = row] \in PM!PinnedPages(m)
    BY <2>1, PinnedMaps
  <2> HIDE DEF row
  <2>7. k = [m EXCEPT ![Kernel] = row]
    <3>1. \A r \in Spaces, h \in Pages :
            r # Kernel => GetEntry(tables', r, h) = GetEntry(tables, r, h)
      BY <2>2
    <3>2. Kernel \in Spaces
      BY <1>2
    <3>3. MapOf(tables') = [MapOf(tables) EXCEPT ![Kernel] = row]
      BY <2>5, <3>1, <3>2, OneSpace
    <3> QED
      BY <1>0, <3>3
  <2> QED
    BY <2>6, <2>7
<1>7. ASSUME NEW p \in Procs, NEW n \in Grants, VmMapRam(p, n)
      PROVE  k \in PM!Extended(m)
  <2> DEFINE e   == extent[p]
             row == [h \in Pages |-> IF h \in e .. e + n - 1 THEN PM!EmptyEntry
                                     ELSE m[p][h]]
  <2>1. p \in Spaces /\ e \in Pages
    BY <1>2, <1>7 DEF VmMapRam
  <2>2. \A r \in Spaces, h \in Pages : GetEntry(tables', r, h) =
          IF r = p /\ h \in e .. e + n - 1 THEN {} ELSE GetEntry(tables, r, h)
    BY <1>1, <1>7, VmMapRamWrites
  <2> HIDE DEF e
  <2>3. \A h \in Pages : Meaning[GetEntry(tables', p, h)] = row[h]
    BY <1>4, <2>1, <2>2, EmptyWord
  <2>4. row = [h \in Pages |-> Meaning[GetEntry(tables', p, h)]]
    BY <2>3
  <2>5. [m EXCEPT ![p] = row] \in PM!Extended(m)
    BY <2>1, ExtendedMaps
  <2> HIDE DEF row
  <2>6. k = [m EXCEPT ![p] = row]
    <3>1. \A r \in Spaces, h \in Pages :
            r # p => GetEntry(tables', r, h) = GetEntry(tables, r, h)
      BY <2>2
    <3>2. p \in Spaces
      BY <2>1
    <3>3. MapOf(tables') = [MapOf(tables) EXCEPT ![p] = row]
      BY <2>4, <3>1, <3>2, OneSpace
    <3> QED
      BY <1>0, <3>3
  <2> QED
    BY <2>5, <2>6
<1>8. ASSUME NEW p \in Procs, NEW g \in ReservedAt, NEW n \in Reserves,
             VmapPgdMemset(p, g, n)
      PROVE  k \in PM!Reserved(m)
  <2> DEFINE row == [h \in Pages |-> IF h \in g .. g + n - 1 THEN Meaning[Deadbeef]
                                     ELSE m[p][h]]
  <2>1. p \in Spaces /\ g \in Pages /\ g + n <= NumPages
    BY <1>2 DEF ReservesFit
  <2>2. \A r \in Spaces, h \in Pages : GetEntry(tables', r, h) =
          IF r = p /\ h \in g .. g + n - 1 THEN Deadbeef ELSE GetEntry(tables, r, h)
    BY <1>1, <1>8, <2>1, VmapPgdMemsetWrites
  <2>3. \A h \in Pages : Meaning[GetEntry(tables', p, h)] = row[h]
    BY <1>4, <2>1, <2>2
  <2>4. row = [h \in Pages |-> Meaning[GetEntry(tables', p, h)]]
    BY <2>3
  <2>5. [m EXCEPT ![p] = row] \in PM!Reserved(m)
    BY <2>1, ReservedMaps
  <2> HIDE DEF row
  <2>6. k = [m EXCEPT ![p] = row]
    <3>1. \A r \in Spaces, h \in Pages :
            r # p => GetEntry(tables', r, h) = GetEntry(tables, r, h)
      BY <2>2
    <3>2. p \in Spaces
      BY <2>1
    <3>3. MapOf(tables') = [MapOf(tables) EXCEPT ![p] = row]
      BY <2>4, <3>1, <3>2, OneSpace
    <3> QED
      BY <1>0, <3>3
  <2> QED
    BY <2>5, <2>6
<1>9. ASSUME NEW p \in Procs, NEW g \in 0 .. MaxPages - 1, PageDirty(p, g)
      PROVE  k \in PM!Dirtied(m)
  <2> DEFINE w == GetEntry(tables, p, g)
             e == PM!Touched(m[p][g])
  <2>1. p \in Spaces /\ g \in Pages /\ w \in Word /\ Present(w) /\ m[p][g] = Meaning[w]
    BY <1>2, <1>3, <1>4, <1>9 DEF PageDirty
  <2>2. \A r \in Spaces, h \in Pages : GetEntry(tables', r, h) =
          IF r = p /\ h = g THEN SETBIT(w, DIRTY) ELSE GetEntry(tables, r, h)
    BY <1>1, <1>9, PageDirtyWrites
  <2> HIDE DEF w
  <2>3. Meaning[GetEntry(tables', p, g)] = e
    BY <2>1, <2>2, DirtyWord
  <2>4. PM!InRam(m[p][g])
    BY <2>1, InRamIsPresent
  <2>5. [m EXCEPT ![p][g] = e] \in PM!Dirtied(m)
    BY <2>1, <2>4, DirtiedMaps
  <2> HIDE DEF e
  <2>6. k = [m EXCEPT ![p][g] = e]
    <3>1. \A r \in Spaces, h \in Pages :
            ~(r = p /\ h = g) => GetEntry(tables', r, h) = GetEntry(tables, r, h)
      BY <2>2
    <3>2. e = Meaning[GetEntry(tables', p, g)] /\ p \in Spaces /\ g \in Pages
      BY <2>1, <2>3
    <3>3. MapOf(tables') = [MapOf(tables) EXCEPT ![p][g] = e]
      BY <3>1, <3>2, OnePage
    <3> QED
      BY <1>0, <3>3
  <2> QED
    BY <2>5, <2>6
<1>10. ASSUME NEW p \in Procs, NEW g \in 0 .. MaxPages - 1, NEW f \in Frames,
              PageFault(p, g, f)
       PROVE  k \in PM!PagedIn(m)
  <2> DEFINE w == GetEntry(tables, p, g)
             e == PM!Loaded(m[p][g], f)
  <2>1. /\ p \in Spaces /\ g \in Pages /\ w \in Word /\ ~Present(w) /\ f \in Nat
        /\ m[p][g] = Meaning[w]
    BY <1>2, <1>3, <1>4, <1>10 DEF PageFault
  <2>2. \A r \in Spaces, h \in Pages : GetEntry(tables', r, h) =
          IF r = p /\ h = g THEN Incoming(w, f) ELSE GetEntry(tables, r, h)
    BY <1>1, <1>10, PageFaultWrites
  <2> HIDE DEF w
  <2>3. Meaning[GetEntry(tables', p, g)] = e
    BY <2>1, <2>2, LoadedWord DEF Incoming
  <2>4. ~PM!InRam(m[p][g])
    BY <2>1, InRamIsPresent
  <2>5. [m EXCEPT ![p][g] = e] \in PM!PagedIn(m)
    BY <2>1, <2>4, PagedInMaps
  <2> HIDE DEF e
  <2>6. k = [m EXCEPT ![p][g] = e]
    <3>1. \A r \in Spaces, h \in Pages :
            ~(r = p /\ h = g) => GetEntry(tables', r, h) = GetEntry(tables, r, h)
      BY <2>2
    <3>2. e = Meaning[GetEntry(tables', p, g)] /\ p \in Spaces /\ g \in Pages
      BY <2>1, <2>3
    <3>3. MapOf(tables') = [MapOf(tables) EXCEPT ![p][g] = e]
      BY <3>1, <3>2, OnePage
    <3> QED
      BY <1>0, <3>3
  <2> QED
    BY <2>5, <2>6
<1>11. ASSUME NEW p \in Procs, NEW g \in 0 .. MaxPages - 1, NEW v \in 0 .. MaxPages - 1,
              NEW s \in Slots, PageReplace(p, g, v, s)
       PROVE  k \in PM!Replaced(m)
  <2> DEFINE w   == GetEntry(tables, p, g)
             old == GetEntry(tables, p, v)
             e   == PM!Loaded(m[p][g], m[p][v].loc)
             b   == PM!SetSwap(m[p][v], s)
  <2>1. /\ p \in Spaces /\ g \in Pages /\ v \in Pages
        /\ w \in Word /\ ~Present(w) /\ old \in Word /\ Present(old)
        /\ m[p][g] = Meaning[w] /\ m[p][v] = Meaning[old] /\ g # v
    BY <1>2, <1>3, <1>4, <1>11 DEF PageReplace
  <2>2. \A r \in Spaces, h \in Pages : GetEntry(tables', r, h) =
          IF r = p /\ h = g THEN Incoming(w, Fpn(old))
          ELSE IF r = p /\ h = v THEN MapSlot(old, s)
          ELSE GetEntry(tables, r, h)
    BY <1>1, <1>11, PageReplaceWrites
  <2> HIDE DEF w, old
  <2>3. ~PM!InRam(m[p][g]) /\ PM!InRam(m[p][v]) /\ m[p][v].loc = Fpn(old)
    BY <2>1, InRamIsPresent
  <2>4. Fpn(old) \in Nat /\ s \in 0 .. 2^21 - 1
    BY NumberIsNatural, PageTableAssumption DEF Fpn
  <2>5. Meaning[GetEntry(tables', p, g)] = e
    BY <2>1, <2>2, <2>3, <2>4, LoadedWord DEF Incoming
  <2>6. Meaning[GetEntry(tables', p, v)] = b
    BY <2>1, <2>2, <2>4, SwappedWord
  <2>7. [m EXCEPT ![p][g] = e, ![p][v] = b] \in PM!Replaced(m)
    BY <2>1, <2>3, ReplacedMaps
  <2> HIDE DEF e, b
  <2>8. k = [m EXCEPT ![p][g] = e, ![p][v] = b]
    <3>1. \A r \in Spaces, h \in Pages :
            ~(r = p /\ h \in {g, v}) => GetEntry(tables', r, h) = GetEntry(tables, r, h)
      BY <2>2
    <3>2. /\ e = Meaning[GetEntry(tables', p, g)] /\ b = Meaning[GetEntry(tables', p, v)]
          /\ p \in Spaces /\ g \in Pages /\ v \in Pages /\ g # v
      BY <2>1, <2>5, <2>6
    <3>3. MapOf(tables') = [MapOf(tables) EXCEPT ![p][g] = e, ![p][v] = b]
      BY <3>1, <3>2, TwoPages
    <3> QED
      BY <1>0, <3>3
  <2> QED
    BY <2>7, <2>8
<1> QED
  BY <1>6, <1>7, <1>8, <1>9, <1>10, <1>11 DEF Next

\* Read through the walk, every space has a private map from pages to entries,
\* and each operation changes the entries it is for: the tables implement
\* PageMap, in spaces of any size and for frames and slots of any number.
THEOREM TablesImplementMap ==
  ASSUME SpacesFit, ReservesFit, AllWatched
  PROVE  Spec => RefinesPageMap
<1>1. Init => PM!MapInit
  <2>1. SUFFICES ASSUME Init PROVE PM!MapInit
    OBVIOUS
  <2>2. \A s \in Spaces, g \in Watched : Meaning[GetEntry(tables, s, g)] = PM!EmptyEntry
    BY <2>1, NoEntries, EmptyWord
  <2> QED
    BY <2>2 DEF PM!MapInit, PM!Spaces, Spaces
<1>2. PageTableInv /\ [Next]_vars =>
        [PM!MapNext]_[s \in Spaces |-> [g \in Watched |->
                        Meaning[GetEntry(tables, s, g)]]]
  <2>1. SUFFICES ASSUME PageTableInv, [Next]_vars
                 PROVE  [PM!MapNext]_[s \in Spaces |-> [g \in Watched |->
                                        Meaning[GetEntry(tables, s, g)]]]
    OBVIOUS
  <2>2. CASE Next
    BY <2>1, <2>2, NextIsMapNext
  <2>3. CASE UNCHANGED vars
    BY <2>3 DEF vars
  <2> QED
    BY <2>1, <2>2, <2>3
<1> QED
  BY <1>1, <1>2, PageTableInvHolds, PTL DEF Spec, RefinesPageMap, PM!MapSpec
=============================================================================
