---------------------------- MODULE SchedProofs ------------------------------
(* What the operations of the scheduler do to its queues: lemmas on the       *)
(* functions of queue.c, and from them one contract for each operation of     *)
(* sched.c, which the proofs of module OsProofs use as well.  Then the        *)
(* scheduler under its most general clients: for every number of levels,      *)
(* processes and CPUs, no operation loses or doubles a process, and no level  *)
(* is bypassed more often than the slots of a round allow.                    *)
EXTENDS SchedClients, SequenceTheorems, FiniteSetTheorems, WellFoundedInduction,
        TLAPS

\* No process is in queue q twice.
Once(q) == \A k, l \in 1 .. Len(q) : q[k] = q[l] => k = l

-----------------------------------------------------------------------------
(* Queues.                                                                    *)

\* What a queue and its entries are.
LEMMA QueueType ==
  ASSUME NEW q \in Seq(Procs)
  PROVE  /\ Len(q) \in Nat /\ DOMAIN q = 1 .. Len(q)
         /\ \A k \in 1 .. Len(q) : q[k] \in Procs /\ Occurs(q, q[k])
         /\ q = <<>> <=> Len(q) = 0
<1>1. Len(q) \in Nat /\ DOMAIN q = 1 .. Len(q) /\ \A k \in 1 .. Len(q) : q[k] \in Procs
  BY LenProperties, ElementOfSeq
<1>2. q = <<>> <=> Len(q) = 0
  BY EmptySeq
<1> QED
  BY <1>1, <1>2 DEF Occurs

\* A queue without doubles has room for a process it does not hold, if it has
\* room for all.
LEMMA HasRoom ==
  ASSUME NEW q \in Seq(Procs), Once(q), NEW p \in Procs, ~Occurs(q, p)
  PROVE  Len(q) < NumProcs
<1>1. Len(q) \in Nat /\ q \in [1 .. Len(q) -> Procs]
  BY LenProperties
<1>2. q \in [1 .. Len(q) -> Procs \ {p}]
  BY <1>1 DEF Occurs
<1>3. q \in Injection(1 .. Len(q), Procs \ {p})
  BY <1>2 DEF Once, Injection, IsInjective
<1>4. /\ IsFiniteSet(Procs) /\ Cardinality(Procs) = NumProcs
      /\ IsFiniteSet(Procs \ {p}) /\ Cardinality(Procs \ {p}) = NumProcs - 1
      /\ NumProcs \in Nat \ {0}
  <2>1. NumProcs \in Nat \ {0}
    BY SchedAssumption DEF Procs
  <2>2. IsFiniteSet(Procs) /\ Cardinality(Procs) = NumProcs
    BY <2>1, FS_Interval DEF Procs
  <2> QED
    <3>1. /\ IsFiniteSet(Procs \ {p})
          /\ Cardinality(Procs \ {p}) = Cardinality(Procs) - 1
      BY <2>2, FS_RemoveElement
    <3> QED
      BY <2>1, <2>2, <3>1
<1>5. Cardinality(1 .. Len(q)) <= NumProcs - 1
  BY <1>3, <1>4, FS_Injection
<1>6. Cardinality(1 .. Len(q)) = Len(q)
  BY <1>1, FS_Interval
<1> QED
  BY <1>1, <1>4, <1>5, <1>6

\* enqueue into a queue that has room.
LEMMA EnqueueRoom ==
  ASSUME NEW q \in Seq(Procs), NEW p \in Procs, Len(q) < MAX_QUEUE_SIZE
  PROVE  /\ Enqueue(q, p) \in Seq(Procs)
         /\ Len(Enqueue(q, p)) = Len(q) + 1 /\ Len(Enqueue(q, p)) <= MAX_QUEUE_SIZE
         /\ \A x : Occurs(Enqueue(q, p), x) <=> Occurs(q, x) \/ x = p
         /\ Once(q) /\ ~Occurs(q, p) => Once(Enqueue(q, p))
<1> DEFINE r == Enqueue(q, p)
<1>1. /\ Len(q) \in Nat /\ MAX_QUEUE_SIZE \in Nat
      /\ r \in Seq(Procs) /\ Len(r) = Len(q) + 1
      /\ r[Len(q) + 1] = p
      /\ \A k \in 1 .. Len(q) : r[k] = q[k]
  BY LenProperties, AppendProperties, SchedAssumption DEF Enqueue
<1> HIDE DEF r
<1>2. \A x : Occurs(r, x) <=> Occurs(q, x) \/ x = p
  BY <1>1 DEF Occurs
<1>3. Once(q) /\ ~Occurs(q, p) => Once(r)
  BY <1>1 DEF Occurs, Once
<1> QED
  BY <1>1, <1>2, <1>3 DEF r

\* enqueue into any queue: the process is at its end, or dropped.
LEMMA EnqueueAny ==
  ASSUME NEW q \in Seq(Procs), NEW p \in Procs, Len(q) <= MAX_QUEUE_SIZE
  PROVE  /\ Enqueue(q, p) \in Seq(Procs)
         /\ Len(Enqueue(q, p)) <= MAX_QUEUE_SIZE
         /\ \A x : Occurs(q, x) => Occurs(Enqueue(q, p), x)
         /\ \A x : Occurs(Enqueue(q, p), x) => Occurs(q, x) \/ x = p
         /\ Once(q) /\ ~Occurs(q, p) => Once(Enqueue(q, p))
<1>1. CASE Len(q) < MAX_QUEUE_SIZE
  BY <1>1, EnqueueRoom
<1>2. CASE ~(Len(q) < MAX_QUEUE_SIZE)
  BY <1>2 DEF Enqueue
<1> QED
  BY <1>1, <1>2

\* The head of a queue and the rest of it.
LEMMA TailOfQueue ==
  ASSUME NEW q \in Seq(Procs), q # <<>>
  PROVE  /\ Head(q) \in Procs /\ Occurs(q, Head(q))
         /\ Tail(q) \in Seq(Procs) /\ Len(Tail(q)) = Len(q) - 1
         /\ Once(q) => /\ Once(Tail(q))
                       /\ \A x : Occurs(Tail(q), x) <=> Occurs(q, x) /\ x # Head(q)
<1> DEFINE t == Tail(q)
<1>1. /\ Len(q) \in Nat \ {0} /\ Head(q) = q[1] /\ q[1] \in Procs
      /\ t \in Seq(Procs) /\ Len(t) = Len(q) - 1
      /\ \A k \in 1 .. Len(q) - 1 : t[k] = q[k + 1]
  BY HeadTailProperties, EmptySeq, ElementOfSeq
<1> HIDE DEF t
<1>2. Occurs(q, Head(q))
  BY <1>1 DEF Occurs
<1>3. Once(q) => Once(t)
  BY <1>1 DEF Once
<1>4. ASSUME Once(q), NEW x, Occurs(t, x) PROVE Occurs(q, x) /\ x # Head(q)
  <2>1. PICK k \in 1 .. Len(q) - 1 : q[k + 1] = x
    BY <1>1, <1>4 DEF Occurs
  <2>2. k + 1 \in 1 .. Len(q) /\ 1 \in 1 .. Len(q) /\ k + 1 # 1
    BY <1>1
  <2> QED
    BY <1>1, <1>4, <2>1, <2>2 DEF Occurs, Once
<1>5. ASSUME NEW x, Occurs(q, x), x # Head(q) PROVE Occurs(t, x)
  <2>1. PICK k \in 1 .. Len(q) : q[k] = x
    BY <1>5 DEF Occurs
  <2>2. k - 1 \in 1 .. Len(q) - 1 /\ t[k - 1] = x
    BY <1>1, <1>5, <2>1
  <2> QED
    BY <1>1, <2>2 DEF Occurs
<1> QED
  BY <1>1, <1>2, <1>3, <1>4, <1>5 DEF t

\* purgequeue takes its process out of a queue without doubles, and no other.
LEMMA PurgeQueue ==
  ASSUME NEW q \in Seq(Procs), Once(q), NEW p
  PROVE  /\ Purge(q, p) \in Seq(Procs) /\ Once(Purge(q, p))
         /\ Len(Purge(q, p)) = IF Occurs(q, p) THEN Len(q) - 1 ELSE Len(q)
         /\ \A x : Occurs(Purge(q, p), x) <=> Occurs(q, x) /\ x # p
<1> DEFINE r == Purge(q, p)
           m == FirstIndex(q, p)
<1>1. Len(q) \in Nat /\ \A k \in 1 .. Len(q) : q[k] \in Procs
  BY QueueType
<1>2. CASE ~Occurs(q, p)
  BY <1>2 DEF Purge, Occurs
<1>3. CASE Occurs(q, p)
  <2>1. m \in 1 .. Len(q) /\ q[m] = p
    <3>1. PICK k \in 1 .. Len(q) : q[k] = p
      BY <1>3 DEF Occurs
    <3>2. \A j \in 1 .. k - 1 : q[j] # p
      BY <1>1, <3>1 DEF Once
    <3> QED
      BY <3>1, <3>2 DEF FirstIndex
  <2>2. /\ r = [j \in 1 .. Len(q) - 1 |-> IF j < m THEN q[j] ELSE q[j + 1]]
        /\ Len(q) - 1 \in Nat
    BY <1>1, <1>3, <2>1 DEF Purge
  <2> HIDE DEF r, m
  <2>3. r \in [1 .. Len(q) - 1 -> Procs]
    BY <1>1, <2>1, <2>2
  <2>4. r \in Seq(Procs) /\ Len(r) = Len(q) - 1
    BY <2>2, <2>3, SeqDef, LenProperties
  <2>5. \A j \in 1 .. Len(r) : r[j] = IF j < m THEN q[j] ELSE q[j + 1]
    BY <2>2, <2>4
  <2>6. Once(r)
    BY <1>1, <2>1, <2>4, <2>5 DEF Once
  <2>7. ASSUME NEW x, Occurs(r, x) PROVE Occurs(q, x) /\ x # p
    <3>1. PICK j \in 1 .. Len(r) : r[j] = x
      BY <2>7 DEF Occurs
    <3>2. PICK k \in 1 .. Len(q) : q[k] = x /\ k # m
      BY <1>1, <2>1, <2>4, <2>5, <3>1
    <3> QED
      BY <1>1, <2>1, <3>2 DEF Occurs, Once
  <2>8. ASSUME NEW x, Occurs(q, x), x # p PROVE Occurs(r, x)
    <3>1. PICK k \in 1 .. Len(q) : q[k] = x
      BY <2>8 DEF Occurs
    <3>2. CASE k < m
      BY <1>1, <2>1, <2>4, <2>5, <3>1, <3>2 DEF Occurs
    <3>3. CASE ~(k < m)
      <4>1. k - 1 \in 1 .. Len(r) /\ ~(k - 1 < m) /\ k - 1 + 1 = k
        BY <1>1, <2>1, <2>4, <2>8, <3>1, <3>3
      <4> QED
        BY <2>5, <3>1, <4>1 DEF Occurs
    <3> QED
      BY <3>2, <3>3
  <2> QED
    BY <1>3, <2>4, <2>6, <2>7, <2>8 DEF r
<1> QED
  BY <1>2, <1>3

-----------------------------------------------------------------------------
(* The operations of sched.c.                                                 *)

InQueue(p) == \E i \in Prios : Occurs(ready[i], p)

\* No process is in two places of the ready queues or of running_list.
NoDoubles ==
  /\ Once(running)
  /\ \A i \in Prios : Once(ready[i])
  /\ \A i, j \in Prios, p \in Procs :
       Occurs(ready[i], p) /\ Occurs(ready[j], p) => i = j

SchedInv == SchedTypeOK /\ NoDoubles

\* An empty scheduler.
LEMMA SchedInitInv ==
  ASSUME SchedInit, prio \in [Procs -> Prios]
  PROVE  SchedInv /\ \A p : ~InQueue(p) /\ ~Occurs(running, p)
<1>1. /\ MAX_PRIO \in Nat \ {0} /\ MAX_QUEUE_SIZE \in Nat \ {0}
      /\ <<>> \in Seq(Procs) /\ Len(<<>>) = 0
  BY SchedAssumption, EmptySeq
<1>2. \A i \in Prios : slot[i] = MAX_PRIO - i /\ slot[i] \in 0 .. MAX_PRIO
  BY <1>1 DEF SchedInit, FullSlots, Prios
<1>3. SchedTypeOK
  BY <1>1, <1>2 DEF SchedInit, SchedTypeOK, FullSlots
<1>4. NoDoubles /\ \A p : ~InQueue(p) /\ ~Occurs(running, p)
  BY <1>1 DEF SchedInit, NoDoubles, Once, Occurs, InQueue
<1> QED
  BY <1>3, <1>4 DEF SchedInv

\* What one queue of the scheduler is.
LEMMA SchedQueues ==
  ASSUME SchedInv
  PROVE  /\ running \in Seq(Procs) /\ Len(running) <= MAX_QUEUE_SIZE /\ Once(running)
         /\ ready \in [Prios -> Seq(Procs)] /\ prio \in [Procs -> Prios]
         /\ \A i \in Prios : /\ ready[i] \in Seq(Procs) /\ Once(ready[i])
                             /\ Len(ready[i]) <= MAX_QUEUE_SIZE
  BY DEF SchedInv, SchedTypeOK, NoDoubles

\* A process that is in no ready queue enters that of one level, where it finds
\* room if a queue has room for all.
LEMMA EnterQueue ==
  ASSUME SchedInv, NEW p \in Procs, NEW i \in Prios, ~InQueue(p),
         ready' = [ready EXCEPT ![i] = Enqueue(@, p)],
         running' \in Seq(Procs), Len(running') <= MAX_QUEUE_SIZE, Once(running'),
         UNCHANGED slot, prio' \in [Procs -> Prios]
  PROVE  /\ SchedInv'
         /\ \A x : InQueue(x) => InQueue(x)'
         /\ \A x : InQueue(x)' => InQueue(x) \/ x = p
         /\ NumProcs <= MAX_QUEUE_SIZE => InQueue(p)'
<1> DEFINE r == Enqueue(ready[i], p)
<1>1. /\ \A j \in Prios : ready'[j] = IF j = i THEN r ELSE ready[j]
      /\ r \in Seq(Procs) /\ Len(r) <= MAX_QUEUE_SIZE /\ Once(r)
      /\ \A x : Occurs(ready[i], x) => Occurs(r, x)
      /\ \A x : Occurs(r, x) => Occurs(ready[i], x) \/ x = p
  BY SchedQueues, EnqueueAny DEF InQueue
<1>2. NumProcs <= MAX_QUEUE_SIZE => Occurs(r, p)
  <2>1. ready[i] \in Seq(Procs) /\ Once(ready[i]) /\ ~Occurs(ready[i], p)
    BY SchedQueues DEF InQueue
  <2>2. Len(ready[i]) < NumProcs /\ Len(ready[i]) \in Nat
    BY <2>1, HasRoom, LenProperties
  <2>3. NumProcs <= MAX_QUEUE_SIZE => Len(ready[i]) < MAX_QUEUE_SIZE
    BY <2>2, SchedAssumption
  <2> QED
    BY <2>1, <2>3, EnqueueRoom
<1> HIDE DEF r
<1>3. SchedTypeOK'
  BY <1>1, SchedQueues DEF SchedInv, SchedTypeOK
<1>4. ASSUME NEW j \in Prios, NEW k \in Prios, NEW x \in Procs,
             Occurs(ready'[j], x), Occurs(ready'[k], x)
      PROVE  j = k
  <2>1. CASE x = p
    BY <1>1, <1>4, <2>1 DEF InQueue
  <2>2. CASE x # p
    BY <1>1, <1>4, <2>2 DEF SchedInv, NoDoubles
  <2> QED
    BY <2>1, <2>2
<1>5. NoDoubles'
  BY <1>1, <1>4, SchedQueues DEF NoDoubles
<1> QED
  BY <1>1, <1>2, <1>3, <1>5 DEF SchedInv, InQueue

\* add_proc of a process that is in no ready queue.
LEMMA AddProcContract ==
  ASSUME SchedInv, NEW p \in Procs, NEW level \in Prios, ~InQueue(p),
         AddProc(p, level)
  PROVE  /\ SchedInv' /\ UNCHANGED running
         /\ \A x : InQueue(x) => InQueue(x)'
         /\ \A x : InQueue(x)' => InQueue(x) \/ x = p
         /\ NumProcs <= MAX_QUEUE_SIZE => InQueue(p)'
<1>1. /\ ready' = [ready EXCEPT ![level] = Enqueue(@, p)] /\ UNCHANGED slot
      /\ running' = running /\ prio' \in [Procs -> Prios]
      /\ running' \in Seq(Procs) /\ Len(running') <= MAX_QUEUE_SIZE /\ Once(running')
  BY SchedQueues DEF AddProc
<1> QED
  BY <1>1, EnterQueue

\* put_proc of a process that is in no ready queue.
LEMMA PutProcContract ==
  ASSUME SchedInv, NEW p \in Procs, ~InQueue(p), PutProc(p)
  PROVE  /\ SchedInv'
         /\ \A x : InQueue(x) => InQueue(x)'
         /\ \A x : InQueue(x)' => InQueue(x) \/ x = p
         /\ NumProcs <= MAX_QUEUE_SIZE => InQueue(p)'
         /\ \A x : Occurs(running, x)' <=> Occurs(running, x) /\ x # p
         /\ Len(running') = IF Occurs(running, p) THEN Len(running) - 1
                                                 ELSE Len(running)
<1>1. /\ prio[p] \in Prios /\ prio' \in [Procs -> Prios] /\ UNCHANGED slot
      /\ ready' = [ready EXCEPT ![prio[p]] = Enqueue(@, p)]
  BY SchedQueues DEF PutProc
<1>2. /\ running' \in Seq(Procs) /\ Once(running')
      /\ Len(running') = IF Occurs(running, p) THEN Len(running) - 1
                                              ELSE Len(running)
      /\ \A x : Occurs(running', x) <=> Occurs(running, x) /\ x # p
  BY SchedQueues, PurgeQueue DEF PutProc
<1>3. Len(running') <= MAX_QUEUE_SIZE
  BY <1>2, SchedQueues, SchedAssumption, LenProperties
<1> QED
  BY <1>1, <1>2, <1>3, EnterQueue

\* sched_remove_proc.
LEMMA RemoveProcContract ==
  ASSUME SchedInv, NEW p \in Procs, RemoveProc(p)
  PROVE  /\ SchedInv'
         /\ \A x : InQueue(x)' <=> InQueue(x) /\ x # p
         /\ \A x : Occurs(running, x)' <=> Occurs(running, x) /\ x # p
         /\ Len(running') = IF Occurs(running, p) THEN Len(running) - 1
                                                 ELSE Len(running)
<1>1. /\ running' \in Seq(Procs) /\ Once(running')
      /\ Len(running') = IF Occurs(running, p) THEN Len(running) - 1
                                              ELSE Len(running)
      /\ \A x : Occurs(running', x) <=> Occurs(running, x) /\ x # p
  BY SchedQueues, PurgeQueue DEF RemoveProc
<1>2. Len(running') <= MAX_QUEUE_SIZE
  BY <1>1, SchedQueues, SchedAssumption, LenProperties
<1>3. ASSUME NEW i \in Prios
      PROVE  /\ ready'[i] \in Seq(Procs) /\ Once(ready'[i])
             /\ Len(ready'[i]) <= MAX_QUEUE_SIZE
             /\ \A x : Occurs(ready'[i], x) <=> Occurs(ready[i], x) /\ x # p
  <2>1. /\ ready'[i] = Purge(ready[i], p)
        /\ ready[i] \in Seq(Procs) /\ Once(ready[i])
        /\ Len(ready[i]) <= MAX_QUEUE_SIZE /\ Len(ready[i]) \in Nat
    BY SchedQueues, LenProperties DEF RemoveProc
  <2>2. /\ ready'[i] \in Seq(Procs) /\ Once(ready'[i])
        /\ Len(ready'[i]) = IF Occurs(ready[i], p) THEN Len(ready[i]) - 1
                                                  ELSE Len(ready[i])
        /\ \A x : Occurs(ready'[i], x) <=> Occurs(ready[i], x) /\ x # p
    BY <2>1, PurgeQueue
  <2> QED
    BY <2>1, <2>2, SchedAssumption
<1>4. ready' \in [Prios -> Seq(Procs)]
  BY <1>3 DEF RemoveProc
<1>5. SchedTypeOK'
  BY <1>1, <1>2, <1>3, <1>4 DEF SchedInv, SchedTypeOK, RemoveProc
<1>6. NoDoubles'
  BY <1>1, <1>3 DEF SchedInv, NoDoubles
<1> QED
  BY <1>1, <1>3, <1>5, <1>6 DEF SchedInv, InQueue

\* The level that get_proc serves.
LEMMA LowestLevel ==
  ASSUME NEW S, S \subseteq Prios, S # {}
  PROVE  Lowest(S) \in S /\ \A j \in S : Lowest(S) <= j
<1>1. S \subseteq Nat
  BY SchedAssumption DEF Prios
<1>2. PICK i \in S : \A j \in S : <<j, i>> \notin OpToRel(<, Nat)
  BY <1>1, WFMin, NatLessThanWellFounded
<1>3. \A j \in S : i <= j
  <2>1. \A j \in S : ~(j < i)
    BY <1>1, <1>2 DEF OpToRel
  <2> QED
    BY <1>1, <2>1
<1> QED
  BY <1>3 DEF Lowest

\* Level i hands out its first process, charged to the slots s.
LEMMA TakeFromContract ==
  ASSUME SchedInv, NEW i \in Prios, NEW s, NEW p, TakeFrom(i, s, p),
         UNCHANGED prio, ready[i] # <<>>, Len(running) < MAX_QUEUE_SIZE,
         s \in [Prios -> 0 .. MAX_PRIO], s[i] > 0,
         \A j \in Prios : s[j] <= MAX_PRIO - j,
         \A x : ~(InQueue(x) /\ Occurs(running, x))
  PROVE  /\ SchedInv' /\ p \in Procs /\ InQueue(p)
         /\ \A x : InQueue(x)' <=> InQueue(x) /\ x # p
         /\ \A x : Occurs(running, x)' <=> Occurs(running, x) \/ x = p
         /\ Len(running') = Len(running) + 1
<1> DEFINE t == Tail(ready[i])
<1>1. /\ ready[i] \in Seq(Procs) /\ Once(ready[i])
      /\ Len(ready[i]) <= MAX_QUEUE_SIZE /\ Len(ready[i]) \in Nat
      /\ p = Head(ready[i])
      /\ \A j \in Prios : ready'[j] = IF j = i THEN t ELSE ready[j]
      /\ running' = Enqueue(running, p)
      /\ slot' = [s EXCEPT ![i] = @ - 1]
  BY SchedQueues, LenProperties DEF TakeFrom
<1>2. /\ p \in Procs /\ Occurs(ready[i], p)
      /\ t \in Seq(Procs) /\ Len(t) = Len(ready[i]) - 1 /\ Once(t)
      /\ \A x : Occurs(t, x) <=> Occurs(ready[i], x) /\ x # p
  BY <1>1, TailOfQueue
<1>3. Len(t) <= MAX_QUEUE_SIZE
  BY <1>1, <1>2, SchedAssumption
<1>4. ready' \in [Prios -> Seq(Procs)]
  BY <1>1, <1>2, SchedQueues DEF TakeFrom
<1> HIDE DEF t
<1>5. InQueue(p) /\ ~Occurs(running, p)
  BY <1>2 DEF InQueue
<1>6. /\ running' \in Seq(Procs) /\ Len(running') <= MAX_QUEUE_SIZE
      /\ Len(running') = Len(running) + 1 /\ Once(running')
      /\ \A x : Occurs(running', x) <=> Occurs(running, x) \/ x = p
  BY <1>1, <1>2, <1>5, SchedQueues, EnqueueRoom
<1>7. /\ slot' \in [Prios -> 0 .. MAX_PRIO]
      /\ \A j \in Prios : slot'[j] <= MAX_PRIO - j
  <2>1. /\ s[i] - 1 \in 0 .. MAX_PRIO /\ s[i] - 1 <= MAX_PRIO - i
        /\ MAX_PRIO \in Nat /\ i \in Nat
    BY SchedAssumption DEF Prios
  <2> QED
    BY <1>1, <2>1
<1>8. SchedTypeOK'
  BY <1>1, <1>2, <1>3, <1>4, <1>6, <1>7, SchedQueues DEF SchedTypeOK
<1>9. NoDoubles'
  BY <1>1, <1>2, <1>6 DEF SchedInv, NoDoubles
<1>10. \A x : InQueue(x)' <=> InQueue(x) /\ x # p
  <2>1. ASSUME NEW x, InQueue(x)' PROVE InQueue(x) /\ x # p
    <3>1. PICK j \in Prios : Occurs(ready'[j], x)
      BY <2>1 DEF InQueue
    <3>2. Occurs(ready[j], x)
      BY <1>1, <1>2, <3>1
    <3>3. x \in Procs
      <4>1. PICK k \in 1 .. Len(ready[j]) : ready[j][k] = x
        BY <3>2 DEF Occurs
      <4> QED
        BY <4>1, SchedQueues, QueueType
    <3>4. x # p
      BY <1>1, <1>2, <3>1, <3>2 DEF SchedInv, NoDoubles
    <3> QED
      BY <3>2, <3>4 DEF InQueue
  <2>2. ASSUME NEW x, InQueue(x), x # p PROVE InQueue(x)'
    BY <1>1, <1>2, <2>2 DEF InQueue
  <2> QED
    BY <2>1, <2>2
<1> QED
  BY <1>2, <1>5, <1>6, <1>8, <1>9, <1>10 DEF SchedInv

\* get_proc: the caller gets a process that was waiting, or there was none.
LEMMA GetProcContract ==
  ASSUME SchedInv, NEW p, GetProc(p),
         \A x : InQueue(x) => Len(running) < MAX_QUEUE_SIZE,
         \A x : ~(InQueue(x) /\ Occurs(running, x))
  PROVE  /\ SchedInv'
         /\ p = NULL => UNCHANGED <<ready, running>> /\ \A x : ~InQueue(x)
         /\ p # NULL => /\ p \in Procs /\ InQueue(p)
                        /\ \A x : InQueue(x)' <=> InQueue(x) /\ x # p
                        /\ \A x : Occurs(running, x)' <=> Occurs(running, x) \/ x = p
                        /\ Len(running') = Len(running) + 1
<1>1. /\ slot \in [Prios -> 0 .. MAX_PRIO] /\ UNCHANGED prio
      /\ \A i \in Prios : slot[i] <= MAX_PRIO - i
      /\ NULL \notin Procs
  BY SchedAssumption DEF SchedInv, SchedTypeOK, GetProc, NULL, Procs
<1>2. ASSUME NEW i \in Prios, ready[i] # <<>> PROVE Len(running) < MAX_QUEUE_SIZE
  <2>1. Occurs(ready[i], Head(ready[i]))
    BY <1>2, SchedQueues, TailOfQueue
  <2> QED
    BY <2>1 DEF InQueue
<1>3. CASE Waiting = {} /\ p = NULL /\ UNCHANGED <<ready, slot, running>>
  <2>1. \A i \in Prios : ready[i] = <<>>
    BY <1>3 DEF Waiting
  <2>2. \A x : ~InQueue(x)
    BY <2>1, EmptySeq DEF InQueue, Occurs
  <2>3. SchedInv'
    BY <1>1, <1>3 DEF SchedInv, SchedTypeOK, NoDoubles
  <2> QED
    BY <1>3, <2>2, <2>3
<1>4. CASE Budgeted # {} /\ TakeFrom(Lowest(Budgeted), slot, p)
  <2> DEFINE i == Lowest(Budgeted)
  <2>1. i \in Budgeted
    BY <1>4, LowestLevel DEF Budgeted, Waiting
  <2>2. i \in Prios /\ ready[i] # <<>> /\ slot[i] > 0
    BY <2>1 DEF Budgeted, Waiting
  <2> HIDE DEF i
  <2>3. TakeFrom(i, slot, p)
    BY <1>4 DEF i
  <2> QED
    BY <1>1, <1>2, <2>2, <2>3, TakeFromContract
<1>5. CASE Waiting # {} /\ TakeFrom(Lowest(Waiting), FullSlots, p)
  <2> DEFINE i == Lowest(Waiting)
  <2>1. i \in Waiting
    BY <1>5, LowestLevel DEF Waiting
  <2>2. i \in Prios /\ ready[i] # <<>>
    BY <2>1 DEF Waiting
  <2>3. /\ FullSlots \in [Prios -> 0 .. MAX_PRIO]
        /\ \A j \in Prios : FullSlots[j] <= MAX_PRIO - j /\ FullSlots[j] > 0
    BY SchedAssumption DEF FullSlots, Prios
  <2> HIDE DEF i
  <2>4. TakeFrom(i, FullSlots, p)
    BY <1>5 DEF i
  <2> QED
    BY <1>1, <1>2, <2>2, <2>3, <2>4, TakeFromContract
<1> QED
  BY <1>3, <1>4, <1>5 DEF GetProc

-----------------------------------------------------------------------------
(* The clients.                                                               *)

\* running_list has room for a process of every CPU.
RunningFits == NumClients <= MAX_QUEUE_SIZE

\* Where the processes are.
HeldInv ==
  /\ held \subseteq Procs
  /\ Len(running) = Cardinality(held)
  /\ \A p : p \in held <=> Occurs(running, p)
  /\ \A p \in held : ~InQueue(p)

-----------------------------------------------------------------------------
(* Turns.                                                                     *)

Budgets == {s \in [Prios -> 0 .. MAX_PRIO] : \A j \in Prios : s[j] <= MAX_PRIO - j}

\* The dispatches that can come before level i is served once, if s are the
\* slots left.
Ahead(s, i) ==
  IF s[i] > 0 THEN Cardinality(Turns(s, i))
  ELSE Cardinality(Turns(s, MAX_PRIO)) + SlotsAbove(i)

\* A level has been bypassed so often that what is ahead of it still fits.
BypassInv ==
  /\ bypass \in [Prios -> Nat]
  /\ \A i \in Prios : bypass[i] + Ahead(slot, i) <= BypassBound(i)

\* There are finitely many turns.
LEMMA TurnsFinite ==
  ASSUME NEW s, NEW i
  PROVE  IsFiniteSet(Turns(s, i)) /\ Cardinality(Turns(s, i)) \in Nat
<1>1. MAX_PRIO - 1 \in Int /\ MAX_PRIO \in Int
  BY SchedAssumption
<1>2. IsFiniteSet(Prios) /\ IsFiniteSet(1 .. MAX_PRIO)
  BY <1>1, FS_Interval DEF Prios
<1>3. IsFiniteSet(Prios \X (1 .. MAX_PRIO))
  BY <1>2, FS_Product
<1>4. IsFiniteSet(Turns(s, i))
  BY <1>3, FS_Subset DEF Turns
<1> QED
  BY <1>4, FS_CardinalityType

\* More slots and more levels mean more turns.
LEMMA TurnsMonotonic ==
  ASSUME NEW s \in Budgets, NEW t \in Budgets, \A j \in Prios : s[j] <= t[j],
         NEW i \in Int, NEW k \in Int, i <= k
  PROVE  Cardinality(Turns(s, i)) <= Cardinality(Turns(t, k))
<1>1. Turns(s, i) \subseteq Turns(t, k)
  <2> SUFFICES ASSUME NEW u \in Turns(s, i) PROVE u \in Turns(t, k)
    OBVIOUS
  <2>1. /\ u \in Prios \X (1 .. MAX_PRIO) /\ u[1] < i /\ u[2] <= s[u[1]]
        /\ u[1] \in Prios /\ u[2] \in 1 .. MAX_PRIO
    BY DEF Turns
  <2>2. /\ u[1] \in Int /\ u[2] \in Int /\ s[u[1]] \in Int /\ t[u[1]] \in Int
        /\ s[u[1]] <= t[u[1]]
    BY <2>1, SchedAssumption DEF Budgets, Prios
  <2>3. u[1] < k /\ u[2] <= t[u[1]]
    BY <2>1, <2>2
  <2> QED
    BY <2>1, <2>3 DEF Turns
<1> QED
  BY <1>1, TurnsFinite, FS_Subset

\* A dispatch from level j uses up one turn of the levels above i.
LEMMA TurnTaken ==
  ASSUME NEW s \in Budgets, NEW t \in Budgets, NEW j \in Prios, NEW i \in Int,
         j < i, s[j] > 0, t[j] = s[j] - 1, \A k \in Prios \ {j} : t[k] = s[k]
  PROVE  Cardinality(Turns(t, i)) = Cardinality(Turns(s, i)) - 1
<1> DEFINE last == <<j, s[j]>>
<1>1. j \in Int /\ s[j] \in 1 .. MAX_PRIO
  BY SchedAssumption DEF Budgets, Prios
<1>2. last \in Turns(s, i)
  BY <1>1 DEF Turns
<1>3. Turns(t, i) = Turns(s, i) \ {last}
  <2>1. ASSUME NEW u \in Prios \X (1 .. MAX_PRIO)
        PROVE  u \in Turns(t, i) <=> u \in Turns(s, i) \ {last}
    <3>1. u[1] \in Prios /\ u[2] \in 1 .. MAX_PRIO /\ u = <<u[1], u[2]>>
      OBVIOUS
    <3>2. CASE u[1] = j
      <4>1. u = last <=> u[2] = s[j]
        BY <3>1, <3>2
      <4>2. u[2] <= s[j] - 1 <=> u[2] <= s[j] /\ u[2] # s[j]
        BY <1>1, <3>1
      <4> QED
        BY <3>2, <4>1, <4>2 DEF Turns
    <3>3. CASE u[1] # j
      <4>1. u # last /\ t[u[1]] = s[u[1]]
        BY <3>1, <3>3
      <4> QED
        BY <4>1 DEF Turns
    <3> QED
      BY <3>2, <3>3
  <2>2. Turns(t, i) \subseteq Prios \X (1 .. MAX_PRIO)
        /\ Turns(s, i) \subseteq Prios \X (1 .. MAX_PRIO)
    BY DEF Turns
  <2> QED
    BY <2>1, <2>2
<1> HIDE DEF last
<1> QED
  BY <1>2, <1>3, TurnsFinite, FS_RemoveElement

\* A full round gives level i its own turns.
LEMMA TurnsOfLevel ==
  ASSUME NEW i \in Prios, NEW s \in Budgets, s[i] = 0
  PROVE  Cardinality(Turns(s, MAX_PRIO)) + FullSlots[i] <= SlotsAbove(MAX_PRIO)
<1> DEFINE all == Turns(FullSlots, MAX_PRIO)
           own == {i} \X (1 .. FullSlots[i])
<1>1. /\ MAX_PRIO \in Nat /\ i \in Nat /\ i < MAX_PRIO
      /\ FullSlots[i] \in Nat /\ FullSlots[i] <= MAX_PRIO
      /\ \A j \in Prios : FullSlots[j] = MAX_PRIO - j /\ j \in Nat
  BY SchedAssumption DEF FullSlots, Prios
<1>2. IsFiniteSet(own) /\ Cardinality(own) = FullSlots[i]
  <2>1. IsFiniteSet(1 .. FullSlots[i]) /\ Cardinality(1 .. FullSlots[i]) = FullSlots[i]
    BY <1>1, FS_Interval
  <2>2. IsFiniteSet({i}) /\ Cardinality({i}) = 1
    BY FS_Singleton
  <2>3. /\ IsFiniteSet(own)
        /\ Cardinality(own) = Cardinality({i}) * Cardinality(1 .. FullSlots[i])
    BY <2>1, <2>2, FS_Product
  <2> HIDE DEF own
  <2> QED
    BY <1>1, <2>1, <2>2, <2>3
<1>3. own \subseteq all
  <2> SUFFICES ASSUME NEW u \in own PROVE u \in all
    OBVIOUS
  <2>1. u = <<i, u[2]>> /\ u[2] \in 1 .. FullSlots[i] /\ u[1] = i
    OBVIOUS
  <2>2. u \in Prios \X (1 .. MAX_PRIO) /\ u[2] <= FullSlots[i]
    BY <1>1, <2>1
  <2> QED
    BY <1>1, <2>1, <2>2 DEF Turns
<1>4. Turns(s, MAX_PRIO) \subseteq all \ own
  <2> SUFFICES ASSUME NEW u \in Turns(s, MAX_PRIO) PROVE u \in all \ own
    OBVIOUS
  <2>1. /\ u \in Prios \X (1 .. MAX_PRIO) /\ u[1] \in Prios /\ u[2] \in 1 .. MAX_PRIO
        /\ u[1] < MAX_PRIO /\ u[2] <= s[u[1]]
    BY DEF Turns
  <2> DEFINE j == u[1]
  <2>2. s[j] \in Int /\ s[j] <= FullSlots[j] /\ FullSlots[j] \in Int
    <3>1. j \in Prios
      BY <2>1
    <3> HIDE DEF j
    <3> QED
      BY <1>1, <3>1 DEF Budgets
  <2>3. u[2] <= FullSlots[u[1]] /\ u[1] # i
    BY <2>1, <2>2
  <2> QED
    BY <2>1, <2>3 DEF Turns
<1>5. IsFiniteSet(all) /\ Cardinality(all) \in Nat
  BY TurnsFinite
<1> HIDE DEF all, own
<1>6. /\ IsFiniteSet(all \ own)
      /\ Cardinality(all \ own) = Cardinality(all) - Cardinality(own)
  <2>1. all \cap own = own
    BY <1>3
  <2> QED
    BY <1>5, <2>1, FS_Difference
<1>7. Cardinality(Turns(s, MAX_PRIO)) <= Cardinality(all \ own)
  BY <1>4, <1>6, FS_Subset
<1>8. Cardinality(Turns(s, MAX_PRIO)) \in Nat
  BY TurnsFinite
<1>9. Cardinality(Turns(s, MAX_PRIO)) + FullSlots[i] <= Cardinality(all)
  BY <1>1, <1>2, <1>5, <1>6, <1>7, <1>8
<1> QED
  BY <1>9 DEF all, SlotsAbove

\* What is ahead of a level never exceeds the bound.
LEMMA AheadBound ==
  ASSUME NEW i \in Prios, NEW s \in Budgets
  PROVE  Ahead(s, i) \in Nat /\ Ahead(s, i) <= BypassBound(i) /\ BypassBound(i) \in Nat
<1>1. /\ MAX_PRIO \in Nat /\ i \in Nat /\ i < MAX_PRIO
      /\ FullSlots \in Budgets /\ FullSlots[i] \in Nat
      /\ \A j \in Prios : s[j] <= FullSlots[j]
      /\ s[i] \in Nat
  BY SchedAssumption DEF FullSlots, Prios, Budgets
<1>2. /\ Cardinality(Turns(s, i)) \in Nat /\ Cardinality(Turns(s, MAX_PRIO)) \in Nat
      /\ SlotsAbove(i) \in Nat /\ SlotsAbove(MAX_PRIO) \in Nat
  BY TurnsFinite DEF SlotsAbove
<1>3. Cardinality(Turns(s, i)) <= SlotsAbove(i)
  BY <1>1, TurnsMonotonic DEF SlotsAbove
<1>4. FullSlots[i] <= SlotsAbove(MAX_PRIO)
  <2> DEFINE none == [j \in Prios |-> 0]
  <2>1. none \in Budgets /\ none[i] = 0
    BY <1>1, SchedAssumption DEF Budgets, Prios
  <2> HIDE DEF none
  <2>2. Cardinality(Turns(none, MAX_PRIO)) + FullSlots[i] <= SlotsAbove(MAX_PRIO)
    BY <2>1, TurnsOfLevel
  <2>3. Cardinality(Turns(none, MAX_PRIO)) \in Nat
    BY TurnsFinite
  <2> QED
    BY <1>1, <1>2, <2>2, <2>3
<1>5. CASE s[i] > 0
  BY <1>1, <1>2, <1>3, <1>4, <1>5 DEF Ahead, BypassBound
<1>6. CASE s[i] = 0
  <2>1. Cardinality(Turns(s, MAX_PRIO)) + FullSlots[i] <= SlotsAbove(MAX_PRIO)
    BY <1>6, TurnsOfLevel
  <2> QED
    BY <1>1, <1>2, <1>4, <1>6, <2>1 DEF Ahead, BypassBound
<1> QED
  BY <1>1, <1>5, <1>6

-----------------------------------------------------------------------------
(* No level is bypassed too often.                                            *)

\* get_proc charges the level it serves, after a refill if need be; every other
\* level that waits is bypassed once, and has one turn less ahead of it.
LEMMA FetchBypass ==
  ASSUME SchedInv, BypassInv, SchedInv', Fetch
  PROVE  BypassInv'
<1>1. PICK p \in Procs \cup {NULL} :
        /\ GetProc(p)
        /\ bypass' = [i \in Prios |->
                        IF i \notin Waiting \/ ready'[i] # ready[i] THEN 0
                        ELSE IF bypass[i] > BypassBound(i) THEN bypass[i]
                        ELSE bypass[i] + 1]
  BY DEF Fetch
<1>2. PICK j \in Prios, s \in Budgets :
        /\ ready[j] # <<>> /\ s[j] > 0 /\ TakeFrom(j, s, p)
        /\ \/ s = slot /\ \A i \in Waiting : slot[i] > 0 => j <= i
           \/ s = FullSlots /\ \A i \in Waiting : slot[i] = 0 /\ j <= i
  <2>1. /\ slot \in Budgets /\ MAX_PRIO \in Nat
        /\ \A i \in Prios : slot[i] \in Nat
    BY SchedAssumption DEF SchedInv, SchedTypeOK, Budgets
  <2>2. CASE Budgeted # {} /\ TakeFrom(Lowest(Budgeted), slot, p)
    <3>1. /\ Lowest(Budgeted) \in Budgeted
          /\ \A i \in Budgeted : Lowest(Budgeted) <= i
      BY <2>2, LowestLevel DEF Budgeted, Waiting
    <3> QED
      BY <2>1, <2>2, <3>1 DEF Budgeted, Waiting
  <2>3. CASE Waiting # {} /\ Budgeted = {} /\ TakeFrom(Lowest(Waiting), FullSlots, p)
    <3>1. Lowest(Waiting) \in Waiting /\ \A i \in Waiting : Lowest(Waiting) <= i
      BY <2>3, LowestLevel DEF Waiting
    <3>2. FullSlots \in Budgets /\ \A i \in Prios : FullSlots[i] > 0
      BY SchedAssumption DEF FullSlots, Budgets, Prios
    <3>3. \A i \in Waiting : slot[i] = 0
      BY <2>1, <2>3 DEF Budgeted, Waiting
    <3> QED
      BY <2>3, <3>1, <3>2, <3>3 DEF Waiting
  <2> QED
    BY <1>1, <2>2, <2>3 DEF GetProc, Fetch
<1>3. /\ slot' \in Budgets /\ slot \in Budgets /\ slot'[j] = s[j] - 1
      /\ \A k \in Prios \ {j} : slot'[k] = s[k]
      /\ ready'[j] # ready[j]
  <2>1. slot' \in Budgets /\ slot \in Budgets
    BY DEF SchedInv, SchedTypeOK, Budgets
  <2>2. slot'[j] = s[j] - 1 /\ \A k \in Prios \ {j} : slot'[k] = s[k]
    BY <1>2 DEF TakeFrom, Budgets
  <2>3. ready'[j] = Tail(ready[j]) /\ ready[j] \in Seq(Procs)
    BY <1>2, SchedQueues DEF TakeFrom
  <2>4. Len(Tail(ready[j])) = Len(ready[j]) - 1 /\ Len(ready[j]) \in Nat
    BY <1>2, <2>3, HeadTailProperties, LenProperties
  <2>5. Tail(ready[j]) # ready[j]
    <3> SUFFICES ASSUME Tail(ready[j]) = ready[j] PROVE FALSE
      OBVIOUS
    <3>1. Len(ready[j]) = Len(ready[j]) - 1
      BY <2>4
    <3> QED
      BY <2>4, <3>1
  <2>6. ready'[j] # ready[j]
    BY <2>3, <2>5
  <2> QED
    BY <2>1, <2>2, <2>6
<1>4. ASSUME NEW i \in Prios
      PROVE  bypass'[i] \in Nat /\ bypass'[i] + Ahead(slot', i) <= BypassBound(i)
  <2>1. /\ Ahead(slot, i) \in Nat /\ Ahead(slot', i) \in Nat
        /\ BypassBound(i) \in Nat /\ Ahead(slot', i) <= BypassBound(i)
        /\ bypass[i] \in Nat /\ bypass[i] + Ahead(slot, i) <= BypassBound(i)
    BY <1>3, AheadBound DEF BypassInv
  <2>2. CASE i \notin Waiting \/ ready'[i] # ready[i]
    <3>1. bypass'[i] = 0
      BY <1>1, <2>2
    <3> QED
      BY <2>1, <3>1
  <2>3. CASE i \in Waiting /\ ready'[i] = ready[i]
    <3>1. i # j /\ bypass'[i] = bypass[i] + 1
      <4>1. ~(bypass[i] > BypassBound(i))
        BY <2>1
      <4> QED
        BY <1>1, <1>3, <2>3, <4>1
    <3>2. i \in Int /\ j \in Int /\ MAX_PRIO \in Int /\ j < MAX_PRIO
      BY SchedAssumption DEF Prios
    <3>3. Ahead(slot', i) <= Ahead(slot, i) - 1
      <4>1. CASE s = slot /\ slot[i] > 0
        <5>1. j < i /\ slot'[i] > 0
          BY <1>2, <1>3, <2>3, <3>1, <3>2, <4>1 DEF FullSlots
        <5>2. Cardinality(Turns(slot', i)) = Cardinality(Turns(slot, i)) - 1
          BY <1>2, <1>3, <3>2, <4>1, <5>1, TurnTaken
        <5> QED
          BY <2>1, <4>1, <5>1, <5>2 DEF Ahead
      <4>2. CASE s = slot /\ ~(slot[i] > 0)
        <5>1. ~(slot'[i] > 0)
          BY <1>3, <3>1, <4>2
        <5>2. Cardinality(Turns(slot', MAX_PRIO)) = Cardinality(Turns(slot, MAX_PRIO)) - 1
          BY <1>2, <1>3, <3>2, <4>2, TurnTaken
        <5>3. Cardinality(Turns(slot, MAX_PRIO)) \in Nat /\ SlotsAbove(i) \in Nat
          BY TurnsFinite DEF SlotsAbove
        <5> QED
          BY <4>2, <5>1, <5>2, <5>3 DEF Ahead
      <4>3. CASE s = FullSlots /\ \A k \in Waiting : slot[k] = 0 /\ j <= k
        <5>1. j < i /\ ~(slot[i] > 0) /\ slot'[i] > 0
          <6>1. FullSlots[i] > 0
            BY <3>2, SchedAssumption DEF FullSlots, Prios
          <6> QED
            BY <1>3, <2>3, <3>1, <3>2, <4>3, <6>1
        <5>2. Cardinality(Turns(slot', i)) = SlotsAbove(i) - 1
          BY <1>2, <1>3, <3>2, <4>3, <5>1, TurnTaken DEF SlotsAbove
        <5>3. Cardinality(Turns(slot, MAX_PRIO)) \in Nat /\ SlotsAbove(i) \in Nat
          BY TurnsFinite DEF SlotsAbove
        <5> QED
          BY <5>1, <5>2, <5>3 DEF Ahead
      <4> QED
        BY <1>2, <4>1, <4>2, <4>3
    <3> QED
      BY <2>1, <3>1, <3>3
  <2> QED
    BY <2>2, <2>3
<1>5. bypass' \in [Prios -> Nat]
  BY <1>1, <1>4
<1> QED
  BY <1>4, <1>5 DEF BypassInv

-----------------------------------------------------------------------------
(* The inductive invariant.                                                   *)

ClientsInv == SchedInv /\ HeldInv /\ BypassInv

LEMMA ClientsInitInv == ClientsInit => ClientsInv
<1> SUFFICES ASSUME ClientsInit PROVE ClientsInv
  OBVIOUS
<1>1. 0 \in Prios /\ FullSlots \in Budgets
  BY SchedAssumption DEF Prios, FullSlots, Budgets
<1>2. SchedInv /\ \A p : ~InQueue(p) /\ ~Occurs(running, p)
  <2>1. SchedInit /\ prio \in [Procs -> Prios]
    BY <1>1 DEF ClientsInit
  <2> QED
    BY <2>1, SchedInitInv
<1>3. HeldInv
  BY <1>2, FS_EmptySet, EmptySeq DEF ClientsInit, SchedInit, HeldInv
<1>4. BypassInv
  <2>1. slot = FullSlots /\ bypass = [i \in Prios |-> 0]
    BY DEF ClientsInit, SchedInit
  <2> QED
    BY <1>1, <2>1, AheadBound DEF BypassInv
<1> QED
  BY <1>2, <1>3, <1>4 DEF ClientsInv

\* The processes held are finitely many.
LEMMA HeldFinite ==
  ASSUME HeldInv
  PROVE  IsFiniteSet(held) /\ Cardinality(held) \in Nat
<1>1. IsFiniteSet(Procs)
  BY FS_Interval, SchedAssumption DEF Procs
<1> QED
  BY <1>1, FS_Subset, FS_CardinalityType DEF HeldInv

LEMMA ClientsNextInv ==
  RunningFits /\ ClientsInv /\ [ClientsNext]_clientVars => ClientsInv'
<1> SUFFICES ASSUME RunningFits, ClientsInv, [ClientsNext]_clientVars
             PROVE  ClientsInv'
  OBVIOUS
<1> USE DEF ClientsInv
<1>1. ASSUME NEW p \in Procs, NEW level \in Prios, Arrive(p, level)
      PROVE  ClientsInv'
  <2>1. ~InQueue(p) /\ p \notin held /\ AddProc(p, level)
        /\ UNCHANGED <<held, bypass, slot>>
    BY <1>1 DEF Arrive, InReady, InQueue, AddProc
  <2>2. /\ SchedInv' /\ UNCHANGED running
        /\ \A x : InQueue(x)' => InQueue(x) \/ x = p
    BY <2>1, AddProcContract
  <2>3. HeldInv'
    BY <2>1, <2>2 DEF HeldInv
  <2>4. BypassInv'
    BY <2>1 DEF BypassInv
  <2> QED
    BY <2>2, <2>3, <2>4
<1>2. ASSUME Fetch PROVE ClientsInv'
  <2>1. PICK p \in Procs \cup {NULL} :
          GetProc(p) /\ held' = held \cup ({p} \ {NULL})
    BY <1>2 DEF Fetch
  <2>2. Len(running) < MAX_QUEUE_SIZE /\ Len(running) = Cardinality(held)
    BY <1>2, HeldFinite, SchedAssumption, NumClientsAssumption
    DEF Fetch, HeldInv, RunningFits
  <2>3. \A x : ~(InQueue(x) /\ Occurs(running, x))
    BY DEF HeldInv
  <2>4. /\ SchedInv'
        /\ p = NULL => UNCHANGED <<ready, running>> /\ \A x : ~InQueue(x)
        /\ p # NULL => /\ p \in Procs /\ InQueue(p)
                       /\ \A x : InQueue(x)' <=> InQueue(x) /\ x # p
                       /\ \A x : Occurs(running, x)' <=> Occurs(running, x) \/ x = p
                       /\ Len(running') = Len(running) + 1
    BY <2>1, <2>2, <2>3, GetProcContract
  <2>5. HeldInv'
    <3>1. CASE p = NULL
      <4>1. held' = held /\ UNCHANGED <<ready, running>>
        BY <2>1, <2>4, <3>1
      <4> QED
        BY <4>1 DEF HeldInv, InQueue
    <3>2. CASE p # NULL
      <4>1. held' = held \cup {p} /\ p \notin held
        BY <2>1, <2>4, <3>2 DEF HeldInv
      <4>2. Cardinality(held') = Cardinality(held) + 1
        BY <4>1, HeldFinite, FS_AddElement
      <4> QED
        BY <2>2, <2>4, <3>2, <4>1, <4>2 DEF HeldInv
    <3> QED
      BY <3>1, <3>2
  <2> QED
    BY <1>2, <2>4, <2>5, FetchBypass
<1>3. ASSUME NEW p \in Procs, p \in held, held' = held \ {p}, SchedInv',
             \A x : InQueue(x)' => InQueue(x) \/ x = p,
             \A x : Occurs(running, x)' <=> Occurs(running, x) /\ x # p,
             Len(running') = IF Occurs(running, p) THEN Len(running) - 1
                             ELSE Len(running),
             UNCHANGED <<slot, bypass>>
      PROVE  ClientsInv'
  <2>1. Cardinality(held') = Cardinality(held) - 1
    BY <1>3, HeldFinite, FS_RemoveElement
  <2>2. HeldInv'
    BY <1>3, <2>1 DEF HeldInv
  <2>3. BypassInv'
    BY <1>3 DEF BypassInv
  <2> QED
    BY <1>3, <2>2, <2>3
<1>4. ASSUME NEW p \in Procs, GiveBack(p) PROVE ClientsInv'
  <2>1. /\ p \in held /\ PutProc(p) /\ held' = held \ {p}
        /\ UNCHANGED <<slot, bypass>> /\ ~InQueue(p)
    BY <1>4 DEF GiveBack, PutProc, HeldInv
  <2> QED
    BY <1>3, <2>1, PutProcContract
<1>5. ASSUME NEW p \in Procs, Retire(p) PROVE ClientsInv'
  <2>1. /\ p \in held /\ RemoveProc(p) /\ held' = held \ {p}
        /\ UNCHANGED <<slot, bypass>>
    BY <1>5 DEF Retire, RemoveProc
  <2> QED
    BY <1>3, <2>1, RemoveProcContract
<1>6. ASSUME UNCHANGED clientVars PROVE ClientsInv'
  <2>1. SchedInv'
    BY <1>6 DEF clientVars, schedVars, SchedInv, SchedTypeOK, NoDoubles
  <2>2. HeldInv' /\ BypassInv'
    BY <1>6 DEF clientVars, schedVars, HeldInv, InQueue, BypassInv
  <2> QED
    BY <2>1, <2>2
<1> QED
  BY <1>1, <1>2, <1>4, <1>5, <1>6 DEF ClientsNext, Release

LEMMA ClientsInvHolds == ASSUME RunningFits PROVE ClientsSpec => []ClientsInv
<1>1. ClientsInit => ClientsInv
  BY ClientsInitInv
<1>2. ClientsInv /\ [ClientsNext]_clientVars => ClientsInv'
  BY ClientsNextInv
<1> QED
  BY <1>1, <1>2, PTL DEF ClientsSpec

-----------------------------------------------------------------------------
(* The theorems.                                                              *)

\* With one entry of running_list for every CPU, no order of add_proc, get_proc,
\* put_proc and sched_remove_proc loses or doubles a process.
THEOREM ClientsHeldOrQueued ==
  ASSUME RunningFits PROVE ClientsSpec => []HeldOrQueued
<1>1. ClientsInv => HeldOrQueued
  <2> SUFFICES ASSUME ClientsInv, NEW p \in Procs
               PROVE  /\ p \in held <=> Occurs(running, p)
                      /\ p \in held => ~InReady(p)
                      /\ \A i, j \in Prios :
                           \A k \in 1 .. Len(ready[i]), l \in 1 .. Len(ready[j]) :
                             ready[i][k] = p /\ ready[j][l] = p => i = j /\ k = l
    BY DEF HeldOrQueued
  <2>1. /\ p \in held <=> Occurs(running, p)
        /\ p \in held => ~InReady(p)
    BY DEF ClientsInv, HeldInv, InReady, InQueue
  <2>2. ASSUME NEW i \in Prios, NEW j \in Prios, NEW k \in 1 .. Len(ready[i]),
               NEW l \in 1 .. Len(ready[j]), ready[i][k] = p, ready[j][l] = p
        PROVE  i = j /\ k = l
    <3>1. i = j
      BY <2>2 DEF ClientsInv, SchedInv, NoDoubles, Occurs
    <3> QED
      BY <2>2, <3>1 DEF ClientsInv, SchedInv, NoDoubles, Once
  <2> QED
    BY <2>1, <2>2
<1> QED
  BY <1>1, ClientsInvHolds, PTL

\* However many levels there are and however fast work arrives at them, get_proc
\* passes a waiting level by only as often as the slots of a round allow.
THEOREM ClientsBoundedBypass ==
  ASSUME RunningFits PROVE ClientsSpec => []BoundedBypass
<1>1. ClientsInv => BoundedBypass
  <2> SUFFICES ASSUME ClientsInv, NEW i \in Prios
               PROVE  bypass[i] <= BypassBound(i)
    BY DEF BoundedBypass
  <2>1. slot \in Budgets
    BY DEF ClientsInv, SchedInv, SchedTypeOK, Budgets
  <2> QED
    BY <2>1, AheadBound DEF ClientsInv, BypassInv
<1> QED
  BY <1>1, ClientsInvHolds, PTL
=============================================================================
