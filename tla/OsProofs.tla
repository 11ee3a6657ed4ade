------------------------------ MODULE OsProofs --------------------------------
(* The simulation as a whole, for every number of CPUs, processes, levels and *)
(* every workload: processes are in one place at a time, running_list is      *)
(* exact, no CPU idles beside work and none stops while it is needed.         *)
EXTENDS Os, SchedProofs

\* No queue has to drop a process.  Without this Ownership fails, as the run
\* os_queue_full shows.
QueuesFit == NumProcs <= MAX_QUEUE_SIZE

-----------------------------------------------------------------------------
(* The inductive invariant.                                                   *)

InputInv ==
  /\ size \in [Procs -> Nat] /\ start \in [Procs -> Nat] /\ pc \in [Procs -> Nat]
  /\ cfgPrio \in [Procs -> CfgPrios] /\ ownPrio \in [Procs -> OwnPrios]

\* A thread is between two slots only at the top of its loop; what a CPU that
\* has no process, or has given it up, has in its locals; and when done is set.
ControlInv ==
  /\ \A c \in Cpus :
       /\ cpc[c] \in {"free", "get", "recheck", "stop"} => phase[c] = "working"
       /\ cpc[c] = "off" <=> phase[c] = "detached"
       /\ cpc[c] = "free" => proc[c] # NULL
       /\ cpc[c] \in {"stop", "off"} => proc[c] = NULL /\ done
       /\ cpc[c] = "get" \/ proc[c] = NULL => timeLeft[c] = 0
  /\ lpc \in {"loaded", "leaving"} => phase[Loader] = "working"
  /\ lpc = "off" <=> phase[Loader] = "detached"
  /\ done <=> lpc \in {"leaving", "off"}
  /\ done => next = NumProcs + 1

Owned(p) == \E c \in Cpus : Owns(c, p)

\* A process is in one place: not loaded, in a ready queue, in the hands of one
\* CPU, or freed.
PlaceInv ==
  /\ \A p \in Procs :
       /\ p >= next => ~InQueue(p) /\ ~Owned(p) /\ p \notin freed
       /\ p < next => InQueue(p) \/ Owned(p) \/ p \in freed
       /\ InQueue(p) => ~Owned(p) /\ p \notin freed
       /\ p \in freed => ~Owned(p)
  /\ \A p \in Procs, c, d \in Cpus : Owns(c, p) /\ Owns(d, p) => c = d

\* The processes that wait, and the CPUs that will fetch one before they do
\* anything else.
Waits    == {p \in Procs : InQueue(p)}
Fetching == {c \in Cpus : cpc[c] = "get"}

\* CPU c has found no process in this slot, or has stopped.
Idle(c) ==
  proc[c] = NULL /\ (cpc[c] \in {"recheck", "stop", "off"} \/ phase[c] = "waiting")

\* What the loader may have added in this slot.
Allowance ==
  IF lpc = "loaded" \/ (lpc = "load" /\ phase[Loader] = "waiting") THEN 1 ELSE 0

\* Once a CPU has found nothing to run, there is no more to run than the CPUs
\* that have just given a process up will fetch, and what the loader adds.
IdleInv ==
  (\E c \in Cpus : Idle(c))
    => Cardinality(Waits) <= Cardinality(Fetching) + Allowance

OsInv ==
  /\ OsTypeOK /\ InputInv /\ NoDoubles /\ ControlInv
  /\ PlaceInv /\ RunningListed /\ IdleInv

-----------------------------------------------------------------------------
(* Parts of the induction that several actions share.                         *)

\* The sets that IdleInv counts are finite.
LEMMA CountsFinite ==
  /\ IsFiniteSet(Waits) /\ Cardinality(Waits) \in Nat
  /\ IsFiniteSet(Fetching) /\ Cardinality(Fetching) \in Nat
<1>1. IsFiniteSet(Procs) /\ IsFiniteSet(Cpus)
  BY FS_Interval, SchedAssumption, OsAssumption DEF Procs, Cpus
<1>2. IsFiniteSet(Waits) /\ IsFiniteSet(Fetching)
  BY <1>1, FS_Subset DEF Waits, Fetching
<1> QED
  BY <1>2, FS_CardinalityType

\* The numbers that name processes, CPUs and the loader.
LEMMA Names ==
  /\ NULL \notin Procs /\ Loader \notin Cpus /\ Cpus # {}
  /\ Threads = Cpus \cup {Loader}
  /\ \A p \in Procs : p \in Nat /\ p <= NumProcs
BY SchedAssumption, OsAssumption DEF NULL, Procs, Loader, Cpus, Threads

\* A step that moves no process.
LEMMA SamePlaces ==
  ASSUME OsInv, UNCHANGED <<ready, slot, running, prio, freed, next>>,
         \A c \in Cpus : /\ proc'[c] = proc[c]
                         /\ cpc'[c] = "get" <=> cpc[c] = "get"
                         /\ cpc'[c] = "free" <=> cpc[c] = "free"
  PROVE  /\ SchedTypeOK' /\ NoDoubles' /\ PlaceInv' /\ RunningListed'
         /\ Waits' = Waits /\ Fetching' = Fetching
<1>1. SchedTypeOK' /\ NoDoubles'
  BY DEF OsInv, OsTypeOK, SchedTypeOK, NoDoubles
<1>2. /\ \A p : InQueue(p)' <=> InQueue(p)
      /\ \A c \in Cpus, p \in Procs : Owns(c, p)' <=> Owns(c, p)
  BY DEF InQueue, Owns
<1>3. PlaceInv'
  BY <1>2 DEF OsInv, PlaceInv, Owned
<1>4. RunningListed'
  BY <1>2 DEF OsInv, RunningListed
<1>5. Waits' = Waits /\ Fetching' = Fetching
  BY <1>2 DEF Waits, Fetching
<1> QED
  BY <1>1, <1>3, <1>4, <1>5

\* A step after which no CPU is idle that was not, and the loader has done as
\* much as before.
LEMMA SameIdle ==
  ASSUME OsInv, Waits' = Waits, Fetching' = Fetching,
         (\E c \in Cpus : Idle(c)') =>
           (\E c \in Cpus : Idle(c)) /\ Allowance <= Allowance'
  PROVE  IdleInv'
<1>1. Allowance \in Nat /\ Allowance' \in Nat
  BY DEF Allowance
<1> QED
  BY <1>1, CountsFinite DEF OsInv, IdleInv

\* A step of CPU c that only moves its control state, and takes it neither to
\* nor from the states in which a process is on its way.
LEMMA CpuMoves ==
  ASSUME OsInv, NEW c \in Cpus, NEW label \in {"recheck", "stop"},
         cpc[c] \in {"top", "recheck"}, phase[c] = "working",
         label = "recheck" => proc[c] # NULL,
         label = "stop" => cpc[c] = "recheck" /\ proc[c] = NULL /\ done,
         cpc' = [cpc EXCEPT ![c] = label],
         UNCHANGED <<phase, time, schedVars, proc, timeLeft, lpc, next, done, pc,
                     inputVars, freed>>
  PROVE  OsInv'
<1>1. /\ cpc'[c] = label /\ \A d \in Cpus \ {c} : cpc'[d] = cpc[d]
      /\ UNCHANGED <<phase, time, ready, slot, running, prio, proc, timeLeft, lpc,
                     next, done, pc, size, start, cfgPrio, ownPrio, freed>>
  BY DEF OsInv, OsTypeOK, schedVars, inputVars
<1>2. /\ SchedTypeOK' /\ NoDoubles' /\ PlaceInv' /\ RunningListed'
      /\ Waits' = Waits /\ Fetching' = Fetching
  BY <1>1, SamePlaces
<1>3. OsTypeOK' /\ InputInv'
  BY <1>1, <1>2 DEF OsInv, OsTypeOK, InputInv, Clock!ClockTypeOK, CpuStates
<1>4. ControlInv'
  BY <1>1 DEF OsInv, ControlInv
<1>5. IdleInv'
  <2>1. \A d \in Cpus : Idle(d)' => Idle(d)
    BY <1>1 DEF Idle
  <2>2. Allowance' = Allowance
    BY <1>1 DEF Allowance
  <2>3. Allowance \in Nat
    BY DEF Allowance
  <2> QED
    BY <1>2, <2>1, <2>2, <2>3, SameIdle
<1> QED
  BY <1>2, <1>3, <1>4, <1>5 DEF OsInv

-----------------------------------------------------------------------------
(* The actions of a CPU.                                                      *)

\* The scheduler's part of the invariant.
LEMMA SchedPart ==
  ASSUME OsInv
  PROVE  SchedInv /\ \A x : InQueue(x) => x \in Procs
<1>1. SchedInv
  BY DEF OsInv, OsTypeOK, SchedInv
<1>2. ASSUME NEW x, InQueue(x) PROVE x \in Procs
  <2>1. PICK i \in Prios : Occurs(ready[i], x)
    BY <1>2 DEF InQueue
  <2>2. PICK k \in 1 .. Len(ready[i]) : ready[i][k] = x
    BY <2>1 DEF Occurs
  <2> QED
    BY <1>1, <2>2, SchedQueues, QueueType
<1> QED
  BY <1>1, <1>2

LEMMA RetireProcInv ==
  ASSUME OsInv, NEW c \in Cpus, RetireProc(c)
  PROVE  OsInv'
<1> DEFINE p == proc[c]
<1>1. /\ cpc[c] = "top" /\ cpc'[c] = "free" /\ \A d \in Cpus \ {c} : cpc'[d] = cpc[d]
      /\ cpc' \in [Cpus -> CpuStates] /\ p \in Procs /\ p # NULL
      /\ phase[c] = "working" /\ RemoveProc(p)
      /\ UNCHANGED <<phase, time, proc, timeLeft, lpc, next, done, pc, size, start,
                     cfgPrio, ownPrio, freed>>
  BY DEF RetireProc, Active, OsInv, OsTypeOK, inputVars, CpuStates
<1>2. Owns(c, p) /\ Owned(p) /\ ~InQueue(p)
  BY <1>1 DEF Owns, Owned, OsInv, PlaceInv
<1> HIDE DEF p
<1>3. /\ SchedInv' /\ \A x : InQueue(x)' <=> InQueue(x)
      /\ \A x : Occurs(running, x)' <=> Occurs(running, x) /\ x # p
  BY <1>1, <1>2, SchedPart, RemoveProcContract
<1>4. OsTypeOK' /\ InputInv' /\ NoDoubles'
  BY <1>1, <1>3 DEF OsInv, OsTypeOK, InputInv, SchedInv, Clock!ClockTypeOK
<1>5. ControlInv'
  BY <1>1 DEF OsInv, ControlInv, p
<1>6. \A d \in Cpus, x \in Procs : Owns(d, x)' <=> Owns(d, x)
  BY <1>1 DEF Owns
<1>7. PlaceInv'
  BY <1>1, <1>3, <1>6 DEF OsInv, PlaceInv, Owned
<1>8. RunningListed'
  <2> SUFFICES ASSUME NEW x \in Procs
               PROVE  Occurs(running, x)' <=>
                        \E d \in Cpus : Owns(d, x)' /\ cpc'[d] # "free"
    BY DEF RunningListed
  <2>1. CASE x = p
    BY <1>1, <1>2, <1>3, <1>6, <2>1 DEF OsInv, PlaceInv
  <2>2. CASE x # p
    <3>1. \A d \in Cpus : Owns(d, x) => d # c
      BY <1>1, <2>2 DEF Owns, p
    <3> QED
      BY <1>1, <1>3, <1>6, <2>2, <3>1 DEF OsInv, RunningListed
  <2> QED
    BY <2>1, <2>2
<1>9. IdleInv'
  <2>1. Waits' = Waits /\ Fetching' = Fetching
    BY <1>1, <1>3 DEF Waits, Fetching
  <2>2. (\A d \in Cpus : Idle(d)' => Idle(d)) /\ Allowance' = Allowance
    BY <1>1 DEF Idle, Allowance
  <2>3. Allowance \in Nat
    BY DEF Allowance
  <2> QED
    BY <2>1, <2>2, <2>3, SameIdle
<1> QED
  BY <1>4, <1>5, <1>7, <1>8, <1>9 DEF OsInv

LEMMA FreeProcInv ==
  ASSUME OsInv, NEW c \in Cpus, FreeProc(c)
  PROVE  OsInv'
<1> DEFINE p == proc[c]
<1>1. /\ cpc[c] = "free" /\ cpc'[c] = "get" /\ \A d \in Cpus \ {c} : cpc'[d] = cpc[d]
      /\ cpc' \in [Cpus -> CpuStates] /\ p \in Procs /\ freed' = freed \cup {p}
      /\ timeLeft' \in [Cpus -> 0 .. TimeSlot]
      /\ timeLeft'[c] = 0 /\ \A d \in Cpus \ {c} : timeLeft'[d] = timeLeft[d]
      /\ phase[c] = "working"
      /\ UNCHANGED <<phase, time, ready, slot, running, prio, proc, lpc, next, done,
                     pc, size, start, cfgPrio, ownPrio>>
  BY OsAssumption
  DEF FreeProc, OsInv, OsTypeOK, ControlInv, inputVars, schedVars, CpuStates
<1>2. Owns(c, p) /\ Owned(p) /\ p < next /\ ~InQueue(p) /\ p \in Nat
  <2>1. Owns(c, p) /\ Owned(p) /\ next \in Nat /\ p \in Nat
    BY <1>1, Names, SchedAssumption DEF Owns, Owned, OsInv, OsTypeOK
  <2> QED
    BY <1>1, <2>1 DEF OsInv, PlaceInv
<1> HIDE DEF p
<1>3. OsTypeOK' /\ InputInv' /\ NoDoubles'
  BY <1>1 DEF OsInv, OsTypeOK, InputInv, Clock!ClockTypeOK, SchedTypeOK, NoDoubles
<1>4. ControlInv'
  BY <1>1, Names DEF OsInv, ControlInv, p
<1>5. /\ \A d \in Cpus, x \in Procs : Owns(d, x)' <=> Owns(d, x) /\ d # c
      /\ \A x \in Procs : Owned(x)' <=> Owned(x) /\ x # p
      /\ \A x : InQueue(x)' <=> InQueue(x)
  <2>1. \A d \in Cpus, x \in Procs : Owns(d, x)' <=> Owns(d, x) /\ d # c
    BY <1>1 DEF Owns
  <2>2. \A x \in Procs : Owns(c, x) <=> x = p
    BY <1>1 DEF Owns, p
  <2>3. \A d \in Cpus : Owns(d, p) => d = c
    BY <1>1, <1>2 DEF OsInv, PlaceInv
  <2>4. \A x : InQueue(x)' <=> InQueue(x)
    BY <1>1 DEF InQueue
  <2> QED
    BY <2>1, <2>2, <2>3, <2>4 DEF Owned
<1>6. PlaceInv'
  <2>1. ASSUME NEW x \in Procs
        PROVE  /\ x >= next => ~InQueue(x)' /\ ~Owned(x)' /\ x \notin freed'
               /\ x < next => InQueue(x)' \/ Owned(x)' \/ x \in freed'
               /\ InQueue(x)' => ~Owned(x)' /\ x \notin freed'
               /\ x \in freed' => ~Owned(x)'
    <3>1. CASE x = p
      <4>1. ~(x >= next)
        BY <1>2, <3>1, SchedAssumption DEF OsInv, OsTypeOK
      <4> QED
        BY <1>1, <1>2, <1>5, <3>1, <4>1
    <3>2. CASE x # p
      BY <1>1, <1>5, <3>2 DEF OsInv, PlaceInv
    <3> QED
      BY <3>1, <3>2
  <2> QED
    BY <1>1, <1>5, <2>1 DEF OsInv, PlaceInv
<1>7. RunningListed'
  BY <1>1, <1>5 DEF OsInv, RunningListed
<1>8. IdleInv'
  <2>1. Waits' = Waits /\ Fetching' = Fetching \cup {c}
    BY <1>1, <1>5 DEF Waits, Fetching
  <2>2. (\A d \in Cpus : Idle(d)' => Idle(d)) /\ Allowance' = Allowance
    BY <1>1 DEF Idle, Allowance
  <2>3. Allowance \in Nat
    BY DEF Allowance
  <2>4. /\ Cardinality(Fetching \cup {c}) >= Cardinality(Fetching)
        /\ Cardinality(Fetching \cup {c}) \in Nat
    <3>1. Cardinality(Fetching \cup {c}) =
            IF c \in Fetching THEN Cardinality(Fetching) ELSE Cardinality(Fetching) + 1
      BY CountsFinite, FS_AddElement
    <3> QED
      BY <3>1, CountsFinite
  <2> QED
    BY <2>1, <2>2, <2>3, <2>4, CountsFinite DEF OsInv, IdleInv
<1> QED
  BY <1>3, <1>4, <1>6, <1>7, <1>8 DEF OsInv

LEMMA PreemptProcInv ==
  ASSUME QueuesFit, OsInv, NEW c \in Cpus, PreemptProc(c)
  PROVE  OsInv'
<1>1. PICK p \in Procs : p = proc[c]
  BY DEF PreemptProc, OsInv, OsTypeOK
<1>2. /\ cpc[c] = "top" /\ cpc'[c] = "get" /\ \A d \in Cpus \ {c} : cpc'[d] = cpc[d]
      /\ cpc' \in [Cpus -> CpuStates] /\ p = proc[c] /\ p # NULL
      /\ timeLeft[c] = 0 /\ phase[c] = "working" /\ PutProc(p)
      /\ UNCHANGED <<phase, time, proc, timeLeft, lpc, next, done, pc, size, start,
                     cfgPrio, ownPrio, freed>>
  BY <1>1 DEF PreemptProc, Active, OsInv, OsTypeOK, inputVars, CpuStates
<1>3. Owns(c, p) /\ Owned(p) /\ ~InQueue(p) /\ p \notin freed /\ ~(p >= next)
  BY <1>2 DEF Owns, Owned, OsInv, PlaceInv
<1>4. /\ SchedInv' /\ \A x : InQueue(x)' <=> InQueue(x) \/ x = p
      /\ \A x : Occurs(running, x)' <=> Occurs(running, x) /\ x # p
  <2>1. /\ SchedInv'
        /\ \A x : InQueue(x) => InQueue(x)'
        /\ \A x : InQueue(x)' => InQueue(x) \/ x = p
        /\ InQueue(p)'
        /\ \A x : Occurs(running, x)' <=> Occurs(running, x) /\ x # p
    BY <1>2, <1>3, SchedPart, PutProcContract DEF QueuesFit
  <2> QED
    BY <2>1
<1>5. OsTypeOK' /\ InputInv' /\ NoDoubles'
  BY <1>2, <1>4 DEF OsInv, OsTypeOK, InputInv, SchedInv, Clock!ClockTypeOK
<1>6. ControlInv'
  BY <1>2 DEF OsInv, ControlInv
<1>7. /\ \A d \in Cpus, x \in Procs : Owns(d, x)' <=> Owns(d, x) /\ d # c
      /\ \A x \in Procs : Owned(x)' <=> Owned(x) /\ x # p
  <2>1. \A d \in Cpus, x \in Procs : Owns(d, x)' <=> Owns(d, x) /\ d # c
    BY <1>2 DEF Owns
  <2>2. \A x \in Procs : Owns(c, x) <=> x = p
    BY <1>2 DEF Owns
  <2>3. \A d \in Cpus : Owns(d, p) => d = c
    BY <1>2, <1>3 DEF OsInv, PlaceInv
  <2> QED
    BY <2>1, <2>2, <2>3 DEF Owned
<1>8. PlaceInv'
  BY <1>2, <1>3, <1>4, <1>7 DEF OsInv, PlaceInv
<1>9. RunningListed'
  <2> SUFFICES ASSUME NEW x \in Procs
               PROVE  Occurs(running, x)' <=>
                        \E d \in Cpus : Owns(d, x)' /\ cpc'[d] # "free"
    BY DEF RunningListed
  <2>1. CASE x = p
    BY <1>4, <1>7, <2>1 DEF Owned
  <2>2. CASE x # p
    <3>1. \A d \in Cpus : Owns(d, x) => d # c
      BY <1>2, <2>2 DEF Owns
    <3> QED
      BY <1>2, <1>4, <1>7, <2>2, <3>1 DEF OsInv, RunningListed
  <2> QED
    BY <2>1, <2>2
<1>10. IdleInv'
  <2>1. Waits' = Waits \cup {p} /\ Fetching' = Fetching \cup {c} /\ c \notin Fetching
    BY <1>2, <1>4 DEF Waits, Fetching
  <2>2. (\A d \in Cpus : Idle(d)' => Idle(d)) /\ Allowance' = Allowance
    <3>1. ~Idle(c)'
      BY <1>2 DEF Idle
    <3> QED
      BY <1>2, <3>1 DEF Idle, Allowance
  <2>3. Allowance \in Nat
    BY DEF Allowance
  <2>4. /\ Cardinality(Fetching') = Cardinality(Fetching) + 1
        /\ Cardinality(Waits') \in Nat
        /\ Cardinality(Waits') <= Cardinality(Waits) + 1
    <3>1. /\ Cardinality(Fetching \cup {c}) = Cardinality(Fetching) + 1
          /\ Cardinality(Waits \cup {p}) = IF p \in Waits THEN Cardinality(Waits)
                                           ELSE Cardinality(Waits) + 1
      BY <2>1, CountsFinite, FS_AddElement
    <3> QED
      BY <2>1, <3>1, CountsFinite
  <2> QED
    BY <2>2, <2>3, <2>4, CountsFinite DEF OsInv, IdleInv
<1> QED
  BY <1>5, <1>6, <1>8, <1>9, <1>10 DEF OsInv

LEMMA KeepProcInv ==
  ASSUME OsInv, NEW c \in Cpus, KeepProc(c)
  PROVE  OsInv'
BY CpuMoves DEF KeepProc, Active

LEMMA StopCpuInv ==
  ASSUME OsInv, NEW c \in Cpus, StopCpu(c)
  PROVE  OsInv'
<1>1. phase[c] = "working"
  BY DEF StopCpu, OsInv, ControlInv
<1> QED
  BY <1>1, CpuMoves DEF StopCpu

\* A CPU that finds no process finds no process waiting; one that finds a
\* process finds it in a ready queue, and running_list has room for it.
\* No process that waits is on running_list, and there is room for it there.
LEMMA RoomToRun ==
  ASSUME QueuesFit, OsInv
  PROVE  /\ \A x : InQueue(x) => Len(running) < MAX_QUEUE_SIZE
         /\ \A x : ~(InQueue(x) /\ Occurs(running, x))
<1>1. \A x : ~(InQueue(x) /\ Occurs(running, x))
  BY SchedPart DEF OsInv, RunningListed, PlaceInv, Owned
<1>2. ASSUME NEW x, InQueue(x) PROVE Len(running) < MAX_QUEUE_SIZE
  <2>1. x \in Procs /\ ~Occurs(running, x)
    BY <1>1, <1>2, SchedPart
  <2>2. running \in Seq(Procs) /\ Once(running)
    BY SchedPart, SchedQueues
  <2>3. Len(running) < NumProcs /\ Len(running) \in Nat
    BY <2>1, <2>2, HasRoom, LenProperties
  <2> QED
    BY <2>3, SchedAssumption DEF QueuesFit
<1> QED
  BY <1>1, <1>2

LEMMA FetchProcInv ==
  ASSUME QueuesFit, OsInv, NEW c \in Cpus, FetchProc(c)
  PROVE  OsInv'
<1>1. PICK p \in Procs \cup {NULL} : GetProc(p) /\ proc' = [proc EXCEPT ![c] = p]
  BY DEF FetchProc
<1>2. /\ cpc[c] = "get" \/ (cpc[c] = "top" /\ proc[c] = NULL)
      /\ cpc'[c] = "recheck" /\ \A d \in Cpus \ {c} : cpc'[d] = cpc[d]
      /\ cpc' \in [Cpus -> CpuStates] /\ proc' \in [Cpus -> Procs \cup {NULL}]
      /\ proc'[c] = p /\ \A d \in Cpus \ {c} : proc'[d] = proc[d]
      /\ phase[c] = "working" /\ timeLeft[c] = 0
      /\ UNCHANGED <<phase, time, timeLeft, lpc, next, done, pc, size, start,
                     cfgPrio, ownPrio, freed>>
  BY <1>1
  DEF FetchProc, Active, OsInv, OsTypeOK, ControlInv, inputVars, CpuStates
<1>3. \A x \in Procs : ~Owns(c, x)
  BY <1>2, Names DEF Owns
<1>4. /\ SchedInv'
      /\ p = NULL => UNCHANGED <<ready, running>> /\ \A x : ~InQueue(x)
      /\ p # NULL => /\ p \in Procs /\ InQueue(p)
                     /\ \A x : InQueue(x)' <=> InQueue(x) /\ x # p
                     /\ \A x : Occurs(running, x)' <=> Occurs(running, x) \/ x = p
  BY <1>1, RoomToRun, SchedPart, GetProcContract
<1>5. OsTypeOK' /\ InputInv' /\ NoDoubles'
  BY <1>2, <1>4 DEF OsInv, OsTypeOK, InputInv, SchedInv, Clock!ClockTypeOK
<1>6. ControlInv'
  BY <1>2 DEF OsInv, ControlInv
<1>7. /\ \A d \in Cpus, x \in Procs : Owns(d, x)' <=> Owns(d, x) \/ (d = c /\ x = p)
      /\ \A x \in Procs : Owned(x)' <=> Owned(x) \/ x = p
  <2>1. \A d \in Cpus, x \in Procs : Owns(d, x)' <=> Owns(d, x) \/ (d = c /\ x = p)
    BY <1>2, <1>3 DEF Owns
  <2> QED
    BY <2>1 DEF Owned
<1>8. CASE p = NULL
  <2>1. /\ \A x : InQueue(x)' <=> InQueue(x)
        /\ \A d \in Cpus, x \in Procs : Owns(d, x)' <=> Owns(d, x)
    BY <1>4, <1>7, <1>8, Names DEF InQueue
  <2>2. PlaceInv'
    BY <1>2, <2>1 DEF OsInv, PlaceInv, Owned
  <2>3. RunningListed'
    <3>1. \A d \in Cpus, x \in Procs :
            Owns(d, x)' /\ cpc'[d] # "free" <=> Owns(d, x) /\ cpc[d] # "free"
      BY <1>2, <1>3, <2>1
    <3> QED
      BY <1>4, <1>8, <3>1 DEF OsInv, RunningListed
  <2>4. IdleInv'
    <3>1. Waits' = {}
      BY <1>4, <1>8, <2>1 DEF Waits
    <3>2. Cardinality(Waits') = 0 /\ Cardinality(Fetching') \in Nat
      <4>1. Fetching' \subseteq Fetching \cup {c}
        BY <1>2 DEF Fetching
      <4>2. IsFiniteSet(Fetching \cup {c})
        BY CountsFinite, FS_AddElement
      <4>3. IsFiniteSet(Fetching')
        BY <4>1, <4>2, FS_Subset
      <4> QED
        BY <3>1, <4>3, FS_CardinalityType, FS_EmptySet
    <3>3. Allowance' \in Nat
      BY DEF Allowance
    <3> QED
      BY <3>2, <3>3 DEF IdleInv
  <2> QED
    BY <1>5, <1>6, <2>2, <2>3, <2>4 DEF OsInv
<1>9. CASE p # NULL
  <2>1. /\ p \in Procs /\ InQueue(p)
        /\ \A x : InQueue(x)' <=> InQueue(x) /\ x # p
        /\ \A x : Occurs(running, x)' <=> Occurs(running, x) \/ x = p
    BY <1>4, <1>9
  <2>2. ~Owned(p) /\ p \notin freed /\ ~(p >= next)
    BY <2>1 DEF OsInv, PlaceInv
  <2>3. PlaceInv'
    <3>1. ASSUME NEW x \in Procs
          PROVE  /\ x >= next => ~InQueue(x)' /\ ~Owned(x)' /\ x \notin freed'
                 /\ x < next => InQueue(x)' \/ Owned(x)' \/ x \in freed'
                 /\ InQueue(x)' => ~Owned(x)' /\ x \notin freed'
                 /\ x \in freed' => ~Owned(x)'
      BY <1>2, <1>7, <2>1, <2>2 DEF OsInv, PlaceInv
    <3>2. \A x \in Procs, d, e \in Cpus : Owns(d, x)' /\ Owns(e, x)' => d = e
      BY <1>7, <2>2 DEF OsInv, PlaceInv, Owned
    <3> QED
      BY <1>2, <3>1, <3>2 DEF PlaceInv
  <2>4. RunningListed'
    <3> SUFFICES ASSUME NEW x \in Procs
                 PROVE  Occurs(running, x)' <=>
                          \E d \in Cpus : Owns(d, x)' /\ cpc'[d] # "free"
      BY DEF RunningListed
    <3>1. CASE x = p
      BY <1>2, <1>7, <2>1, <3>1
    <3>2. CASE x # p
      <4>1. \A d \in Cpus : Owns(d, x) => d # c
        BY <1>3
      <4> QED
        BY <1>2, <1>7, <2>1, <3>2, <4>1 DEF OsInv, RunningListed
    <3> QED
      BY <3>1, <3>2
  <2>5. IdleInv'
    <3>1. Waits' = Waits \ {p} /\ p \in Waits /\ Fetching' = Fetching \ {c}
      BY <1>2, <2>1 DEF Waits, Fetching
    <3>2. (\A d \in Cpus : Idle(d)' => Idle(d)) /\ Allowance' = Allowance
      <4>1. ~Idle(c)'
        BY <1>2, <1>9 DEF Idle
      <4> QED
        BY <1>2, <4>1 DEF Idle, Allowance
    <3>3. Allowance \in Nat
      BY DEF Allowance
    <3>4. /\ Cardinality(Waits') = Cardinality(Waits) - 1
          /\ Cardinality(Fetching') >= Cardinality(Fetching) - 1
          /\ Cardinality(Fetching') \in Int
      <4>1. /\ Cardinality(Waits \ {p}) = Cardinality(Waits) - 1
            /\ Cardinality(Fetching \ {c}) =
                 IF c \in Fetching THEN Cardinality(Fetching) - 1
                 ELSE Cardinality(Fetching)
        BY <3>1, CountsFinite, FS_RemoveElement
      <4> QED
        BY <3>1, <4>1, CountsFinite
    <3> QED
      BY <3>2, <3>3, <3>4, CountsFinite DEF OsInv, IdleInv
  <2> QED
    BY <1>5, <1>6, <2>3, <2>4, <2>5 DEF OsInv
<1> QED
  BY <1>8, <1>9

\* A CPU ends its slot, or leaves for good.
LEMMA CpuEndsSlot ==
  ASSUME OsInv, NEW c \in Cpus, NEW label \in {"top", "off"},
         phase[c] = "working", cpc[c] \in {"recheck", "stop"},
         label = "off" <=> cpc[c] = "stop",
         cpc' = [cpc EXCEPT ![c] = label],
         phase' = [phase EXCEPT ![c] = IF label = "off" THEN "detached" ELSE "waiting"],
         UNCHANGED <<time, schedVars, proc, lpc, next, done, inputVars, freed>>,
         pc' \in [Procs -> Nat], \A x \in Procs : pc'[x] \in 0 .. size[x],
         timeLeft' \in [Cpus -> 0 .. TimeSlot],
         proc[c] = NULL => timeLeft'[c] = timeLeft[c],
         \A d \in Cpus \ {c} : timeLeft'[d] = timeLeft[d]
  PROVE  OsInv'
<1>1. /\ cpc'[c] = label /\ \A d \in Cpus \ {c} : cpc'[d] = cpc[d]
      /\ cpc' \in [Cpus -> CpuStates] /\ phase' \in [Threads -> Clock!Phases]
      /\ phase'[c] = IF label = "off" THEN "detached" ELSE "waiting"
      /\ \A t \in Threads \ {c} : phase'[t] = phase[t]
      /\ phase'[Loader] = phase[Loader]
      /\ UNCHANGED <<time, ready, slot, running, prio, proc, lpc, next, done, size,
                     start, cfgPrio, ownPrio, freed>>
  BY Names
  DEF OsInv, OsTypeOK, Clock!ClockTypeOK, Clock!Phases, CpuStates, schedVars, inputVars
<1>2. /\ SchedTypeOK' /\ NoDoubles' /\ PlaceInv' /\ RunningListed'
      /\ Waits' = Waits /\ Fetching' = Fetching
  BY <1>1, SamePlaces
<1>3. OsTypeOK' /\ InputInv'
  BY <1>1, <1>2 DEF OsInv, OsTypeOK, InputInv, Clock!ClockTypeOK
<1>4. ControlInv'
  BY <1>1, Names DEF OsInv, ControlInv
<1>5. IdleInv'
  <2>1. ASSUME NEW d \in Cpus, Idle(d)' PROVE Idle(d)
    <3>1. CASE d = c
      BY <1>1, <2>1, <3>1 DEF Idle
    <3>2. CASE d # c
      BY <1>1, <2>1, <3>2, Names DEF Idle
    <3> QED
      BY <3>1, <3>2
  <2>2. Allowance' = Allowance /\ Allowance \in Nat
    BY <1>1 DEF Allowance
  <2> QED
    BY <1>2, <2>1, <2>2, SameIdle
<1> QED
  BY <1>2, <1>3, <1>4, <1>5 DEF OsInv

LEMMA DetachCpuInv ==
  ASSUME OsInv, NEW c \in Cpus, DetachCpu(c)
  PROVE  OsInv'
<1>1. /\ phase[c] = "working" /\ cpc[c] = "stop"
      /\ phase' = [phase EXCEPT ![c] = "detached"] /\ cpc' = [cpc EXCEPT ![c] = "off"]
      /\ UNCHANGED <<time, schedVars, proc, timeLeft, lpc, next, done, pc, inputVars,
                     freed>>
  BY DEF DetachCpu, Clock!Detach
<1>2. /\ pc' \in [Procs -> Nat] /\ \A x \in Procs : pc'[x] \in 0 .. size[x]
      /\ timeLeft' \in [Cpus -> 0 .. TimeSlot] /\ timeLeft' = timeLeft
  BY <1>1 DEF OsInv, OsTypeOK, InputInv
<1> QED
  BY <1>1, <1>2, CpuEndsSlot

LEMMA IdleSlotInv ==
  ASSUME OsInv, NEW c \in Cpus, IdleSlot(c)
  PROVE  OsInv'
<1>1. /\ phase[c] = "working" /\ cpc[c] = "recheck"
      /\ phase' = [phase EXCEPT ![c] = "waiting"] /\ cpc' = [cpc EXCEPT ![c] = "top"]
      /\ UNCHANGED <<time, schedVars, proc, timeLeft, lpc, next, done, pc, inputVars,
                     freed>>
  BY DEF IdleSlot, Clock!NextSlot
<1>2. /\ pc' \in [Procs -> Nat] /\ \A x \in Procs : pc'[x] \in 0 .. size[x]
      /\ timeLeft' \in [Cpus -> 0 .. TimeSlot] /\ timeLeft' = timeLeft
  BY <1>1 DEF OsInv, OsTypeOK, InputInv
<1> QED
  BY <1>1, <1>2, CpuEndsSlot

LEMMA RunSlotInv ==
  ASSUME OsInv, NEW c \in Cpus, RunSlot(c)
  PROVE  OsInv'
<1>1. /\ phase[c] = "working" /\ cpc[c] = "recheck" /\ proc[c] # NULL
      /\ phase' = [phase EXCEPT ![c] = "waiting"] /\ cpc' = [cpc EXCEPT ![c] = "top"]
      /\ UNCHANGED <<time, schedVars, proc, lpc, next, done, inputVars, freed>>
  BY DEF RunSlot, Clock!NextSlot
<1>2. PICK p \in Procs : p = proc[c] /\ Run(p)
  BY <1>1 DEF RunSlot, OsInv, OsTypeOK
<1>3. pc' \in [Procs -> Nat] /\ \A x \in Procs : pc'[x] \in 0 .. size[x]
  <2>1. /\ pc \in [Procs -> Nat] /\ size \in [Procs -> Nat]
        /\ \A x \in Procs : pc[x] \in 0 .. size[x]
    BY DEF OsInv, OsTypeOK, InputInv
  <2>2. CASE pc[p] >= size[p] /\ pc' = pc
    BY <2>1, <2>2
  <2>3. CASE ~(pc[p] >= size[p]) /\ pc' = [pc EXCEPT ![p] = @ + 1]
    BY <2>1, <2>3
  <2>4. CASE pc' = [pc EXCEPT ![p] = size[p]]
    BY <2>1, <2>4
  <2> QED
    BY <1>2, <2>2, <2>3, <2>4 DEF Run
<1>4. /\ timeLeft' \in [Cpus -> 0 .. TimeSlot]
      /\ \A d \in Cpus \ {c} : timeLeft'[d] = timeLeft[d]
  <2>1. timeLeft \in [Cpus -> 0 .. TimeSlot] /\ TimeSlot \in Nat \ {0}
    BY OsAssumption DEF OsInv, OsTypeOK
  <2>2. (IF timeLeft[c] = 0 THEN TimeSlot ELSE timeLeft[c]) - 1 \in 0 .. TimeSlot
    BY <2>1
  <2> QED
    BY <2>1, <2>2 DEF RunSlot
<1> QED
  BY <1>1, <1>3, <1>4, CpuEndsSlot

-----------------------------------------------------------------------------
(* The actions of the loader, and the end of a slot.                          *)

\* A priority the loader chooses is a level.
LEMMA LoadPrioLevel ==
  ASSUME InputInv, NEW p \in Procs
  PROVE  LoadPrio(p) \in Prios
<1>1. /\ cfgPrio[p] \in 0 .. ULONG_MAX /\ ownPrio[p] \in Prios
      /\ MAX_PRIO \in Nat \ {0}
  BY OsAssumption, SchedAssumption DEF InputInv
<1>2. ReadPrio(cfgPrio[p]) \in Prios
  BY <1>1 DEF ReadPrio, Prios
<1> QED
  BY <1>1, <1>2 DEF LoadPrio

\* The loader adds a process that was nowhere; it has used its allowance then.
LEMMA LoadProcInv ==
  ASSUME QueuesFit, OsInv, LoadProc
  PROVE  OsInv'
<1>1. PICK p \in Procs : p = next /\ next <= NumProcs
  BY SchedAssumption DEF LoadProc, OsInv, OsTypeOK, Procs
<1>2. /\ AddProc(p, LoadPrio(p)) /\ next' = p + 1 /\ next' \in 1 .. NumProcs + 1
      /\ p \in Nat /\ lpc = "load" /\ lpc' = "loaded" /\ phase[Loader] = "working"
      /\ UNCHANGED <<phase, time, cpc, proc, timeLeft, done, pc, size, start, cfgPrio,
                     ownPrio, freed>>
  BY <1>1, SchedAssumption DEF LoadProc, Active, inputVars, Procs
<1>3. ~InQueue(p) /\ ~Owned(p) /\ p \notin freed
  BY <1>1, <1>2 DEF OsInv, PlaceInv
<1>4. /\ SchedInv' /\ running' = running
      /\ \A x : InQueue(x)' <=> InQueue(x) \/ x = p
  <2>1. LoadPrio(p) \in Prios
    BY LoadPrioLevel DEF OsInv
  <2>2. /\ SchedInv' /\ UNCHANGED running
        /\ \A x : InQueue(x) => InQueue(x)'
        /\ \A x : InQueue(x)' => InQueue(x) \/ x = p
        /\ InQueue(p)'
    BY <1>2, <1>3, <2>1, SchedPart, AddProcContract DEF QueuesFit
  <2> QED
    BY <2>2
<1>5. OsTypeOK' /\ InputInv' /\ NoDoubles'
  BY <1>2, <1>4
  DEF OsInv, OsTypeOK, InputInv, SchedInv, Clock!ClockTypeOK, LoaderStates
<1>6. ControlInv'
  BY <1>2 DEF OsInv, ControlInv
<1>7. \A d \in Cpus, x \in Procs : Owns(d, x)' <=> Owns(d, x)
  BY <1>2 DEF Owns
<1>8. PlaceInv'
  <2>1. ASSUME NEW x \in Procs
        PROVE  /\ x >= next' => ~InQueue(x)' /\ ~Owned(x)' /\ x \notin freed'
               /\ x < next' => InQueue(x)' \/ Owned(x)' \/ x \in freed'
               /\ InQueue(x)' => ~Owned(x)' /\ x \notin freed'
               /\ x \in freed' => ~Owned(x)'
    <3>1. CASE x = p
      BY <1>2, <1>3, <1>4, <1>7, <3>1 DEF Owned
    <3>2. CASE x # p
      <4>1. (x >= next' <=> x >= next) /\ (x < next' <=> x < next)
        BY <1>1, <1>2, <3>2, Names
      <4> QED
        BY <1>2, <1>4, <1>7, <3>2, <4>1 DEF OsInv, PlaceInv, Owned
    <3> QED
      BY <3>1, <3>2
  <2> QED
    BY <1>7, <2>1 DEF OsInv, PlaceInv
<1>9. RunningListed'
  BY <1>2, <1>4, <1>7 DEF OsInv, RunningListed
<1>10. IdleInv'
  <2>1. Waits' = Waits \cup {p} /\ Fetching' = Fetching
    BY <1>2, <1>4 DEF Waits, Fetching
  <2>2. (\A d \in Cpus : Idle(d)' => Idle(d)) /\ Allowance = 0 /\ Allowance' = 1
    BY <1>2 DEF Idle, Allowance
  <2>3. /\ Cardinality(Waits') \in Nat
        /\ Cardinality(Waits') <= Cardinality(Waits) + 1
    <3>1. Cardinality(Waits \cup {p}) = IF p \in Waits THEN Cardinality(Waits)
                                       ELSE Cardinality(Waits) + 1
      BY CountsFinite, FS_AddElement
    <3> QED
      BY <2>1, <3>1, CountsFinite
  <2> QED
    BY <2>1, <2>2, <2>3, CountsFinite DEF OsInv, IdleInv
<1> QED
  BY <1>5, <1>6, <1>8, <1>9, <1>10 DEF OsInv

\* The other steps of the loader touch only its own state, done and the clock.
LEMMA LoaderMoves ==
  ASSUME OsInv, AwaitStart \/ EndLoadSlot \/ SetDone \/ DetachLoader
  PROVE  OsInv'
<1>1. /\ phase' \in [Threads -> Clock!Phases] /\ \A c \in Cpus : phase'[c] = phase[c]
      /\ lpc' \in LoaderStates /\ done' \in BOOLEAN
      /\ UNCHANGED <<time, ready, slot, running, prio, cpc, proc, timeLeft, next, pc,
                     size, start, cfgPrio, ownPrio, freed>>
  BY Names
  DEF AwaitStart, EndLoadSlot, SetDone, DetachLoader, Clock!NextSlot, Clock!Detach,
      OsInv, OsTypeOK, Clock!ClockTypeOK, Clock!Phases, LoaderStates, schedVars,
      inputVars
<1>2. /\ SchedTypeOK' /\ NoDoubles' /\ PlaceInv' /\ RunningListed'
      /\ Waits' = Waits /\ Fetching' = Fetching
  BY <1>1, SamePlaces
<1>3. OsTypeOK' /\ InputInv'
  BY <1>1, <1>2 DEF OsInv, OsTypeOK, InputInv, Clock!ClockTypeOK
<1>4. /\ lpc' \in {"loaded", "leaving"} => phase'[Loader] = "working"
      /\ lpc' = "off" <=> phase'[Loader] = "detached"
      /\ done' <=> lpc' \in {"leaving", "off"}
      /\ done' => next = NumProcs + 1
      /\ done => done'
  <2>1. /\ phase \in [Threads -> Clock!Phases] /\ Loader \in Threads
        /\ next \in 1 .. NumProcs + 1 /\ NumProcs \in Nat
    BY SchedAssumption DEF OsInv, OsTypeOK, Clock!ClockTypeOK, Threads
  <2>2. CASE AwaitStart
    BY <2>1, <2>2 DEF AwaitStart, Clock!NextSlot, OsInv, ControlInv
  <2>3. CASE EndLoadSlot
    BY <2>1, <2>3 DEF EndLoadSlot, Clock!NextSlot, OsInv, ControlInv
  <2>4. CASE SetDone
    BY <2>1, <2>4 DEF SetDone, Active, OsInv, ControlInv
  <2>5. CASE DetachLoader
    BY <2>1, <2>5 DEF DetachLoader, Clock!Detach, OsInv, ControlInv
  <2> QED
    BY <2>2, <2>3, <2>4, <2>5
<1>5. ControlInv'
  BY <1>1, <1>4 DEF OsInv, ControlInv
<1>6. IdleInv'
  <2>1. \A d \in Cpus : Idle(d)' => Idle(d)
    BY <1>1 DEF Idle
  <2>2. Allowance <= Allowance'
    BY <1>4, Names
    DEF Allowance, AwaitStart, EndLoadSlot, SetDone, Active, DetachLoader,
        Clock!NextSlot, Clock!Detach, OsInv, OsTypeOK, ControlInv, Clock!ClockTypeOK
  <2> QED
    BY <1>2, <2>1, <2>2, SameIdle
<1> QED
  BY <1>2, <1>3, <1>5, <1>6 DEF OsInv

\* When the slot ends no CPU is about to fetch a process, and one that is still
\* idle afterwards has stopped, which means that the loader has finished.
LEMMA SlotEndsInv ==
  ASSUME OsInv, SlotEnds
  PROVE  OsInv'
<1>1. /\ \A t \in Threads : phase[t] # "working"
      /\ \A t \in Threads : phase'[t] = IF phase[t] = "waiting" THEN "working"
                                        ELSE phase[t]
      /\ phase' \in [Threads -> Clock!Phases] /\ time' \in Nat
      /\ UNCHANGED <<ready, slot, running, prio, cpc, proc, timeLeft, lpc, next, done,
                     pc, size, start, cfgPrio, ownPrio, freed>>
  BY DEF SlotEnds, Clock!Tick, Clock!NobodyWorks, OsInv, OsTypeOK, Clock!ClockTypeOK,
         Clock!Phases, schedVars, inputVars
<1>2. /\ SchedTypeOK' /\ NoDoubles' /\ PlaceInv' /\ RunningListed'
      /\ Waits' = Waits /\ Fetching' = Fetching
  BY <1>1, SamePlaces
<1>3. OsTypeOK' /\ InputInv'
  BY <1>1, <1>2 DEF OsInv, OsTypeOK, InputInv, Clock!ClockTypeOK
<1>4. ControlInv'
  BY <1>1 DEF OsInv, ControlInv, Threads
<1>5. IdleInv'
  <2>1. ASSUME NEW c \in Cpus, Idle(c)' PROVE Idle(c) /\ done
    BY <1>1, <2>1 DEF Idle, OsInv, ControlInv, Threads
  <2>2. Allowance' \in Nat /\ (done => Allowance = 0)
    BY DEF Allowance, OsInv, ControlInv
  <2> QED
    BY <1>2, <2>1, <2>2, SameIdle
<1> QED
  BY <1>2, <1>3, <1>4, <1>5 DEF OsInv

-----------------------------------------------------------------------------
(* The invariant holds.                                                       *)

LEMMA OsInitInv == Init => OsInv
<1> SUFFICES ASSUME Init PROVE OsInv
  OBVIOUS
<1>1. /\ phase = [t \in Threads |-> "working"] /\ time = 0
      /\ prio = [p \in Procs |-> 0] /\ cpc = [c \in Cpus |-> "top"]
      /\ proc = [c \in Cpus |-> NULL] /\ timeLeft = [c \in Cpus |-> 0]
      /\ lpc = "load" /\ next = 1 /\ done = FALSE /\ pc = [p \in Procs |-> 0]
      /\ freed = {} /\ SchedInit
  BY DEF Init, Clock!ClockInit
<1>2. InputInv /\ \A p \in Procs : pc[p] \in 0 .. size[p]
  <2>1. size \in [Procs -> Nat] /\ start \in [Procs -> Nat]
    BY OsAssumption DEF Init
  <2> QED
    BY <1>1, <2>1 DEF Init, InputInv
<1>3. SchedInv /\ \A p : ~InQueue(p) /\ ~Occurs(running, p)
  <2>1. prio \in [Procs -> Prios]
    BY <1>1, SchedAssumption DEF Prios
  <2> QED
    BY <1>1, <2>1, SchedInitInv
<1>4. OsTypeOK /\ NoDoubles
  <2>1. SchedTypeOK /\ NoDoubles
    BY <1>3 DEF SchedInv
  <2>2. Clock!ClockTypeOK
    BY <1>1 DEF Clock!ClockTypeOK, Clock!Phases
  <2>3. cpc \in [Cpus -> CpuStates] /\ lpc \in LoaderStates
    BY <1>1 DEF CpuStates, LoaderStates
  <2>4. proc \in [Cpus -> Procs \cup {NULL}] /\ timeLeft \in [Cpus -> 0 .. TimeSlot]
    BY <1>1, OsAssumption
  <2>5. next \in 1 .. NumProcs + 1 /\ done \in BOOLEAN /\ freed \subseteq Procs
    <3>1. 1 \in 1 .. NumProcs + 1
      BY SchedAssumption
    <3> QED
      BY <1>1, <3>1
  <2> QED
    BY <1>2, <2>1, <2>2, <2>3, <2>4, <2>5 DEF OsTypeOK
<1>5. ControlInv
  BY <1>1, Names DEF ControlInv
<1>6. \A c \in Cpus, p \in Procs : ~Owns(c, p)
  BY <1>1, Names DEF Owns
<1>7. PlaceInv
  <2>1. \A p \in Procs : ~(p < next)
    BY <1>1 DEF Procs
  <2> QED
    BY <1>1, <1>3, <1>6, <2>1 DEF PlaceInv, Owned
<1>8. RunningListed
  BY <1>3, <1>6 DEF RunningListed
<1>9. IdleInv
  <2>1. \A c \in Cpus : ~Idle(c)
    BY <1>1, Names DEF Idle
  <2> QED
    BY <2>1 DEF IdleInv
<1> QED
  BY <1>2, <1>4, <1>5, <1>7, <1>8, <1>9 DEF OsInv

LEMMA OsNextInv == QueuesFit /\ OsInv /\ [Next]_osVars => OsInv'
<1> SUFFICES ASSUME QueuesFit, OsInv, [Next]_osVars PROVE OsInv'
  OBVIOUS
<1>1. ASSUME NEW c \in Cpus, CpuStep(c) PROVE OsInv'
  BY <1>1, RetireProcInv, FreeProcInv, PreemptProcInv, KeepProcInv, FetchProcInv,
     StopCpuInv, DetachCpuInv, IdleSlotInv, RunSlotInv DEF CpuStep
<1>2. CASE LoaderStep
  BY <1>2, LoadProcInv, LoaderMoves DEF LoaderStep
<1>3. CASE SlotEnds
  BY <1>3, SlotEndsInv
<1>4. CASE UNCHANGED osVars
  <2>1. UNCHANGED <<phase, time, ready, slot, running, prio, cpc, proc, timeLeft, lpc,
                    next, done, pc, size, start, cfgPrio, ownPrio, freed>>
    BY <1>4 DEF osVars, schedVars
  <2>2. /\ SchedTypeOK' /\ NoDoubles' /\ PlaceInv' /\ RunningListed'
        /\ Waits' = Waits /\ Fetching' = Fetching
    BY <2>1, SamePlaces
  <2>3. OsTypeOK' /\ InputInv' /\ ControlInv'
    BY <2>1, <2>2 DEF OsInv, OsTypeOK, InputInv, ControlInv, Clock!ClockTypeOK
  <2>4. IdleInv'
    <3>1. (\A c \in Cpus : Idle(c)' <=> Idle(c)) /\ Allowance' = Allowance
      BY <2>1 DEF Idle, Allowance
    <3> QED
      BY <2>2, <3>1 DEF OsInv, IdleInv
  <2> QED
    BY <2>2, <2>3, <2>4 DEF OsInv
<1> QED
  BY <1>1, <1>2, <1>3, <1>4 DEF Next, Terminated

LEMMA OsInvHolds == ASSUME QueuesFit PROVE Spec => []OsInv
<1>1. Init => OsInv
  BY OsInitInv
<1>2. OsInv /\ [Next]_osVars => OsInv'
  BY OsNextInv
<1> QED
  BY <1>1, <1>2, PTL DEF Spec

-----------------------------------------------------------------------------
(* What follows from it.                                                      *)

\* Every variable keeps its type.
THEOREM OsTypes == ASSUME QueuesFit PROVE Spec => []OsTypeOK
<1>1. OsInv => OsTypeOK
  BY DEF OsInv
<1> QED
  BY <1>1, OsInvHolds, PTL

\* running_list is exactly the processes that execute.
THEOREM RunningExact == ASSUME QueuesFit PROVE Spec => []RunningListed
<1>1. OsInv => RunningListed
  BY DEF OsInv
<1> QED
  BY <1>1, OsInvHolds, PTL

\* The places of a process in the ready queues: one if it is queued, else none.
LEMMA PositionCount ==
  ASSUME OsInv, NEW p \in Procs
  PROVE  Cardinality(Positions(p)) = IF InQueue(p) THEN 1 ELSE 0
<1>1. CASE ~InQueue(p)
  <2>1. Positions(p) = {}
    <3> SUFFICES ASSUME NEW at \in Positions(p) PROVE FALSE
      OBVIOUS
    <3>1. /\ at[1] \in Prios /\ at[2] \in 1 .. NumProcs + MAX_QUEUE_SIZE
          /\ at[2] <= Len(ready[at[1]]) /\ ready[at[1]][at[2]] = p
      BY DEF Positions
    <3>2. ready[at[1]] \in Seq(Procs)
      BY <3>1 DEF OsInv, OsTypeOK, SchedTypeOK
    <3>3. at[2] \in 1 .. Len(ready[at[1]])
      BY <3>1, <3>2, QueueType, SchedAssumption
    <3> QED
      BY <1>1, <3>1, <3>3 DEF InQueue, Occurs
  <2> QED
    BY <1>1, <2>1, FS_EmptySet
<1>2. CASE InQueue(p)
  <2>1. PICK i \in Prios : Occurs(ready[i], p)
    BY <1>2 DEF InQueue
  <2>2. PICK k \in 1 .. Len(ready[i]) : ready[i][k] = p
    BY <2>1 DEF Occurs
  <2>3. \A j \in Prios : /\ ready[j] \in Seq(Procs) /\ Len(ready[j]) \in Nat
                         /\ Len(ready[j]) <= MAX_QUEUE_SIZE
    BY QueueType DEF OsInv, OsTypeOK, SchedTypeOK
  <2>4. <<i, k>> \in Positions(p)
    <3>1. k \in 1 .. NumProcs + MAX_QUEUE_SIZE /\ k <= Len(ready[i])
      BY <2>2, <2>3, SchedAssumption
    <3> QED
      BY <2>2, <3>1 DEF Positions
  <2>5. ASSUME NEW at \in Positions(p) PROVE at = <<i, k>>
    <3>1. /\ at \in Prios \X (1 .. NumProcs + MAX_QUEUE_SIZE)
          /\ at[1] \in Prios /\ at[2] \in 1 .. NumProcs + MAX_QUEUE_SIZE
          /\ at[2] <= Len(ready[at[1]]) /\ ready[at[1]][at[2]] = p
      BY DEF Positions
    <3>2. at[2] \in 1 .. Len(ready[at[1]])
      BY <2>3, <3>1, SchedAssumption
    <3>3. at[1] = i
      BY <2>1, <3>1, <3>2 DEF OsInv, NoDoubles, Occurs
    <3>4. at[2] = k
      BY <2>2, <3>1, <3>2, <3>3 DEF OsInv, NoDoubles, Once
    <3> QED
      BY <3>1, <3>3, <3>4
  <2>6. Positions(p) = {<<i, k>>}
    BY <2>4, <2>5
  <2> QED
    BY <1>2, <2>6, FS_Singleton
<1> QED
  BY <1>1, <1>2

\* The CPUs that have a process in their hands: one or none.
LEMMA OwnerCount ==
  ASSUME OsInv, NEW p \in Procs
  PROVE  Cardinality({c \in Cpus : Owns(c, p)}) = IF Owned(p) THEN 1 ELSE 0
<1>1. CASE ~Owned(p)
  <2>1. {c \in Cpus : Owns(c, p)} = {}
    BY <1>1 DEF Owned
  <2> QED
    BY <1>1, <2>1, FS_EmptySet
<1>2. CASE Owned(p)
  <2>1. PICK d \in Cpus : Owns(d, p)
    BY <1>2 DEF Owned
  <2>2. {c \in Cpus : Owns(c, p)} = {d}
    BY <2>1 DEF OsInv, PlaceInv
  <2> QED
    BY <1>2, <2>2, FS_Singleton
<1> QED
  BY <1>1, <1>2

\* Every process is in exactly one place at any time: not loaded, once in one
\* ready queue, in the hands of one CPU, or freed.
THEOREM ProcessesOwned == ASSUME QueuesFit PROVE Spec => []Ownership
<1>1. OsInv => Ownership
  <2> SUFFICES ASSUME OsInv, NEW p \in Procs
               PROVE  Cardinality(Positions(p)) + Cardinality({c \in Cpus : Owns(c, p)})
                        + (IF p >= next THEN 1 ELSE 0)
                        + (IF p \in freed THEN 1 ELSE 0) = 1
    BY DEF Ownership
  <2>1. /\ p >= next => ~InQueue(p) /\ ~Owned(p) /\ p \notin freed
        /\ p < next => InQueue(p) \/ Owned(p) \/ p \in freed
        /\ InQueue(p) => ~Owned(p) /\ p \notin freed
        /\ p \in freed => ~Owned(p)
    BY DEF OsInv, PlaceInv
  <2>2. p \in Nat /\ next \in Nat
    BY Names, SchedAssumption DEF OsInv, OsTypeOK
  <2>3. (p >= next \/ p < next) /\ ~(p >= next /\ p < next)
    BY <2>2
  <2> HIDE DEF Procs
  <2> QED
    BY <2>1, <2>3, PositionCount, OwnerCount
<1> QED
  BY <1>1, OsInvHolds, PTL

\* Once every CPU has stopped, every process has been executed to its end.
THEOREM NothingLost == ASSUME QueuesFit PROVE Spec => []NoProcessLost
<1>1. OsInv => NoProcessLost
  <2> SUFFICES ASSUME OsInv, \A c \in Cpus : cpc[c] = "off"
               PROVE  freed = Procs
    BY DEF NoProcessLost
  <2>1. PICK c \in Cpus : TRUE
    BY Names
  <2>2. /\ \A d \in Cpus : proc[d] = NULL
        /\ done /\ lpc \in {"leaving", "off"} /\ next = NumProcs + 1
    BY <2>1 DEF OsInv, ControlInv
  <2>3. Waits = {}
    <3>1. Idle(c) /\ Fetching = {} /\ Allowance = 0
      BY <2>2 DEF Idle, Fetching, Allowance
    <3>2. Cardinality(Fetching) = 0
      BY <3>1, FS_EmptySet
    <3>3. Cardinality(Waits) = 0
      BY <3>1, <3>2, CountsFinite DEF OsInv, IdleInv
    <3> QED
      BY <3>3, CountsFinite, FS_EmptySet
  <2>4. ASSUME NEW p \in Procs PROVE p \in freed
    <3>1. p < next
      BY <2>2, Names, SchedAssumption
    <3>2. ~InQueue(p) /\ ~Owned(p)
      BY <2>2, <2>3, Names DEF Waits, Owned, Owns
    <3> QED
      BY <3>1, <3>2 DEF OsInv, PlaceInv
  <2> QED
    BY <2>4 DEF OsInv, OsTypeOK
<1> QED
  BY <1>1, OsInvHolds, PTL

\* The processes in the ready queues, as WorkConserving names them.
LEMMA WaitsAre == ASSUME OsInv PROVE WaitingProcs = Waits
<1>1. ASSUME NEW p \in Waits PROVE p \in WaitingProcs
  BY DEF Waits, WaitingProcs, InQueue, Occurs
<1>2. ASSUME NEW p \in WaitingProcs PROVE p \in Waits
  <2>1. PICK i \in Prios : \E k \in 1 .. Len(ready[i]) : ready[i][k] = p
    BY DEF WaitingProcs
  <2>2. InQueue(p)
    BY <2>1 DEF InQueue, Occurs
  <2> QED
    BY <2>2, SchedPart DEF Waits
<1> QED
  BY <1>1, <1>2

\* A slot never ends with a CPU that sat it out while more processes wait than
\* the one the loader has just added.
THEOREM WorkConserved == ASSUME QueuesFit PROVE Spec => WorkConserving
<1>1. ASSUME OsInv, [Next]_osVars, time' # time, NEW c \in Cpus, proc[c] = NULL
      PROVE  Cardinality(WaitingProcs) <= (IF lpc = "off" THEN 0 ELSE 1)
  <2>1. SlotEnds
    BY <1>1
    DEF Next, CpuStep, RetireProc, FreeProc, PreemptProc, KeepProc, FetchProc, StopCpu,
        DetachCpu, IdleSlot, RunSlot, LoaderStep, AwaitStart, LoadProc, EndLoadSlot,
        SetDone, DetachLoader, Terminated, osVars, Clock!NextSlot, Clock!Detach
  <2>2. \A t \in Threads : phase[t] \in {"waiting", "detached"}
    BY <1>1, <2>1
    DEF SlotEnds, Clock!Tick, Clock!NobodyWorks, OsInv, OsTypeOK, Clock!ClockTypeOK,
        Clock!Phases
  <2>3. Idle(c)
    BY <1>1, <2>2 DEF Idle, OsInv, ControlInv, Threads
  <2>4. Fetching = {}
    BY <1>1, <2>2 DEF Fetching, OsInv, ControlInv, Threads
  <2>5. Cardinality(Fetching) = 0
    BY <2>4, FS_EmptySet
  <2>6. Allowance <= (IF lpc = "off" THEN 0 ELSE 1)
    BY DEF Allowance
  <2>7. Cardinality(Waits) <= Allowance /\ Allowance \in Nat
    BY <1>1, <2>3, <2>5, CountsFinite DEF OsInv, IdleInv, Allowance
  <2> QED
    BY <1>1, <2>6, <2>7, CountsFinite, WaitsAre
<1>2. OsInv /\ [Next]_osVars
        => [time' # time /\ (\E c \in Cpus : proc[c] = NULL)
              => Cardinality(WaitingProcs) <= (IF lpc = "off" THEN 0 ELSE 1)]_osVars
  BY <1>1
<1> QED
  BY <1>2, OsInvHolds, PTL DEF Spec, WorkConserving

\* A process starts its stay on a CPU with a whole quantum.
THEOREM QuantumFresh == ASSUME QueuesFit PROVE Spec => FreshQuantum
<1>1. ASSUME OsInv, [Next]_osVars, NEW c \in Cpus, cpc[c] # "recheck",
             cpc'[c] = "recheck", proc'[c] # proc[c]
      PROVE  timeLeft'[c] = 0
  <2>1. PICK d \in Cpus : FetchProc(d)
    BY <1>1
    DEF Next, CpuStep, RetireProc, FreeProc, PreemptProc, KeepProc, StopCpu,
        DetachCpu, IdleSlot, RunSlot, LoaderStep, AwaitStart, LoadProc, EndLoadSlot,
        SetDone, DetachLoader, SlotEnds, Terminated, osVars
  <2>2. c = d
    BY <1>1, <2>1 DEF FetchProc, OsInv, OsTypeOK
  <2> QED
    BY <1>1, <2>1, <2>2 DEF FetchProc, OsInv, ControlInv
<1>2. OsInv /\ [Next]_osVars
        => [\A c \in Cpus :
              cpc[c] # "recheck" /\ cpc'[c] = "recheck" /\ proc'[c] # proc[c]
                => timeLeft'[c] = 0]_osVars
  BY <1>1
<1> QED
  BY <1>2, OsInvHolds, PTL DEF Spec, FreshQuantum

-----------------------------------------------------------------------------
(* The simulator implements the life cycle that module Lifecycle states: each *)
(* step of a CPU, the loader or the timer is one step of one process's life,  *)
(* or none.                                                                   *)

\* What stateBar says of one process, and whether it has had its turn.
State(p) ==
  IF p >= next THEN "new"
  ELSE IF p \in freed \/ \E c \in Cpus : Owns(c, p) /\ cpc[c] = "free"
  THEN "finished"
  ELSE IF \E c \in Cpus : Owns(c, p) THEN "running" ELSE "ready"

\* A CPU has p in its hands, has run it to its end, or has run it in this slot.
Retiring(p) == \E c \in Cpus : Owns(c, p) /\ cpc[c] = "free"
Ran(p)      == \E c \in Cpus : Owns(c, p) /\ phase[c] = "waiting"

LEMMA BarsAre ==
  /\ stateBar = [p \in Procs |-> State(p)]
  /\ stateBar' = [p \in Procs |-> State(p)']
  /\ ranBar = {p \in Procs : Ran(p)}
  /\ ranBar' = {p \in Procs : Ran(p)'}
BY DEF stateBar, ranBar, State, Ran

-----------------------------------------------------------------------------
(* How the state of a process is read off the CPUs, and what a step changes.  *)

\* The state of a process that a CPU has in its hands.
LEMMA OwnedState ==
  ASSUME OsInv, NEW c \in Cpus, NEW p \in Procs, Owns(c, p)
  PROVE  /\ ~(p >= next) /\ p \notin freed
         /\ State(p) = (IF cpc[c] = "free" THEN "finished" ELSE "running")
         /\ Retiring(p) <=> cpc[c] = "free"
         /\ Ran(p) <=> phase[c] = "waiting"
<1>1. \A d \in Cpus : Owns(d, p) => d = c
  BY DEF OsInv, PlaceInv
<1>2. ~(p >= next) /\ p \notin freed
  BY DEF OsInv, PlaceInv, Owned
<1> QED
  BY <1>1, <1>2 DEF State, Retiring, Ran

\* A process whose place does not change keeps its state.
LEMMA SameState ==
  ASSUME NEW x \in Procs, x >= next' <=> x >= next, Owned(x)' <=> Owned(x),
         (x \in freed \/ Retiring(x))' <=> x \in freed \/ Retiring(x)
  PROVE  State(x)' = State(x)
BY DEF State, Retiring, Owned

\* A step that changes nothing the life cycle sees.
LEMMA Stutter ==
  ASSUME \A x \in Procs : State(x)' = State(x) /\ (Ran(x)' <=> Ran(x)),
         UNCHANGED <<pc, size>>
  PROVE  UNCHANGED Life!lifeVars
<1>1. stateBar' = stateBar /\ ranBar' = ranBar
  BY BarsAre
<1> QED
  BY <1>1 DEF Life!lifeVars

\* A step that changes the state of one process.
LEMMA OneMoves ==
  ASSUME NEW p \in Procs, NEW s, State(p)' = s,
         \A x \in Procs : x # p => State(x)' = State(x)
  PROVE  /\ stateBar[p] = State(p)
         /\ stateBar' = [stateBar EXCEPT ![p] = s]
BY BarsAre

-----------------------------------------------------------------------------
(* The steps of a CPU.                                                        *)

LEMMA RetireIsFinish ==
  ASSUME OsInv, NEW c \in Cpus, RetireProc(c)
  PROVE  \E p \in Procs : Life!Finish(p)
<1>1. PICK p \in Procs : p = proc[c]
  BY DEF RetireProc, OsInv, OsTypeOK
<1>2. /\ cpc[c] = "top" /\ cpc'[c] = "free" /\ \A d \in Cpus \ {c} : cpc'[d] = cpc[d]
      /\ phase[c] = "working" /\ pc[p] = size[p]
      /\ UNCHANGED <<phase, proc, next, freed, pc, size>>
  BY <1>1 DEF RetireProc, Active, OsInv, OsTypeOK, inputVars
<1>3. Owns(c, p) /\ \A d \in Cpus, x \in Procs : Owns(d, x)' <=> Owns(d, x)
  BY <1>1, <1>2 DEF Owns
<1>4. ~(p >= next) /\ p \notin freed /\ State(p) = "running" /\ ~Ran(p)
  BY <1>2, <1>3, OwnedState
<1>5. State(p)' = "finished"
  BY <1>2, <1>3, <1>4 DEF State
<1>6. ASSUME NEW x \in Procs, x # p PROVE State(x)' = State(x)
  <2>1. \A d \in Cpus : Owns(d, x) => d # c
    BY <1>1, <1>6 DEF Owns
  <2>2. (Owned(x)' <=> Owned(x)) /\ (Retiring(x)' <=> Retiring(x))
    BY <1>2, <1>3, <2>1 DEF Owned, Retiring
  <2> QED
    BY <1>2, <2>2, SameState
<1>7. ranBar' = ranBar /\ p \notin ranBar
  BY <1>2, <1>3, <1>4, BarsAre DEF Ran
<1> QED
  BY <1>2, <1>4, <1>5, <1>6, <1>7, OneMoves DEF Life!Finish

\* The pcb is freed: the process was finished before.
LEMMA FreeIsStutter ==
  ASSUME OsInv, NEW c \in Cpus, FreeProc(c)
  PROVE  UNCHANGED Life!lifeVars
<1>1. PICK p \in Procs : p = proc[c]
  BY DEF FreeProc, OsInv, OsTypeOK, ControlInv
<1>2. /\ cpc[c] = "free" /\ cpc'[c] = "get" /\ \A d \in Cpus \ {c} : cpc'[d] = cpc[d]
      /\ phase[c] = "working" /\ freed' = freed \cup {p}
      /\ UNCHANGED <<phase, proc, next, pc, size>>
  BY <1>1 DEF FreeProc, OsInv, OsTypeOK, ControlInv, inputVars
<1>3. Owns(c, p) /\ \A d \in Cpus, x \in Procs : Owns(d, x)' <=> Owns(d, x) /\ d # c
  BY <1>1, <1>2 DEF Owns
<1>4. ~(p >= next) /\ State(p) = "finished" /\ ~Ran(p)
  BY <1>2, <1>3, OwnedState
<1>5. State(p)' = "finished"
  BY <1>2, <1>4 DEF State
<1>6. ASSUME NEW x \in Procs, x # p
      PROVE  State(x)' = State(x) /\ (Ran(x)' <=> Ran(x))
  <2>1. \A d \in Cpus : Owns(d, x) => d # c
    BY <1>1, <1>6 DEF Owns
  <2>2. (Owned(x)' <=> Owned(x)) /\ (Retiring(x)' <=> Retiring(x)) /\ (Ran(x)' <=> Ran(x))
    BY <1>2, <1>3, <2>1 DEF Owned, Retiring, Ran
  <2> QED
    BY <1>2, <1>6, <2>2, SameState
<1>7. Ran(p)' <=> Ran(p)
  BY <1>2, <1>3, <1>4 DEF Ran
<1> QED
  BY <1>2, <1>4, <1>5, <1>6, <1>7, Stutter

LEMMA PreemptIsPreempt ==
  ASSUME OsInv, NEW c \in Cpus, PreemptProc(c)
  PROVE  \E p \in Procs : Life!Preempt(p)
<1>1. PICK p \in Procs : p = proc[c]
  BY DEF PreemptProc, OsInv, OsTypeOK
<1>2. /\ cpc[c] = "top" /\ cpc'[c] = "get" /\ \A d \in Cpus \ {c} : cpc'[d] = cpc[d]
      /\ phase[c] = "working"
      /\ UNCHANGED <<phase, proc, next, freed, pc, size>>
  BY <1>1 DEF PreemptProc, Active, OsInv, OsTypeOK, inputVars
<1>3. Owns(c, p) /\ \A d \in Cpus, x \in Procs : Owns(d, x)' <=> Owns(d, x) /\ d # c
  BY <1>1, <1>2 DEF Owns
<1>4. ~(p >= next) /\ p \notin freed /\ State(p) = "running" /\ ~Ran(p)
  BY <1>2, <1>3, OwnedState
<1>5. State(p)' = "ready"
  <2>1. \A d \in Cpus : ~Owns(d, p)'
    BY <1>3 DEF OsInv, PlaceInv
  <2> QED
    BY <1>2, <1>4, <2>1 DEF State
<1>6. ASSUME NEW x \in Procs, x # p
      PROVE  State(x)' = State(x) /\ (Ran(x)' <=> Ran(x))
  <2>1. \A d \in Cpus : Owns(d, x) => d # c
    BY <1>1, <1>6 DEF Owns
  <2>2. (Owned(x)' <=> Owned(x)) /\ (Retiring(x)' <=> Retiring(x)) /\ (Ran(x)' <=> Ran(x))
    BY <1>2, <1>3, <2>1 DEF Owned, Retiring, Ran
  <2> QED
    BY <1>2, <2>2, SameState
<1>7. ranBar' = ranBar /\ p \notin ranBar
  <2>1. ~Ran(p)'
    BY <1>2, <1>3, <1>4 DEF Ran
  <2> QED
    BY <1>4, <1>6, <2>1, BarsAre
<1> QED
  BY <1>2, <1>4, <1>5, <1>6, <1>7, OneMoves DEF Life!Preempt

\* A CPU that is about to fetch a process leaves a CPU free for it.
LEMMA CpuToSpare ==
  ASSUME OsInv, NEW c \in Cpus, \A x \in Procs : ~Owns(c, x)
  PROVE  Cardinality(Life!Running) < NumCpus
<1>1. /\ IsFiniteSet(Cpus) /\ Cardinality(Cpus) = NumCpus
      /\ IsFiniteSet(Cpus \ {c}) /\ Cardinality(Cpus \ {c}) = NumCpus - 1
      /\ NumCpus \in Nat \ {0}
  <2>1. NumCpus \in Nat \ {0}
    BY OsAssumption
  <2>2. IsFiniteSet(Cpus) /\ Cardinality(Cpus) = NumCpus
    BY <2>1, FS_Interval DEF Cpus
  <2>3. /\ IsFiniteSet(Cpus \ {c})
        /\ Cardinality(Cpus \ {c}) = Cardinality(Cpus) - 1
    BY <2>2, FS_RemoveElement
  <2> QED
    BY <2>1, <2>2, <2>3
<1>2. \A p \in Life!Running : p \in Procs /\ \E d \in Cpus \ {c} : Owns(d, p)
  <2> SUFFICES ASSUME NEW p \in Life!Running
               PROVE  p \in Procs /\ \E d \in Cpus \ {c} : Owns(d, p)
    OBVIOUS
  <2>1. p \in Procs /\ State(p) = "running"
    BY BarsAre DEF Life!Running
  <2>2. \E d \in Cpus : Owns(d, p)
    BY <2>1 DEF State
  <2> QED
    BY <2>1, <2>2
<1> DEFINE owner == [p \in Life!Running |-> CHOOSE d \in Cpus \ {c} : Owns(d, p)]
<1>3. \A p \in Life!Running : owner[p] \in Cpus \ {c} /\ Owns(owner[p], p)
  BY <1>2
<1>4. owner \in Injection(Life!Running, Cpus \ {c})
  <2>1. owner \in [Life!Running -> Cpus \ {c}]
    BY <1>2
  <2>2. ASSUME NEW p \in Life!Running, NEW x \in Life!Running, owner[p] = owner[x]
        PROVE  p = x
    BY <1>3, <2>2 DEF Owns
  <2> QED
    BY <2>1, <2>2 DEF Injection, IsInjective
<1> HIDE DEF owner
<1>5. /\ IsFiniteSet(Life!Running)
      /\ Cardinality(Life!Running) <= Cardinality(Cpus \ {c})
  BY <1>1, <1>4, FS_Injection
<1>6. Cardinality(Life!Running) \in Nat
  BY <1>5, FS_CardinalityType
<1> QED
  BY <1>1, <1>5, <1>6

LEMMA FetchIsDispatch ==
  ASSUME QueuesFit, OsInv, NEW c \in Cpus, FetchProc(c)
  PROVE  (\E p \in Procs : Life!Dispatch(p)) \/ UNCHANGED Life!lifeVars
<1>1. PICK p \in Procs \cup {NULL} : GetProc(p) /\ proc' = [proc EXCEPT ![c] = p]
  BY DEF FetchProc
<1>2. /\ cpc[c] = "get" \/ (cpc[c] = "top" /\ proc[c] = NULL)
      /\ cpc'[c] = "recheck" /\ \A d \in Cpus \ {c} : cpc'[d] = cpc[d]
      /\ proc'[c] = p /\ \A d \in Cpus \ {c} : proc'[d] = proc[d]
      /\ phase[c] = "working"
      /\ UNCHANGED <<phase, next, freed, pc, size>>
  BY <1>1 DEF FetchProc, OsInv, OsTypeOK, ControlInv, Active, inputVars
<1>3. \A x \in Procs : ~Owns(c, x)
  BY <1>2, Names DEF Owns
<1>4. \A d \in Cpus, x \in Procs : Owns(d, x)' <=> IF d = c THEN x = p ELSE Owns(d, x)
  BY <1>2 DEF Owns
<1>5. ASSUME NEW x \in Procs, x # p
      PROVE  State(x)' = State(x) /\ (Ran(x)' <=> Ran(x))
  <2>1. \A d \in Cpus : Owns(d, x)' <=> Owns(d, x)
    BY <1>3, <1>4, <1>5
  <2>2. (Owned(x)' <=> Owned(x)) /\ (Retiring(x)' <=> Retiring(x)) /\ (Ran(x)' <=> Ran(x))
    BY <1>2, <1>3, <2>1 DEF Owned, Retiring, Ran
  <2> QED
    BY <1>2, <2>2, SameState
<1>6. CASE p = NULL
  BY <1>2, <1>5, <1>6, Names, Stutter
<1>7. CASE p # NULL
  <2>1. p \in Procs
    BY <1>7
  <2>2. InQueue(p)
    <3>1. /\ \A x : InQueue(x) => Len(running) < MAX_QUEUE_SIZE
          /\ \A x : ~(InQueue(x) /\ Occurs(running, x))
      BY RoomToRun
    <3> QED
      BY <1>1, <1>7, <3>1, SchedPart, GetProcContract
  <2>3. ~Owned(p) /\ p \notin freed /\ ~(p >= next)
    BY <2>1, <2>2 DEF OsInv, PlaceInv
  <2>4. State(p) = "ready" /\ ~Ran(p)
    BY <2>3 DEF State, Owned, Ran
  <2>5. State(p)' = "running" /\ ~Ran(p)'
    <3>1. \A d \in Cpus : Owns(d, p)' <=> d = c
      BY <1>4, <2>1, <2>3 DEF Owned
    <3>2. ~Ran(p)'
      BY <1>2, <3>1 DEF Ran
    <3>3. ~Retiring(p)' /\ \E d \in Cpus : Owns(d, p)'
      BY <1>2, <3>1 DEF Retiring
    <3> QED
      BY <1>2, <2>3, <3>2, <3>3 DEF State, Retiring
  <2>6. ranBar' = ranBar
    BY <1>5, <2>4, <2>5, BarsAre
  <2>7. /\ stateBar[p] = "ready"
        /\ stateBar' = [stateBar EXCEPT ![p] = "running"]
    BY <1>5, <2>1, <2>4, <2>5, OneMoves
  <2>8. Cardinality(Life!Running) < NumCpus
    BY <1>3, CpuToSpare
  <2>9. Life!Dispatch(p)
    BY <1>2, <2>6, <2>7, <2>8 DEF Life!Dispatch, Life!Cardinality, Cardinality
  <2> QED
    BY <2>1, <2>9
<1> QED
  BY <1>6, <1>7

\* Steps in which no process changes hands: they leave the processes' states.
LEMMA SameHands ==
  ASSUME OsInv, UNCHANGED <<proc, next, freed>>,
         \A d \in Cpus : /\ cpc'[d] = "get" <=> cpc[d] = "get"
                         /\ cpc'[d] = "free" <=> cpc[d] = "free"
  PROVE  /\ \A d \in Cpus, x \in Procs : Owns(d, x)' <=> Owns(d, x)
         /\ \A x \in Procs : State(x)' = State(x)
<1>1. \A d \in Cpus, x \in Procs : Owns(d, x)' <=> Owns(d, x)
  BY DEF Owns
<1>2. \A x \in Procs : (Owned(x)' <=> Owned(x)) /\ (Retiring(x)' <=> Retiring(x))
  BY <1>1 DEF Owned, Retiring
<1> QED
  BY <1>1, <1>2, SameState

\* A CPU without a process, or one that goes on with the process it has.
LEMMA CpuStutters ==
  ASSUME OsInv, NEW c \in Cpus,
         KeepProc(c) \/ StopCpu(c) \/ DetachCpu(c) \/ IdleSlot(c)
  PROVE  UNCHANGED Life!lifeVars
<1>1. /\ cpc[c] \notin {"get", "free"} /\ cpc'[c] \notin {"get", "free"}
      /\ \A d \in Cpus \ {c} : cpc'[d] = cpc[d] /\ phase'[d] = phase[d]
      /\ UNCHANGED <<proc, next, freed, pc, size>>
      /\ phase'[c] = phase[c] \/ proc[c] = NULL
  BY DEF KeepProc, StopCpu, DetachCpu, IdleSlot, Clock!NextSlot, Clock!Detach, OsInv,
         OsTypeOK, ControlInv, Clock!ClockTypeOK, inputVars, Threads
<1>2. /\ \A d \in Cpus, x \in Procs : Owns(d, x)' <=> Owns(d, x)
      /\ \A x \in Procs : State(x)' = State(x)
  BY <1>1, SameHands
<1>3. \A x \in Procs : Ran(x)' <=> Ran(x)
  BY <1>1, <1>2, Names DEF Ran, Owns
<1> QED
  BY <1>1, <1>2, <1>3, Stutter

LEMMA RunIsExecute ==
  ASSUME OsInv, NEW c \in Cpus, RunSlot(c)
  PROVE  \E p \in Procs : Life!Execute(p)
<1>1. PICK p \in Procs : p = proc[c]
  BY DEF RunSlot, OsInv, OsTypeOK
<1>2. /\ cpc[c] = "recheck" /\ cpc'[c] = "top" /\ \A d \in Cpus \ {c} : cpc'[d] = cpc[d]
      /\ phase[c] = "working" /\ phase'[c] = "waiting"
      /\ \A d \in Cpus \ {c} : phase'[d] = phase[d]
      /\ Run(p) /\ UNCHANGED <<proc, next, freed, size>>
  BY <1>1
  DEF RunSlot, Clock!NextSlot, OsInv, OsTypeOK, Clock!ClockTypeOK, inputVars, Threads
<1>3. Owns(c, p)
  BY <1>1, <1>2 DEF Owns
<1>4. State(p) = "running" /\ ~Ran(p)
  BY <1>2, <1>3, OwnedState
<1>5. /\ \A d \in Cpus, x \in Procs : Owns(d, x)' <=> Owns(d, x)
      /\ \A x \in Procs : State(x)' = State(x)
  BY <1>2, SameHands
<1>6. /\ Ran(p)'
      /\ \A x \in Procs : x # p => (Ran(x)' <=> Ran(x))
  <2>1. Ran(p)'
    BY <1>2, <1>3, <1>5 DEF Ran
  <2>2. ASSUME NEW x \in Procs, x # p PROVE Ran(x)' <=> Ran(x)
    <3>1. ~Owns(c, x)
      BY <1>1, <2>2 DEF Owns
    <3> QED
      BY <1>2, <1>5, <3>1 DEF Ran
  <2> QED
    BY <2>1, <2>2
<1>7. /\ stateBar' = stateBar /\ stateBar[p] = "running"
      /\ p \notin ranBar /\ ranBar' = ranBar \cup {p}
  BY <1>4, <1>5, <1>6, BarsAre
<1>8. \/ pc[p] < size[p] /\ pc' = [pc EXCEPT ![p] = @ + 1]
      \/ pc' = [pc EXCEPT ![p] = size[p]]
  <2>1. pc[p] \in Nat /\ size[p] \in Nat /\ pc[p] <= size[p] /\ pc \in [Procs -> Nat]
    BY DEF OsInv, OsTypeOK, InputInv
  <2>2. CASE pc[p] >= size[p]
    <3>1. pc' = pc /\ pc[p] = size[p]
      BY <1>2, <2>1, <2>2 DEF Run
    <3> QED
      BY <2>1, <3>1
  <2>3. CASE ~(pc[p] >= size[p])
    BY <1>2, <2>1, <2>3 DEF Run
  <2> QED
    BY <2>2, <2>3
<1>9. Life!Execute(p)
  BY <1>2, <1>7, <1>8 DEF Life!Execute
<1> QED
  BY <1>9

-----------------------------------------------------------------------------
(* The steps of the loader and the timer.                                     *)

LEMMA LoadIsLoad ==
  ASSUME OsInv, LoadProc
  PROVE  \E p \in Procs : Life!Load(p)
<1>1. PICK p \in Procs : p = next
  BY SchedAssumption DEF LoadProc, OsInv, OsTypeOK, Procs
<1>2. next' = p + 1 /\ UNCHANGED <<phase, cpc, proc, freed, pc, size>>
  BY <1>1 DEF LoadProc, inputVars
<1>3. p >= next /\ ~(p >= next') /\ ~Owned(p) /\ p \notin freed /\ p \in Nat
  BY <1>1, <1>2, Names DEF OsInv, PlaceInv
<1>4. \A d \in Cpus, x \in Procs : Owns(d, x)' <=> Owns(d, x)
  BY <1>2 DEF Owns
<1>5. State(p) = "new" /\ State(p)' = "ready"
  BY <1>2, <1>3, <1>4 DEF State, Owned
<1>6. ASSUME NEW x \in Procs, x # p PROVE State(x)' = State(x)
  <2>1. x >= next' <=> x >= next
    BY <1>1, <1>2, <1>3, <1>6, Names
  <2>2. (Owned(x)' <=> Owned(x)) /\ (Retiring(x)' <=> Retiring(x))
    BY <1>2, <1>4 DEF Owned, Retiring
  <2> QED
    BY <1>2, <2>1, <2>2, SameState
<1>7. ranBar' = ranBar
  BY <1>2, <1>4, BarsAre DEF Ran
<1>8. /\ stateBar[p] = "new"
      /\ stateBar' = [stateBar EXCEPT ![p] = "ready"]
  BY <1>5, <1>6, OneMoves
<1> QED
  BY <1>2, <1>7, <1>8 DEF Life!Load

LEMMA LoaderStutters ==
  ASSUME OsInv, AwaitStart \/ EndLoadSlot \/ SetDone \/ DetachLoader
  PROVE  UNCHANGED Life!lifeVars
<1>1. /\ UNCHANGED <<cpc, proc, next, freed, pc, size>>
      /\ \A d \in Cpus : phase'[d] = phase[d]
  BY Names
  DEF AwaitStart, EndLoadSlot, SetDone, DetachLoader, Clock!NextSlot, Clock!Detach,
      OsInv, OsTypeOK, Clock!ClockTypeOK, inputVars
<1>2. /\ \A d \in Cpus, x \in Procs : Owns(d, x)' <=> Owns(d, x)
      /\ \A x \in Procs : State(x)' = State(x)
  BY <1>1, SameHands
<1>3. \A x \in Procs : Ran(x)' <=> Ran(x)
  BY <1>1, <1>2 DEF Ran
<1> QED
  BY <1>1, <1>2, <1>3, Stutter

LEMMA TickIsSlotEnds ==
  ASSUME OsInv, SlotEnds
  PROVE  Life!SlotEnds
<1>1. /\ UNCHANGED <<cpc, proc, next, freed, pc, size>>
      /\ \A d \in Cpus : phase'[d] # "waiting"
  BY DEF SlotEnds, Clock!Tick, inputVars, Threads
<1>2. \A x \in Procs : State(x)' = State(x)
  BY <1>1, SameHands
<1>3. \A x \in Procs : ~Ran(x)'
  BY <1>1 DEF Ran
<1>4. stateBar' = stateBar /\ ranBar' = {}
  BY <1>2, <1>3, BarsAre
<1> QED
  BY <1>1, <1>4 DEF Life!SlotEnds

-----------------------------------------------------------------------------
(* The refinement.                                                            *)

LEMMA InitIsLifeInit == Init => Life!LifeInit
<1> SUFFICES ASSUME Init PROVE Life!LifeInit
  OBVIOUS
<1>1. /\ phase = [t \in Threads |-> "working"] /\ next = 1
      /\ pc = [p \in Procs |-> 0] /\ size \in [Procs -> Nat]
  BY OsAssumption DEF Init, Clock!ClockInit
<1>2. \A p \in Procs : State(p) = "new" /\ ~Ran(p)
  BY <1>1 DEF State, Ran, Procs, Threads
<1>3. stateBar = [p \in Procs |-> "new"] /\ ranBar = {}
  BY <1>2, BarsAre
<1> QED
  BY <1>1, <1>3 DEF Life!LifeInit

LEMMA NextIsLifeNext ==
  QueuesFit /\ OsInv /\ [Next]_osVars => [Life!LifeNext]_(Life!lifeVars)
<1> SUFFICES ASSUME QueuesFit, OsInv, [Next]_osVars
             PROVE  Life!LifeNext \/ UNCHANGED Life!lifeVars
  OBVIOUS
<1>1. ASSUME NEW c \in Cpus, CpuStep(c)
      PROVE  Life!LifeNext \/ UNCHANGED Life!lifeVars
  BY <1>1, RetireIsFinish, FreeIsStutter, PreemptIsPreempt, FetchIsDispatch,
     CpuStutters, RunIsExecute DEF CpuStep, Life!LifeNext
<1>2. CASE LoaderStep
  BY <1>2, LoadIsLoad, LoaderStutters DEF LoaderStep, Life!LifeNext
<1>3. CASE SlotEnds
  BY <1>3, TickIsSlotEnds DEF Life!LifeNext
<1>4. CASE UNCHANGED osVars
  <2>1. UNCHANGED <<phase, cpc, proc, next, freed, pc, size>>
    BY <1>4 DEF osVars
  <2>2. UNCHANGED <<stateBar, ranBar>>
    BY <2>1 DEF stateBar, ranBar, Owns
  <2> QED
    BY <2>1, <2>2 DEF Life!lifeVars
<1> QED
  BY <1>1, <1>2, <1>3, <1>4 DEF Next, Terminated

\* The simulator implements the life cycle of its processes: each is loaded
\* once, runs on one CPU at a time, at most once in a slot and its instructions
\* in order, and finishes once.  That every process finishes is left to TLC.
THEOREM ImplementsLifeSafety == ASSUME QueuesFit PROVE Spec => Life!LifeSafety
<1>1. OsInv /\ [Next]_osVars => [Life!LifeNext]_(Life!lifeVars)
  BY NextIsLifeNext
<1> QED
  BY <1>1, InitIsLifeInit, OsInvHolds, PTL DEF Spec, Life!LifeSafety
=============================================================================
