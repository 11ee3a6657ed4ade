--------------------------------- MODULE Os ----------------------------------
(* The simulator as a whole (os.c): the CPU threads, the loader thread and    *)
(* the scheduler they share, paced by the slot clock of timer.c.  A thread is *)
(* split where it takes a lock or ends its slot: what it does in between      *)
(* touches only its own process.  What an instruction does to memory is left  *)
(* to the paging modules; here it succeeds or fails.                          *)
EXTENDS Sched

CONSTANTS NumCpus,          \* num_cpus
          TimeSlot,         \* time_slot, the quantum
          Workloads,        \* start time and program size of each process
          CfgPrios,         \* priorities an entry of the config may name
          OwnPrios,         \* priorities a process file may name
          ULONG_MAX         \* largest unsigned long

ASSUME OsAssumption ==
  /\ NumCpus \in Nat \ {0}
  /\ TimeSlot \in Nat \ {0}
  /\ Workloads \subseteq [start : [Procs -> Nat], size : [Procs -> Nat]]
  /\ CfgPrios \subseteq 0 .. ULONG_MAX
  /\ OwnPrios \subseteq Prios
  /\ ULONG_MAX \in Nat /\ MAX_PRIO <= ULONG_MAX

Cpus    == 1 .. NumCpus
Loader  == 0
Threads == Cpus \cup {Loader}

VARIABLES
  phase, time,              \* the slot clock
  cpc,                      \* control state of each CPU thread
  proc, timeLeft,           \* its locals proc and time_left
  lpc, next,                \* control state of the loader, its local i
  done,                     \* done, guarded by done_lock
  pc, size,                 \* proc->pc and proc->code->size
  start, cfgPrio, ownPrio,  \* the config entry and the process file's priority
  freed                     \* processes whose pcb has been freed

osVars == <<phase, time, schedVars, cpc, proc, timeLeft, lpc, next, done, pc,
            size, start, cfgPrio, ownPrio, freed>>
inputVars == <<size, start, cfgPrio, ownPrio>>

Clock == INSTANCE SlotClock WITH Devices <- Threads

(* CPU states: "top" starts an iteration; "free" has taken its finished       *)
(* process out of the queues; "get" is about to call get_proc; "recheck" looks *)
(* at what it got; "stop" leaves the loop; "off" has detached.                *)
CpuStates == {"top", "free", "get", "recheck", "stop", "off"}

\* Loader states: "load" the next process, "loaded" (added it), "off".
LoaderStates == {"load", "loaded", "leaving", "off"}

OsTypeOK ==
  /\ Clock!ClockTypeOK
  /\ SchedTypeOK
  /\ cpc \in [Cpus -> CpuStates]
  /\ proc \in [Cpus -> Procs \cup {NULL}]
  /\ timeLeft \in [Cpus -> 0 .. TimeSlot]
  /\ lpc \in LoaderStates
  /\ next \in 1 .. NumProcs + 1
  /\ done \in BOOLEAN
  /\ \A p \in Procs : pc[p] \in 0 .. size[p]
  /\ freed \subseteq Procs

\* read_config has read the entries, main has attached every thread and
\* initialised the scheduler; no thread has run yet.
Init ==
  /\ Clock!ClockInit
  /\ SchedInit
  /\ prio = [p \in Procs |-> 0]
  /\ cpc = [c \in Cpus |-> "top"]
  /\ proc = [c \in Cpus |-> NULL]
  /\ timeLeft = [c \in Cpus |-> 0]
  /\ lpc = "load" /\ next = 1
  /\ done = FALSE
  /\ pc = [p \in Procs |-> 0]
  /\ \E w \in Workloads : start = w.start /\ size = w.size
  /\ cfgPrio \in [Procs -> CfgPrios]
  /\ ownPrio \in [Procs -> OwnPrios]
  /\ freed = {}

-----------------------------------------------------------------------------
(* The CPU threads: cpu_routine.  A CPU acts only while its slot lasts.       *)

Active(c) == phase[c] = "working"

\* The process of CPU c has run to its end: sched_remove_proc.
RetireProc(c) ==
  /\ cpc[c] = "top" /\ Active(c)
  /\ proc[c] # NULL
  /\ pc[proc[c]] = size[proc[c]]
  /\ RemoveProc(proc[c])
  /\ cpc' = [cpc EXCEPT ![c] = "free"]
  /\ UNCHANGED <<phase, time, proc, timeLeft, lpc, next, done, pc, inputVars,
                 freed>>

\* Slip: the quantum of the finished process is left to its successor.
FreeProc_KeepsQuantum(c) ==
  /\ cpc[c] = "free"
  /\ freed' = freed \cup {proc[c]}
  /\ cpc' = [cpc EXCEPT ![c] = "get"]
  /\ UNCHANGED <<phase, time, schedVars, proc, timeLeft, lpc, next, done, pc,
                 inputVars>>

\* free(proc), and time_left = 0 for its successor.
FreeProc(c) ==
  /\ cpc[c] = "free"
  /\ freed' = freed \cup {proc[c]}
  /\ timeLeft' = [timeLeft EXCEPT ![c] = 0]
  /\ cpc' = [cpc EXCEPT ![c] = "get"]
  /\ UNCHANGED <<phase, time, schedVars, proc, lpc, next, done, pc, inputVars>>

\* The quantum is used up: put_proc.
PreemptProc(c) ==
  /\ cpc[c] = "top" /\ Active(c)
  /\ proc[c] # NULL
  /\ pc[proc[c]] # size[proc[c]]
  /\ timeLeft[c] = 0
  /\ PutProc(proc[c])
  /\ cpc' = [cpc EXCEPT ![c] = "get"]
  /\ UNCHANGED <<phase, time, proc, timeLeft, lpc, next, done, pc, inputVars,
                 freed>>

\* The process goes on with its quantum.
KeepProc(c) ==
  /\ cpc[c] = "top" /\ Active(c)
  /\ proc[c] # NULL
  /\ pc[proc[c]] # size[proc[c]]
  /\ timeLeft[c] # 0
  /\ cpc' = [cpc EXCEPT ![c] = "recheck"]
  /\ UNCHANGED <<phase, time, schedVars, proc, timeLeft, lpc, next, done, pc,
                 inputVars, freed>>

\* get_proc: the CPU has no process, or has just given its process up.
FetchProc(c) ==
  /\ \/ cpc[c] = "get"
     \/ cpc[c] = "top" /\ Active(c) /\ proc[c] = NULL
  /\ \E p \in Procs \cup {NULL} :
       GetProc(p) /\ proc' = [proc EXCEPT ![c] = p]
  /\ cpc' = [cpc EXCEPT ![c] = "recheck"]
  /\ UNCHANGED <<phase, time, timeLeft, lpc, next, done, pc, inputVars, freed>>

\* Nothing to run and the loader has finished: leave the loop.
StopCpu(c) ==
  /\ cpc[c] = "recheck"
  /\ proc[c] = NULL
  /\ done
  /\ cpc' = [cpc EXCEPT ![c] = "stop"]
  /\ UNCHANGED <<phase, time, schedVars, proc, timeLeft, lpc, next, done, pc,
                 inputVars, freed>>

\* detach_event, after which the thread exits.
DetachCpu(c) ==
  /\ cpc[c] = "stop"
  /\ Clock!Detach(c)
  /\ cpc' = [cpc EXCEPT ![c] = "off"]
  /\ UNCHANGED <<schedVars, proc, timeLeft, lpc, next, done, pc, inputVars,
                 freed>>

\* Nothing to run yet: skip the slot.
IdleSlot(c) ==
  /\ cpc[c] = "recheck"
  /\ proc[c] = NULL
  /\ ~done
  /\ Clock!NextSlot(c)
  /\ cpc' = [cpc EXCEPT ![c] = "top"]
  /\ UNCHANGED <<schedVars, proc, timeLeft, lpc, next, done, pc, inputVars,
                 freed>>

\* Slip: run does not look whether the program has ended.
Run_NoEndCheck(p) ==
  \/ pc' = [pc EXCEPT ![p] = @ + 1]
  \/ pc' = [pc EXCEPT ![p] = size[p]]

\* run: the instruction at pc succeeds, or fails and ends the program.
Run(p) ==
  IF pc[p] >= size[p] THEN UNCHANGED pc
  ELSE \/ pc' = [pc EXCEPT ![p] = @ + 1]
       \/ pc' = [pc EXCEPT ![p] = size[p]]

\* Dispatch with a whole quantum if the last one is over, run one instruction,
\* charge it and end the slot.
RunSlot(c) ==
  /\ cpc[c] = "recheck"
  /\ proc[c] # NULL
  /\ Run(proc[c])
  /\ timeLeft' = [timeLeft EXCEPT ![c] = (IF @ = 0 THEN TimeSlot ELSE @) - 1]
  /\ Clock!NextSlot(c)
  /\ cpc' = [cpc EXCEPT ![c] = "top"]
  /\ UNCHANGED <<schedVars, proc, lpc, next, done, inputVars, freed>>

CpuStep(c) ==
  \/ RetireProc(c) \/ FreeProc(c) \/ PreemptProc(c) \/ KeepProc(c)
  \/ FetchProc(c) \/ StopCpu(c) \/ DetachCpu(c) \/ IdleSlot(c) \/ RunSlot(c)

-----------------------------------------------------------------------------
(* The loader thread: ld_routine, and what read_config made of its input.     *)

(* An entry of the config that names no priority.                             *)
NoPrio == ULONG_MAX

\* read_config clamps the priority, a missing one included.
ReadPrio(x) == IF x >= MAX_PRIO THEN MAX_PRIO - 1 ELSE x

\* ld_routine falls back on the process file's priority when it sees -1.
LoadPrio(p) ==
  IF ReadPrio(cfgPrio[p]) = NoPrio THEN ownPrio[p] ELSE ReadPrio(cfgPrio[p])

\* Not yet time for the next process: skip the slot.
AwaitStart ==
  /\ lpc = "load" /\ Active(Loader)
  /\ next <= NumProcs
  /\ time < start[next]
  /\ Clock!NextSlot(Loader)
  /\ UNCHANGED <<schedVars, cpc, proc, timeLeft, lpc, next, done, pc, inputVars,
                 freed>>

\* load, choose the priority, add_proc.
LoadProc ==
  /\ lpc = "load" /\ Active(Loader)
  /\ next <= NumProcs
  /\ time >= start[next]
  /\ AddProc(next, LoadPrio(next))
  /\ next' = next + 1
  /\ lpc' = "loaded"
  /\ UNCHANGED <<phase, time, cpc, proc, timeLeft, done, pc, inputVars, freed>>

\* Slip: the loader goes on without ending its slot.
EndLoadSlot_SameSlot ==
  /\ lpc = "loaded"
  /\ lpc' = "load"
  /\ UNCHANGED <<phase, time, schedVars, cpc, proc, timeLeft, next, done, pc,
                 inputVars, freed>>

\* One process a slot: next_slot after add_proc.
EndLoadSlot ==
  /\ lpc = "loaded"
  /\ Clock!NextSlot(Loader)
  /\ lpc' = "load"
  /\ UNCHANGED <<schedVars, cpc, proc, timeLeft, next, done, pc, inputVars,
                 freed>>

\* Every process is loaded: set_is_done(1).
SetDone ==
  /\ lpc = "load" /\ Active(Loader)
  /\ next > NumProcs
  /\ done' = TRUE
  /\ lpc' = "leaving"
  /\ UNCHANGED <<phase, time, schedVars, cpc, proc, timeLeft, next, pc,
                 inputVars, freed>>

\* detach_event, after which the loader exits.
DetachLoader ==
  /\ lpc = "leaving"
  /\ Clock!Detach(Loader)
  /\ lpc' = "off"
  /\ UNCHANGED <<schedVars, cpc, proc, timeLeft, next, done, pc, inputVars,
                 freed>>

LoaderStep == AwaitStart \/ LoadProc \/ EndLoadSlot \/ SetDone \/ DetachLoader

-----------------------------------------------------------------------------
\* The timer thread ends the slot.
SlotEnds ==
  /\ Clock!Tick
  /\ UNCHANGED <<schedVars, cpc, proc, timeLeft, lpc, next, done, pc, inputVars,
                 freed>>

\* main has joined every thread.
Terminated ==
  /\ \A t \in Threads : phase[t] = "detached"
  /\ UNCHANGED osVars

Next ==
  \/ \E c \in Cpus : CpuStep(c)
  \/ LoaderStep
  \/ SlotEnds
  \/ Terminated

\* The host kernel schedules every thread; the timer is fair by module Timer.
Fairness ==
  /\ \A c \in Cpus : WF_osVars(CpuStep(c))
  /\ WF_osVars(LoaderStep)
  /\ WF_osVars(SlotEnds)

Spec == Init /\ [][Next]_osVars /\ Fairness

-----------------------------------------------------------------------------
(* What the scheduler owes the processes.                                     *)

\* CPU c has the pcb in its hands: not the stale pointer it keeps between
\* giving a process up and fetching the next one.
Owns(c, p) == proc[c] = p /\ cpc[c] # "get"

Positions(p) ==
  {at \in Prios \X (1 .. NumProcs + MAX_QUEUE_SIZE) :
     at[2] <= Len(ready[at[1]]) /\ ready[at[1]][at[2]] = p}

\* Every process is in exactly one place at any time: not loaded, once in one
\* ready queue, in the hands of one CPU, or freed.  Two CPUs never run the same
\* process, no freed pcb is left in a queue, and no queue operation between
\* two lock sections loses a process or doubles it.
Ownership ==
  \A p \in Procs :
    Cardinality(Positions(p)) + Cardinality({c \in Cpus : Owns(c, p)})
      + (IF p >= next THEN 1 ELSE 0) + (IF p \in freed THEN 1 ELSE 0) = 1

\* What a caller of add_proc and put_proc is told (sched.h:22, sched.h:25): the
\* process is in the ready queue.  So no process that is loaded and not yet
\* freed is ever neither queued nor in the hands of a CPU.
QueuedOrOwned ==
  \A p \in Procs : p < next /\ p \notin freed =>
    \/ \E i \in Prios : Occurs(ready[i], p)
    \/ \E c \in Cpus : Owns(c, p)

\* A process that executes is on running_list, so that a system call it makes
\* finds its caller (sched_find_proc_by_pid), and running_list holds nothing
\* else: no pcb that has been freed, none that waits.
RunningListed ==
  \A p \in Procs :
    Occurs(running, p) <=> \E c \in Cpus : Owns(c, p) /\ cpc[c] # "free"

\* A CPU stops for good only when it cannot be needed: once all have stopped,
\* every process has been executed to its end, although is_done is read after
\* and apart from the failed get_proc.
NoProcessLost ==
  (\A c \in Cpus : cpc[c] = "off") => freed = Procs

WaitingProcs == UNION {{ready[i][k] : k \in 1 .. Len(ready[i])} : i \in Prios}

\* Work conservation: when a slot ends with a CPU that sat it out, or has left,
\* at most one process is left waiting, the one too many that the loader added
\* during the slot; none once the loader is off.  The slots of sched.c and its
\* second attempt never make a CPU idle, or stop it, while there is work.
WorkConserving ==
  [][time' # time /\ (\E c \in Cpus : proc[c] = NULL)
       => Cardinality(WaitingProcs) <= (IF lpc = "off" THEN 0 ELSE 1)]_osVars

\* A process starts its stay on a CPU with a whole quantum, whichever way the
\* previous one left.
FreshQuantum ==
  [][\A c \in Cpus :
       cpc[c] # "recheck" /\ cpc'[c] = "recheck" /\ proc'[c] # proc[c]
         => timeLeft'[c] = 0]_osVars

\* A config entry without a priority leaves the choice to the process file, as
\* the comment at os.c:199 says.
DefaultPriorityHonoured ==
  \A p \in Procs : p < next /\ cfgPrio[p] = NoPrio => prio[p] = ownPrio[p]

\* The simulation comes to its end: all processes are executed, all threads stop.
SimulationEnds ==
  <>[](freed = Procs /\ \A t \in Threads : phase[t] = "detached")

\* The simulator implements the life cycle of its processes.
stateBar ==
  [p \in Procs |->
     IF p >= next THEN "new"
     ELSE IF p \in freed \/ \E c \in Cpus : Owns(c, p) /\ cpc[c] = "free"
     THEN "finished"
     ELSE IF \E c \in Cpus : Owns(c, p) THEN "running" ELSE "ready"]

\* The processes that have had their turn: their CPU waits for the slot's end.
ranBar == {p \in Procs : \E c \in Cpus : Owns(c, p) /\ phase[c] = "waiting"}

Life == INSTANCE Lifecycle
          WITH pstate <- stateBar, ran <- ranBar

ImplementsLifecycle == Life!LifeSpec
=============================================================================
