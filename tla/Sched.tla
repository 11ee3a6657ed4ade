-------------------------------- MODULE Sched --------------------------------
(* The multi-level queue scheduler: sched.c with the queues of queue.c.  Every *)
(* operation runs under sched_lock from its first access to the queues to its *)
(* last, so each one is a single action; what happens between two of them is  *)
(* the business of the modules that extend this one.                          *)
EXTENDS Naturals, Sequences, FiniteSets

CONSTANTS NumProcs,         \* num_processes
          MAX_PRIO,         \* number of priority levels, 140 in the program
          MAX_QUEUE_SIZE    \* capacity of every queue_t, 50 in the program

ASSUME SchedAssumption ==
  /\ NumProcs \in Nat
  /\ MAX_PRIO \in Nat \ {0}
  /\ MAX_QUEUE_SIZE \in Nat \ {0}

Procs == 1 .. NumProcs      \* the pcbs, numbered in the order of the config
NULL  == 0
Prios == 0 .. MAX_PRIO - 1

VARIABLES ready,            \* mlq_ready_queue
          slot,             \* slot: dispatches left to each level
          running,          \* running_list
          prio              \* proc->prio

schedVars == <<ready, slot, running, prio>>

SchedTypeOK ==
  /\ ready \in [Prios -> Seq(Procs)]
  /\ \A i \in Prios : Len(ready[i]) <= MAX_QUEUE_SIZE
  /\ slot \in [Prios -> 0 .. MAX_PRIO]
  /\ \A i \in Prios : slot[i] <= MAX_PRIO - i
  /\ running \in Seq(Procs) /\ Len(running) <= MAX_QUEUE_SIZE
  /\ prio \in [Procs -> Prios]

\* The slots of a fresh round: fewer for the lower levels.
FullSlots == [i \in Prios |-> MAX_PRIO - i]

\* init_scheduler
SchedInit ==
  /\ ready = [i \in Prios |-> <<>>]
  /\ slot = FullSlots
  /\ running = <<>>

-----------------------------------------------------------------------------
(* queue.c.                                                                   *)

\* enqueue: a full queue drops the process with a message and no error code.
Enqueue(q, p) == IF Len(q) < MAX_QUEUE_SIZE THEN Append(q, p) ELSE q

Occurs(q, p) == \E i \in 1 .. Len(q) : q[i] = p

\* The index purgequeue finds: the first one that holds p.
FirstIndex(q, p) ==
  CHOOSE i \in 1 .. Len(q) : q[i] = p /\ \A j \in 1 .. i - 1 : q[j] # p

\* Slip: the entries behind the purged one are not shifted down.
Purge_NoShift(q, p) ==
  IF Occurs(q, p) THEN [j \in 1 .. Len(q) - 1 |-> q[j]] ELSE q

\* purgequeue: drop the first entry that holds p and shift the others down.
Purge(q, p) ==
  IF Occurs(q, p)
  THEN [j \in 1 .. Len(q) - 1 |-> IF j < FirstIndex(q, p) THEN q[j] ELSE q[j + 1]]
  ELSE q

-----------------------------------------------------------------------------
(* sched.c.                                                                   *)

Waiting  == {i \in Prios : ready[i] # <<>>}
Budgeted == {i \in Waiting : slot[i] > 0}

Lowest(S) == CHOOSE i \in S : \A j \in S : i <= j

\* Slip: the process dispatched stays at the head of its queue.
TakeFrom_Peek(i, s, p) ==
  /\ p = Head(ready[i])
  /\ slot' = [s EXCEPT ![i] = @ - 1]
  /\ running' = Enqueue(running, p)
  /\ UNCHANGED ready

\* Level i hands its first process to the caller, who charges the slots s.
TakeFrom(i, s, p) ==
  /\ p = Head(ready[i])
  /\ ready' = [ready EXCEPT ![i] = Tail(@)]
  /\ slot' = [s EXCEPT ![i] = @ - 1]
  /\ running' = Enqueue(running, p)

\* Slip: the single attempt that the comment at sched.c:153 recommends.  The
\* slots are reset when all are spent, and the caller is told there is no work.
GetProc_OneAttempt(p) ==
  /\ UNCHANGED prio
  /\ IF Budgeted # {} THEN TakeFrom(Lowest(Budgeted), slot, p)
     ELSE /\ p = NULL
          /\ slot' = IF Waiting = {} THEN slot ELSE FullSlots
          /\ UNCHANGED <<ready, running>>

\* Slip: slots are never reset.
GetProc_NoReset(p) ==
  /\ UNCHANGED prio
  /\ IF Budgeted # {} THEN TakeFrom(Lowest(Budgeted), slot, p)
     ELSE p = NULL /\ UNCHANGED <<ready, slot, running>>

\* Slip: strict priorities, the slots are charged and ignored.
GetProc_Strict(p) ==
  /\ UNCHANGED prio
  /\ IF Waiting # {}
     THEN TakeFrom(Lowest(Waiting), [slot EXCEPT ![Lowest(Waiting)] = 1], p)
     ELSE p = NULL /\ UNCHANGED <<ready, slot, running>>

\* Slip: the process dispatched is not entered in running_list.
GetProc_NotListed(p) ==
  /\ UNCHANGED <<prio, running>>
  /\ IF Waiting # {}
     THEN LET s == IF Budgeted # {} THEN slot ELSE FullSlots
              i == Lowest(IF Budgeted # {} THEN Budgeted ELSE Waiting)
          IN  /\ p = Head(ready[i])
              /\ ready' = [ready EXCEPT ![i] = Tail(@)]
              /\ slot' = [s EXCEPT ![i] = @ - 1]
     ELSE p = NULL /\ UNCHANGED <<ready, slot>>

\* get_proc returns p: the first process of the highest level that has slots
\* left; if every waiting level has spent its slots, all are refilled first.
GetProc(p) ==
  /\ UNCHANGED prio
  /\ \/ /\ Waiting = {}
        /\ p = NULL
        /\ UNCHANGED <<ready, slot, running>>
     \/ /\ Budgeted # {}
        /\ TakeFrom(Lowest(Budgeted), slot, p)
     \/ /\ Waiting # {} /\ Budgeted = {}
        /\ TakeFrom(Lowest(Waiting), FullSlots, p)

\* put_proc: from running_list back to the ready queue of its level.
PutProc(p) ==
  /\ running' = Purge(running, p)
  /\ ready' = [ready EXCEPT ![prio[p]] = Enqueue(@, p)]
  /\ UNCHANGED <<slot, prio>>

\* add_proc, called by the loader that has just set proc->prio to level.
AddProc(p, level) ==
  /\ prio' = [prio EXCEPT ![p] = level]
  /\ ready' = [ready EXCEPT ![level] = Enqueue(@, p)]
  /\ UNCHANGED <<slot, running>>

\* Slip: running_list is left out of the purge.
RemoveProc_KeepsRunning(p) ==
  /\ ready' = [i \in Prios |-> Purge(ready[i], p)]
  /\ UNCHANGED <<slot, running, prio>>

\* sched_remove_proc: the process leaves every queue.
RemoveProc(p) ==
  /\ running' = Purge(running, p)
  /\ ready' = [i \in Prios |-> Purge(ready[i], p)]
  /\ UNCHANGED <<slot, prio>>

\* sched_find_proc_by_pid finds p (the caller of a system call).
Findable(p) == Occurs(running, p) \/ \E i \in Prios : Occurs(ready[i], p)
=============================================================================
