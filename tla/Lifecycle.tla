------------------------------ MODULE Lifecycle ------------------------------
(* What the simulator promises for a process, whichever CPUs, queues and      *)
(* slots bring it about: it is loaded once, runs on at most one CPU at a      *)
(* time, executes at most one instruction in a slot and each of its           *)
(* instructions at most once and in order, and finishes once, only after its  *)
(* last instruction or after one that failed.                                 *)
EXTENDS Naturals, FiniteSets

CONSTANTS Procs, NumCpus

VARIABLES pstate,         \* where each process is in its life
          pc, size,       \* next instruction and number of instructions
          ran             \* processes that have had their turn in this slot

lifeVars == <<pstate, pc, size, ran>>

LifeInit ==
  /\ pstate = [p \in Procs |-> "new"]
  /\ size \in [Procs -> Nat]
  /\ pc = [p \in Procs |-> 0]
  /\ ran = {}

Running == {p \in Procs : pstate[p] = "running"}

Load(p) ==
  /\ pstate[p] = "new"
  /\ pstate' = [pstate EXCEPT ![p] = "ready"]
  /\ UNCHANGED <<pc, size, ran>>

Dispatch(p) ==
  /\ pstate[p] = "ready"
  /\ Cardinality(Running) < NumCpus
  /\ pstate' = [pstate EXCEPT ![p] = "running"]
  /\ UNCHANGED <<pc, size, ran>>

Preempt(p) ==
  /\ pstate[p] = "running"
  /\ p \notin ran
  /\ pstate' = [pstate EXCEPT ![p] = "ready"]
  /\ UNCHANGED <<pc, size, ran>>

\* One turn: the next instruction succeeds, or fails and ends the program.  A
\* program without instructions has an empty turn.
Execute(p) ==
  /\ pstate[p] = "running"
  /\ p \notin ran
  /\ ran' = ran \cup {p}
  /\ \/ pc[p] < size[p] /\ pc' = [pc EXCEPT ![p] = @ + 1]
     \/ pc' = [pc EXCEPT ![p] = size[p]]
  /\ UNCHANGED <<pstate, size>>

Finish(p) ==
  /\ pstate[p] = "running"
  /\ p \notin ran
  /\ pc[p] = size[p]
  /\ pstate' = [pstate EXCEPT ![p] = "finished"]
  /\ UNCHANGED <<pc, size, ran>>

SlotEnds == ran' = {} /\ UNCHANGED <<pstate, pc, size>>

LifeNext ==
  \/ \E p \in Procs : Load(p) \/ Dispatch(p) \/ Preempt(p) \/ Execute(p) \/ Finish(p)
  \/ SlotEnds

\* No process is abandoned: the simulation takes every one of them to its end.
EveryoneFinishes == <>[](\A p \in Procs : pstate[p] = "finished")

LifeSafety == LifeInit /\ [][LifeNext]_lifeVars
LifeSpec == LifeSafety /\ EveryoneFinishes
=============================================================================
