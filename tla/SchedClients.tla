---------------------------- MODULE SchedClients -----------------------------
(* The scheduler under its most general clients: processes keep arriving at   *)
(* any level, CPUs fetch, give back and retire them in any order, forever.    *)
(* Module Os has finite programs; here the load never ends, which is where a  *)
(* process could starve.                                                      *)
EXTENDS Sched

CONSTANT NumClients

ASSUME NumClientsAssumption == NumClients \in Nat \ {0}

VARIABLES held,             \* processes in the hands of the CPUs
          bypass            \* history: dispatches that passed a waiting level by

clientVars == <<schedVars, held, bypass>>

InReady(p) == \E i \in Prios : Occurs(ready[i], p)

ClientsInit ==
  /\ SchedInit
  /\ prio = [p \in Procs |-> 0]
  /\ held = {}
  /\ bypass = [i \in Prios |-> 0]

\* The dispatches that slots s leave to the levels above level i, and their
\* number in a full round.
Turns(s, i) == {t \in Prios \X (1 .. MAX_PRIO) : t[1] < i /\ t[2] <= s[t[1]]}
SlotsAbove(i) == Cardinality(Turns(FullSlots, i))

\* The dispatches that can come before level i is served once: what the others
\* have left of this round when its own slots are spent, and the levels above
\* it in the next round.
BypassBound(i) ==
  (SlotsAbove(MAX_PRIO) - FullSlots[i]) + SlotsAbove(i)

\* The loader adds a process that is nowhere in the system.
Arrive(p, level) ==
  /\ p \notin held /\ ~InReady(p)
  /\ AddProc(p, level)
  /\ UNCHANGED <<held, bypass>>

\* A CPU without a process fetches one; every other waiting level is bypassed.
\* The history variable stops counting once it has exceeded its bound.
Fetch ==
  /\ Cardinality(held) < NumClients
  /\ Waiting # {}
  /\ \E p \in Procs \cup {NULL} :
       /\ GetProc(p)
       /\ held' = held \cup ({p} \ {NULL})
       /\ bypass' = [i \in Prios |->
                       IF i \notin Waiting \/ ready'[i] # ready[i]
                       THEN 0
                       ELSE IF bypass[i] > BypassBound(i) THEN bypass[i]
                       ELSE bypass[i] + 1]

\* The quantum of a process is over.
GiveBack(p) ==
  /\ p \in held
  /\ PutProc(p)
  /\ held' = held \ {p}
  /\ UNCHANGED bypass

\* A process has finished; its pcb may be used for another one.
Retire(p) ==
  /\ p \in held
  /\ RemoveProc(p)
  /\ held' = held \ {p}
  /\ UNCHANGED bypass

Release == \E p \in Procs : GiveBack(p) \/ Retire(p)

ClientsNext ==
  \/ \E p \in Procs, level \in Prios : Arrive(p, level)
  \/ Fetch
  \/ Release

\* A CPU is never kept forever and an idle CPU keeps asking for work.
ClientsSpec ==
  /\ ClientsInit /\ [][ClientsNext]_clientVars
  /\ WF_clientVars(Fetch) /\ WF_clientVars(Release)

-----------------------------------------------------------------------------
\* No level waits for more dispatches than the slots of the others allow,
\* however many processes the others have and however fast new ones arrive.
BoundedBypass == \A i \in Prios : bypass[i] <= BypassBound(i)

\* No queue operation loses or doubles a process, in any order of calls.
HeldOrQueued ==
  \A p \in Procs :
    /\ p \in held <=> Occurs(running, p)
    /\ p \in held => ~InReady(p)
    /\ \A i, j \in Prios :
         \A k \in 1 .. Len(ready[i]), l \in 1 .. Len(ready[j]) :
           ready[i][k] = p /\ ready[j][l] = p => i = j /\ k = l

\* Starvation freedom: a process that waits is dispatched, even at the lowest
\* level under an endless stream of work for the highest.
NoStarvation == \A p \in Procs : InReady(p) ~> p \in held
=============================================================================
