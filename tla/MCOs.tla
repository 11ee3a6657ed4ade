-------------------------------- MODULE MCOs --------------------------------
(* Workloads for TLC.  With a quantum of two, a program of two instructions   *)
(* ends with its quantum, one of three is preempted, one of none ends at once. *)
EXTENDS Os

AtOnce == [p \in Procs |-> 0]

\* The last process comes after every CPU has run out of work and idles.
LastLate == [p \in Procs |-> IF p = NumProcs THEN 4 ELSE 0]

Mixed ==
  [start : {AtOnce}, size : {s \in [Procs -> {0, 2, 3}] : s[1] = 3}]
  \cup [start : {LastLate}, size : [Procs -> {3}]]

Pairs  == [start : {AtOnce}, size : [Procs -> {2}]]
Single == [start : {AtOnce}, size : [Procs -> {1}]]
=============================================================================
