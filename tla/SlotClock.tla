------------------------------ MODULE SlotClock ------------------------------
(* What timer.c promises to the threads that attach to it: simulated time     *)
(* advances in slots, and a slot ends only when every attached device has     *)
(* either declared itself done with it (next_slot) or left for good           *)
(* (detach_event).  Locks, condition variables and the order in which the     *)
(* timer thread visits the devices are the business of module Timer, which    *)
(* implements this one.                                                       *)
EXTENDS Naturals

CONSTANT Devices          \* the attached timer ids

VARIABLES phase,          \* what each device is doing in the current slot
          time            \* _time, the number of slots that have ended

clockVars == <<phase, time>>

Phases == {"working", "waiting", "detached"}

ClockTypeOK ==
  /\ phase \in [Devices -> Phases]
  /\ time \in Nat

ClockInit ==
  /\ phase = [d \in Devices |-> "working"]
  /\ time = 0

\* A device calls next_slot and blocks until the slot ends.
NextSlot(d) ==
  /\ phase[d] = "working"
  /\ phase' = [phase EXCEPT ![d] = "waiting"]
  /\ UNCHANGED time

\* A device calls detach_event; it never takes part in a slot again.
Detach(d) ==
  /\ phase[d] = "working"
  /\ phase' = [phase EXCEPT ![d] = "detached"]
  /\ UNCHANGED time

SomeoneWaits == \E d \in Devices : phase[d] = "waiting"
NobodyWorks  == \A d \in Devices : phase[d] # "working"

\* The slot ends: time advances by one and every waiting device resumes.
Tick ==
  /\ NobodyWorks
  /\ SomeoneWaits
  /\ time' = time + 1
  /\ phase' = [d \in Devices |->
                 IF phase[d] = "waiting" THEN "working" ELSE phase[d]]

ClockNext == Tick \/ \E d \in Devices : NextSlot(d) \/ Detach(d)

ClockSafety == ClockInit /\ [][ClockNext]_clockVars

\* The timer thread never sleeps through the end of a slot.
ClockSpec == ClockSafety /\ WF_clockVars(Tick)
=============================================================================
