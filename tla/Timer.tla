-------------------------------- MODULE Timer --------------------------------
(* timer.c at the granularity of its mutexes and condition variables: the     *)
(* timer thread (timer_routine), the device threads that call next_slot and   *)
(* detach_event, and the main thread that calls stop_timer.                   *)
(*                                                                            *)
(* Locks are not variables of their own, because their owner follows from the *)
(* control state: a step that locks, tests and unlocks (or locks, tests and   *)
(* goes to sleep, which pthread_cond_wait makes atomic) is one action guarded *)
(* by "the mutex is free"; a step that locks and writes keeps the mutex until *)
(* the signalling step that follows it.  The field done is written under two  *)
(* different mutexes, so its writes and the signals are separate steps.       *)
EXTENDS Naturals, FiniteSets

CONSTANTS N,              \* number of attached devices (CPUs and the loader)
          MaxTime         \* bound of the model: no next_slot from this slot on

ASSUME NAssumption == N \in Nat \ {0}
ASSUME MaxTimeAssumption == MaxTime \in Nat

Devices == 1 .. N         \* dev_list, numbered in list order

VARIABLES
  done, fsh,              \* the two flags of struct timer_id_t
  time,                   \* _time
  timerStop,              \* timer_stop
  dpc,                    \* control state of each device thread
  tpc,                    \* control state of timer_routine
  idx,                    \* temp: position in dev_list
  nfsh,                   \* local variable fsh of timer_routine
  mpc,                    \* control state of main, from its joins on
  slots                   \* history: next_slot calls each device returned from

vars == <<done, fsh, time, timerStop, dpc, tpc, idx, nfsh, mpc, slots>>

(* Device states: "run" is the caller's own code; "marked" is inside          *)
(* next_slot with event_lock held and done set; "post" is about to lock       *)
(* timer_lock; "asleep" waits on timer_cond; "leaving" is inside detach_event *)
(* with event_lock held and fsh set; "off" has left.                          *)
DeviceStates == {"run", "marked", "post", "asleep", "leaving", "off"}

(* Timer states: "loop" tests timer_stop; "scan" is about to lock event_lock  *)
(* of device idx; "sleep" waits on its event_cond; "decide" has seen every    *)
(* device; "release" is about to lock timer_lock of device idx; "cleared"     *)
(* holds it and has reset done; "exit" is pthread_exit.                       *)
TimerStates == {"loop", "scan", "sleep", "decide", "release", "cleared", "exit"}

TypeOK ==
  /\ done \in [Devices -> BOOLEAN]
  /\ fsh \in [Devices -> BOOLEAN]
  /\ time \in 0 .. MaxTime
  /\ timerStop \in BOOLEAN
  /\ dpc \in [Devices -> DeviceStates]
  /\ tpc \in TimerStates
  /\ idx \in 1 .. N + 1
  /\ nfsh \in 0 .. N
  /\ mpc \in {"join", "stopping", "freed"}
  /\ slots \in [Devices -> Nat]

\* attach_event for every device, then start_timer.
Init ==
  /\ done = [d \in Devices |-> FALSE]
  /\ fsh = [d \in Devices |-> FALSE]
  /\ time = 0
  /\ timerStop = FALSE
  /\ dpc = [d \in Devices |-> "run"]
  /\ tpc = "loop"
  /\ idx = 1
  /\ nfsh = 0
  /\ mpc = "join"
  /\ slots = [d \in Devices |-> 0]

EventLockFree(d) == dpc[d] \notin {"marked", "leaving"}
TimerLockFree(d) == ~(tpc = "cleared" /\ idx = d)

\* Slip: the signal is forgotten.
SignalEvent_Forgotten(d) == UNCHANGED tpc

\* pthread_cond_signal(&event_cond): the timer wakes if it sleeps on device d.
SignalEvent(d) ==
  tpc' = IF tpc = "sleep" /\ idx = d THEN "scan" ELSE tpc

\* Slip: the signal is forgotten.
SignalTimer_Forgotten(d) == UNCHANGED dpc

\* pthread_cond_signal(&timer_cond): device d wakes if it sleeps.
SignalTimer(d) ==
  dpc' = [dpc EXCEPT ![d] = IF @ = "asleep" THEN "post" ELSE @]

-----------------------------------------------------------------------------
(* Device threads.                                                            *)

\* next_slot: lock event_lock, done = 1.
MarkDone(d) ==
  /\ dpc[d] = "run"
  /\ time < MaxTime
  /\ done' = [done EXCEPT ![d] = TRUE]
  /\ dpc' = [dpc EXCEPT ![d] = "marked"]
  /\ UNCHANGED <<fsh, time, timerStop, tpc, idx, nfsh, mpc, slots>>

\* next_slot: signal event_cond, unlock event_lock.
SignalDone(d) ==
  /\ dpc[d] = "marked"
  /\ SignalEvent(d)
  /\ dpc' = [dpc EXCEPT ![d] = "post"]
  /\ UNCHANGED <<done, fsh, time, timerStop, idx, nfsh, mpc, slots>>

\* next_slot: lock timer_lock and find done still set: wait on timer_cond.
WaitForSlot(d) ==
  /\ dpc[d] = "post"
  /\ TimerLockFree(d)
  /\ done[d]
  /\ dpc' = [dpc EXCEPT ![d] = "asleep"]
  /\ UNCHANGED <<done, fsh, time, timerStop, tpc, idx, nfsh, mpc, slots>>

\* Slip: "if (done)" where next_slot has "while (done)".
ReturnFromSlot_IfNotWhile(d) ==
  /\ dpc[d] = "post"
  /\ TimerLockFree(d)
  /\ dpc' = [dpc EXCEPT ![d] = "run"]
  /\ slots' = [slots EXCEPT ![d] = @ + 1]
  /\ UNCHANGED <<done, fsh, time, timerStop, tpc, idx, nfsh, mpc>>

\* next_slot: lock timer_lock, find done reset, unlock and return.
ReturnFromSlot(d) ==
  /\ dpc[d] = "post"
  /\ TimerLockFree(d)
  /\ ~done[d]
  /\ dpc' = [dpc EXCEPT ![d] = "run"]
  /\ slots' = [slots EXCEPT ![d] = @ + 1]
  /\ UNCHANGED <<done, fsh, time, timerStop, tpc, idx, nfsh, mpc>>

\* detach_event: lock event_lock, fsh = 1.
MarkFinished(d) ==
  /\ dpc[d] = "run"
  /\ fsh' = [fsh EXCEPT ![d] = TRUE]
  /\ dpc' = [dpc EXCEPT ![d] = "leaving"]
  /\ UNCHANGED <<done, time, timerStop, tpc, idx, nfsh, mpc, slots>>

\* detach_event: signal event_cond, unlock event_lock; the thread then exits.
SignalFinished(d) ==
  /\ dpc[d] = "leaving"
  /\ SignalEvent(d)
  /\ dpc' = [dpc EXCEPT ![d] = "off"]
  /\ UNCHANGED <<done, fsh, time, timerStop, idx, nfsh, mpc, slots>>

\* POSIX lets pthread_cond_wait return without a signal.
SpuriousDeviceWakeup(d) ==
  /\ dpc[d] = "asleep"
  /\ dpc' = [dpc EXCEPT ![d] = "post"]
  /\ UNCHANGED <<done, fsh, time, timerStop, tpc, idx, nfsh, mpc, slots>>

DeviceStep(d) ==
  \/ MarkDone(d) \/ SignalDone(d)
  \/ WaitForSlot(d) \/ ReturnFromSlot(d)
  \/ MarkFinished(d) \/ SignalFinished(d)

-----------------------------------------------------------------------------
(* The timer thread.                                                          *)

\* Slip: the counter fsh keeps its value from the previous scan.
EnterLoop_KeepsCount ==
  /\ tpc = "loop"
  /\ tpc' = IF timerStop THEN "exit" ELSE "scan"
  /\ idx' = 1
  /\ UNCHANGED <<done, fsh, time, timerStop, dpc, nfsh, mpc, slots>>

\* Slip: the scan starts after the head of dev_list.
EnterLoop_SkipsHead ==
  /\ tpc = "loop"
  /\ tpc' = IF timerStop THEN "exit" ELSE IF N = 1 THEN "decide" ELSE "scan"
  /\ idx' = 2
  /\ nfsh' = 0
  /\ UNCHANGED <<done, fsh, time, timerStop, dpc, mpc, slots>>

\* while (!timer_stop): start a new scan, or leave.
EnterLoop ==
  /\ tpc = "loop"
  /\ tpc' = IF timerStop THEN "exit" ELSE "scan"
  /\ idx' = 1
  /\ nfsh' = 0
  /\ UNCHANGED <<done, fsh, time, timerStop, dpc, mpc, slots>>

\* Lock event_lock of device idx and find it neither done nor finished.
SleepOnDevice ==
  /\ tpc = "scan"
  /\ EventLockFree(idx)
  /\ ~done[idx] /\ ~fsh[idx]
  /\ tpc' = "sleep"
  /\ UNCHANGED <<done, fsh, time, timerStop, dpc, idx, nfsh, mpc, slots>>

\* Slip: the scan counts a device without testing its flags again.
CountDevice_NoRecheck ==
  /\ tpc = "scan"
  /\ EventLockFree(idx)
  /\ nfsh' = IF fsh[idx] THEN nfsh + 1 ELSE nfsh
  /\ idx' = idx + 1
  /\ tpc' = IF idx = N THEN "decide" ELSE "scan"
  /\ UNCHANGED <<done, fsh, time, timerStop, dpc, mpc, slots>>

\* Lock event_lock of device idx, count it, unlock, go to the next one.
CountDevice ==
  /\ tpc = "scan"
  /\ EventLockFree(idx)
  /\ done[idx] \/ fsh[idx]
  /\ nfsh' = IF fsh[idx] THEN nfsh + 1 ELSE nfsh
  /\ idx' = idx + 1
  /\ tpc' = IF idx = N THEN "decide" ELSE "scan"
  /\ UNCHANGED <<done, fsh, time, timerStop, dpc, mpc, slots>>

SpuriousTimerWakeup ==
  /\ tpc = "sleep"
  /\ tpc' = "scan"
  /\ UNCHANGED <<done, fsh, time, timerStop, dpc, idx, nfsh, mpc, slots>>

\* Every device visited has finished (the local event equals N here): leave.
ExitTimer ==
  /\ tpc = "decide"
  /\ nfsh = N
  /\ tpc' = "exit"
  /\ UNCHANGED <<done, fsh, time, timerStop, dpc, idx, nfsh, mpc, slots>>

\* Some device is still there: advance time and start releasing.
AdvanceTime ==
  /\ tpc = "decide"
  /\ nfsh # N
  /\ time' = time + 1
  /\ tpc' = "release"
  /\ idx' = 1
  /\ UNCHANGED <<done, fsh, timerStop, dpc, nfsh, mpc, slots>>

\* Lock timer_lock of device idx, done = 0.
ClearDone ==
  /\ tpc = "release"
  /\ done' = [done EXCEPT ![idx] = FALSE]
  /\ tpc' = "cleared"
  /\ UNCHANGED <<fsh, time, timerStop, dpc, idx, nfsh, mpc, slots>>

\* Signal timer_cond of device idx, unlock timer_lock.
SignalSlot ==
  /\ tpc = "cleared"
  /\ SignalTimer(idx)
  /\ tpc' = IF idx = N THEN "loop" ELSE "release"
  /\ idx' = idx + 1
  /\ UNCHANGED <<done, fsh, time, timerStop, nfsh, mpc, slots>>

TimerStep ==
  \/ EnterLoop \/ SleepOnDevice \/ CountDevice
  \/ ExitTimer \/ AdvanceTime \/ ClearDone \/ SignalSlot

-----------------------------------------------------------------------------
(* The main thread, once it has created every thread.                         *)

\* The device threads have been joined; stop_timer sets timer_stop.
StopTimer ==
  /\ mpc = "join"
  /\ \A d \in Devices : dpc[d] = "off"
  /\ timerStop' = TRUE
  /\ mpc' = "stopping"
  /\ UNCHANGED <<done, fsh, time, dpc, tpc, idx, nfsh, slots>>

\* stop_timer joins the timer thread, then destroys and frees every device.
FreeDevices ==
  /\ mpc = "stopping"
  /\ tpc = "exit"
  /\ mpc' = "freed"
  /\ UNCHANGED <<done, fsh, time, timerStop, dpc, tpc, idx, nfsh, slots>>

MainStep == StopTimer \/ FreeDevices

\* The simulation is over: stuttering here is not a deadlock.
Terminated == mpc = "freed" /\ UNCHANGED vars

Next ==
  \/ \E d \in Devices : DeviceStep(d) \/ SpuriousDeviceWakeup(d)
  \/ TimerStep \/ SpuriousTimerWakeup
  \/ MainStep
  \/ Terminated

(* Each thread is scheduled by the host kernel, so a thread that can step     *)
(* eventually does.  Spurious wake-ups are never promised.                    *)
Fairness ==
  /\ \A d \in Devices : WF_vars(DeviceStep(d))
  /\ WF_vars(TimerStep)
  /\ WF_vars(MainStep)

Spec == Init /\ [][Next]_vars /\ Fairness

-----------------------------------------------------------------------------
(* What the timer promises.                                                   *)

\* Device d is still owed its release in the release loop under way.
ReleasePending(d) ==
  \/ tpc = "release" /\ d >= idx
  \/ tpc = "cleared" /\ d > idx

\* Device d has declared its slot done and that slot has not ended.
SlotDone(d) == done[d] /\ ~ReleasePending(d)

\* Slots are neither skipped nor repeated: a device that is in its own code has
\* returned from next_slot exactly as often as time has advanced, whatever the
\* timer thread, the other devices and spurious wake-ups did meanwhile
\* (next_slot against both loops of timer_routine).
LockStep ==
  \A d \in Devices :
    /\ dpc[d] \in {"run", "marked"} => slots[d] = time
    /\ dpc[d] = "post" /\ ~done[d] => slots[d] + 1 = time

\* The field done is set under event_lock and reset under timer_lock, two
\* different mutexes: only the protocol keeps a device's done = 1 and the
\* timer's done = 0 from racing (timer.c:74 against timer.c:62).
DoneRaceFree ==
  \A d \in Devices :
    tpc = "release" /\ idx = d => dpc[d] \notin {"run", "marked"}

\* The timer thread leaves, by either of its two exits, only when no device is
\* left: nobody can be stranded in next_slot (timer.c:49 and timer.c:25).
NobodyStranded == tpc = "exit" => \A d \in Devices : dpc[d] \in {"leaving", "off"}

\* A step that advances time finds every device blocked in next_slot or gone:
\* code that runs between two calls of next_slot sees one value of time.
StableTime ==
  [][time' # time =>
       \A d \in Devices : dpc[d] \in {"post", "asleep", "off"}]_vars

\* A call of next_slot returns: no wake-up of the timer or of a device is lost.
NextSlotReturns == \A d \in Devices : dpc[d] = "marked" ~> dpc[d] = "run"

\* stop_timer returns once the devices have left: its join cannot hang.
StopReturns == <>[](mpc = "freed")

\* The timer implements the abstract slot clock: a device waits from the moment
\* done is set until time advances, even if it has not been released yet.
phaseBar ==
  [d \in Devices |-> IF fsh[d] THEN "detached"
                     ELSE IF SlotDone(d) THEN "waiting" ELSE "working"]

Clock == INSTANCE SlotClock WITH Devices <- Devices, phase <- phaseBar

\* Every step of the threads is a step of the abstract clock or a stutter.
RefinesSlotClock == Clock!ClockSafety

\* ... and the abstract clock's promise that a finished slot ends is kept too.
ImplementsSlotClock == Clock!ClockSpec

-----------------------------------------------------------------------------
(* Why it works: the inductive invariant behind the properties above.         *)

\* The scan of this round has counted d, or this round's release is owed to it.
Passed(d) ==
  \/ tpc \in {"scan", "sleep"} /\ d < idx
  \/ tpc = "decide"
  \/ ReleasePending(d)

IndexInv ==
  /\ tpc \in {"scan", "sleep", "release", "cleared"} => idx \in 1 .. N
  /\ tpc = "decide" => idx = N + 1

FlagInv ==
  \A d \in Devices :
    /\ fsh[d] <=> dpc[d] \in {"leaving", "off"}
    /\ dpc[d] \in {"run", "leaving", "off"} => ~done[d]
    /\ dpc[d] = "marked" => done[d]

PassedInv ==
  \A d \in Devices : Passed(d) =>
    \/ dpc[d] = "off"
    \/ done[d] /\ dpc[d] \in {"post", "asleep"}

ClearedInv ==
  tpc = "cleared" => ~done[idx] /\ dpc[idx] \in {"post", "asleep", "off"}

CountInv ==
  tpc \in {"scan", "sleep", "decide"} =>
    nfsh = Cardinality({d \in 1 .. idx - 1 : fsh[d]})

SlotInv ==
  \A d \in Devices :
    /\ dpc[d] = "run" => slots[d] = time
    /\ dpc[d] \in {"marked", "post", "asleep"} /\ SlotDone(d)
         => slots[d] = time /\ time < MaxTime
    /\ dpc[d] \in {"post", "asleep"} /\ ~SlotDone(d) => slots[d] + 1 = time

ExitInv ==
  /\ tpc = "exit" => \A d \in Devices : fsh[d]
  /\ timerStop => \A d \in Devices : dpc[d] = "off"

\* The protocol of timer.c in one formula: what each side may assume of the
\* other at every point of the scan and of the release loop.
TimerInv ==
  /\ IndexInv /\ FlagInv /\ PassedInv /\ ClearedInv
  /\ CountInv /\ SlotInv /\ ExitInv
=============================================================================
