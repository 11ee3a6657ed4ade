----------------------------- MODULE TimerProofs -----------------------------
(* Proofs about Timer for every number of devices and every bound on time.    *)
EXTENDS Timer, FiniteSetTheorems, TLAPS

\* The strengthening that is inductive: the types and the protocol together.
IInv == TypeOK /\ TimerInv

(* The devices that the scan has counted as finished when it stands at i.     *)
FinishedBelow(i) == {d \in 1 .. i - 1 : fsh[d]}

\* Sets of finished devices are finite sets with at most N members.
LEMMA FinishedBelowFinite ==
  ASSUME TypeOK, NEW i \in 1 .. N + 1
  PROVE  /\ IsFiniteSet(FinishedBelow(i))
         /\ Cardinality(FinishedBelow(i)) \in 0 .. N
<1>1. /\ IsFiniteSet(1 .. N)
      /\ Cardinality(1 .. N) = N
  <2>1. 1 \in Int /\ N \in Int /\ ~(1 > N)
    BY NAssumption
  <2> QED BY <2>1, FS_Interval, NAssumption
<1>2. FinishedBelow(i) \in SUBSET (1 .. N)
  BY NAssumption DEF FinishedBelow
<1>3. /\ IsFiniteSet(FinishedBelow(i))
      /\ Cardinality(FinishedBelow(i)) <= N
  BY <1>1, <1>2, FS_Subset
<1>4. Cardinality(FinishedBelow(i)) \in Nat
  BY <1>3, FS_CardinalityType
<1> QED BY <1>3, <1>4, NAssumption

\* Counting one more device adds it to the set exactly when it has finished.
LEMMA FinishedBelowStep ==
  ASSUME TypeOK, NEW i \in 1 .. N
  PROVE  Cardinality(FinishedBelow(i + 1)) =
           IF fsh[i] THEN Cardinality(FinishedBelow(i)) + 1
                     ELSE Cardinality(FinishedBelow(i))
<1>1. IsFiniteSet(FinishedBelow(i))
  BY FinishedBelowFinite, NAssumption
<1>2. i \notin FinishedBelow(i)
  BY NAssumption DEF FinishedBelow
<1>3. CASE fsh[i]
  <2>1. FinishedBelow(i + 1) = FinishedBelow(i) \cup {i}
    BY <1>3, NAssumption DEF FinishedBelow
  <2> QED BY <1>1, <1>2, <1>3, <2>1, FS_AddElement
<1>4. CASE ~fsh[i]
  <2>1. FinishedBelow(i + 1) = FinishedBelow(i)
    BY <1>4, NAssumption DEF FinishedBelow
  <2> QED BY <1>4, <2>1
<1> QED BY <1>3, <1>4

\* The count reaches N only when every device has finished.
LEMMA FinishedAll ==
  ASSUME TypeOK, Cardinality(FinishedBelow(N + 1)) = N
  PROVE  \A d \in Devices : fsh[d]
<1>1. /\ IsFiniteSet(1 .. N)
      /\ Cardinality(1 .. N) = N
  <2>1. 1 \in Int /\ N \in Int /\ ~(1 > N)
    BY NAssumption
  <2> QED BY <2>1, FS_Interval, NAssumption
<1>2. FinishedBelow(N + 1) \in SUBSET (1 .. N)
  BY NAssumption DEF FinishedBelow
<1>3. FinishedBelow(N + 1) = 1 .. N
  BY <1>1, <1>2, FS_Subset
<1> QED BY <1>3 DEF FinishedBelow, Devices

\* Conversely, if every device has finished the count is N.
LEMMA AllFinished ==
  ASSUME TypeOK, \A d \in Devices : fsh[d]
  PROVE  Cardinality(FinishedBelow(N + 1)) = N
<1>1. FinishedBelow(N + 1) = 1 .. N
  BY NAssumption DEF FinishedBelow, Devices
<1>2. 1 \in Int /\ N \in Int /\ ~(1 > N)
  BY NAssumption
<1> QED BY <1>1, <1>2, FS_Interval, NAssumption

-----------------------------------------------------------------------------
(* The invariant, one lemma per conjunct that needs an argument of its own.   *)

\* The initial state satisfies the invariant.
LEMMA InitInv == Init => IInv
<1> SUFFICES ASSUME Init PROVE IInv
  OBVIOUS
<1>1. TypeOK
  <2>1. 1 \in 1 .. N + 1 /\ 0 \in 0 .. N /\ 0 \in 0 .. MaxTime
    BY NAssumption, MaxTimeAssumption
  <2>2. /\ done \in [Devices -> BOOLEAN] /\ fsh \in [Devices -> BOOLEAN]
        /\ dpc \in [Devices -> DeviceStates] /\ slots \in [Devices -> Nat]
    BY DEF Init, DeviceStates
  <2> QED BY <2>1, <2>2 DEF Init, TypeOK, TimerStates
<1>2. TimerInv
  BY NAssumption DEF Init, TimerInv, IndexInv, FlagInv, PassedInv, ClearedInv,
     CountInv, SlotInv, ExitInv, Passed, ReleasePending, SlotDone
<1> QED BY <1>1, <1>2 DEF IInv

\* A round is never decided at the bound of time with a device still waiting:
\* if not every device has finished, some device waits, and it called next_slot
\* below MaxTime.
LEMMA DecideBelowMaxTime ==
  ASSUME IInv, tpc = "decide", nfsh # N
  PROVE  time < MaxTime
<1> USE DEF IInv, TimerInv
<1>1. PICK d \in Devices : ~fsh[d]
  <2>1. idx = N + 1
    BY DEF IndexInv
  <2>2. nfsh = Cardinality(FinishedBelow(N + 1))
    BY <2>1 DEF CountInv, FinishedBelow
  <2> QED BY <2>2, AllFinished
<1>2. done[d] /\ dpc[d] \in {"post", "asleep"}
  BY <1>1 DEF PassedInv, Passed, FlagInv
<1> QED BY <1>2 DEF SlotInv, SlotDone, ReleasePending

\* Every step keeps the types.
LEMMA TypeStep == IInv /\ [Next]_vars => TypeOK'
<1> SUFFICES ASSUME IInv, [Next]_vars PROVE TypeOK'
  OBVIOUS
<1> USE NAssumption, MaxTimeAssumption
    DEF IInv, TypeOK, Devices, DeviceStates, TimerStates, SignalEvent, SignalTimer, EventLockFree, TimerLockFree
<1>1. ASSUME NEW d \in Devices, MarkDone(d) PROVE TypeOK'
  BY <1>1 DEF MarkDone
<1>2. ASSUME NEW d \in Devices, SignalDone(d) PROVE TypeOK'
  BY <1>2 DEF SignalDone
<1>3. ASSUME NEW d \in Devices, WaitForSlot(d) PROVE TypeOK'
  BY <1>3 DEF WaitForSlot
<1>4. ASSUME NEW d \in Devices, ReturnFromSlot(d) PROVE TypeOK'
  BY <1>4 DEF ReturnFromSlot
<1>5. ASSUME NEW d \in Devices, MarkFinished(d) PROVE TypeOK'
  BY <1>5 DEF MarkFinished
<1>6. ASSUME NEW d \in Devices, SignalFinished(d) PROVE TypeOK'
  BY <1>6 DEF SignalFinished
<1>7. ASSUME NEW d \in Devices, SpuriousDeviceWakeup(d) PROVE TypeOK'
  BY <1>7 DEF SpuriousDeviceWakeup
<1>8. CASE EnterLoop
  BY <1>8 DEF EnterLoop
<1>9. CASE SleepOnDevice
  BY <1>9 DEF SleepOnDevice
<1>10. CASE CountDevice
  <2>1. nfsh' \in 0 .. N
    <3>1. idx \in 1 .. N /\ nfsh = Cardinality(FinishedBelow(idx))
      BY <1>10 DEF CountDevice, TimerInv, IndexInv, CountInv, FinishedBelow
    <3>2. nfsh' = Cardinality(FinishedBelow(idx + 1))
      BY <1>10, <3>1, FinishedBelowStep DEF CountDevice
    <3> QED BY <3>1, <3>2, FinishedBelowFinite
  <2>2. idx \in 1 .. N
    BY <1>10 DEF CountDevice, TimerInv, IndexInv
  <2> QED BY <1>10, <2>1, <2>2 DEF CountDevice
<1>11. CASE SpuriousTimerWakeup
  BY <1>11 DEF SpuriousTimerWakeup
<1>12. CASE ExitTimer
  BY <1>12 DEF ExitTimer
<1>13. CASE AdvanceTime
  BY <1>13, DecideBelowMaxTime DEF AdvanceTime
<1>14. CASE ClearDone
  BY <1>14 DEF ClearDone
<1>15. CASE SignalSlot
  BY <1>15 DEF SignalSlot, TimerInv, IndexInv
<1>16. CASE StopTimer
  BY <1>16 DEF StopTimer
<1>17. CASE FreeDevices
  BY <1>17 DEF FreeDevices
<1>18. CASE UNCHANGED vars
  BY <1>18 DEF vars
<1> QED BY <1>1, <1>2, <1>3, <1>4, <1>5, <1>6, <1>7, <1>8, <1>9, <1>10, <1>11, <1>12, <1>13, <1>14, <1>15, <1>16, <1>17, <1>18
        DEF Next, DeviceStep, TimerStep, MainStep, Terminated

\* The scan and release indices stay inside dev_list.
LEMMA IndexInvStep == IInv /\ [Next]_vars => IndexInv'
<1> SUFFICES ASSUME IInv, [Next]_vars PROVE IndexInv'
  OBVIOUS
<1> USE NAssumption, MaxTimeAssumption
    DEF IInv, TimerInv, TypeOK, Devices, DeviceStates, TimerStates, SignalEvent,
        SignalTimer, EventLockFree, TimerLockFree, IndexInv
<1>1. ASSUME NEW d \in Devices, MarkDone(d) PROVE IndexInv'
  BY <1>1 DEF MarkDone
<1>2. ASSUME NEW d \in Devices, SignalDone(d) PROVE IndexInv'
  BY <1>2 DEF SignalDone
<1>3. ASSUME NEW d \in Devices, WaitForSlot(d) PROVE IndexInv'
  BY <1>3 DEF WaitForSlot
<1>4. ASSUME NEW d \in Devices, ReturnFromSlot(d) PROVE IndexInv'
  BY <1>4 DEF ReturnFromSlot
<1>5. ASSUME NEW d \in Devices, MarkFinished(d) PROVE IndexInv'
  BY <1>5 DEF MarkFinished
<1>6. ASSUME NEW d \in Devices, SignalFinished(d) PROVE IndexInv'
  BY <1>6 DEF SignalFinished
<1>7. ASSUME NEW d \in Devices, SpuriousDeviceWakeup(d) PROVE IndexInv'
  BY <1>7 DEF SpuriousDeviceWakeup
<1>8. CASE EnterLoop
  BY <1>8 DEF EnterLoop
<1>9. CASE SleepOnDevice
  BY <1>9 DEF SleepOnDevice
<1>10. CASE CountDevice
  BY <1>10 DEF CountDevice
<1>11. CASE SpuriousTimerWakeup
  BY <1>11 DEF SpuriousTimerWakeup
<1>12. CASE ExitTimer
  BY <1>12 DEF ExitTimer
<1>13. CASE AdvanceTime
  BY <1>13 DEF AdvanceTime
<1>14. CASE ClearDone
  BY <1>14 DEF ClearDone
<1>15. CASE SignalSlot
  BY <1>15 DEF SignalSlot
<1>16. CASE StopTimer
  BY <1>16 DEF StopTimer
<1>17. CASE FreeDevices
  BY <1>17 DEF FreeDevices
<1>18. CASE UNCHANGED vars
  BY <1>18 DEF vars
<1> QED BY <1>1, <1>2, <1>3, <1>4, <1>5, <1>6, <1>7, <1>8, <1>9, <1>10, <1>11, <1>12, <1>13, <1>14, <1>15, <1>16, <1>17, <1>18
        DEF Next, DeviceStep, TimerStep, MainStep, Terminated

\* The flags of a device follow its control state.
LEMMA FlagInvStep == IInv /\ [Next]_vars => FlagInv'
<1> SUFFICES ASSUME IInv, [Next]_vars PROVE FlagInv'
  OBVIOUS
<1> USE NAssumption, MaxTimeAssumption
    DEF IInv, TimerInv, TypeOK, Devices, DeviceStates, TimerStates, SignalEvent,
        SignalTimer, EventLockFree, TimerLockFree, FlagInv, PassedInv, ClearedInv, IndexInv, Passed, ReleasePending
<1>1. ASSUME NEW d \in Devices, MarkDone(d) PROVE FlagInv'
  BY <1>1 DEF MarkDone
<1>2. ASSUME NEW d \in Devices, SignalDone(d) PROVE FlagInv'
  BY <1>2 DEF SignalDone
<1>3. ASSUME NEW d \in Devices, WaitForSlot(d) PROVE FlagInv'
  BY <1>3 DEF WaitForSlot
<1>4. ASSUME NEW d \in Devices, ReturnFromSlot(d) PROVE FlagInv'
  BY <1>4 DEF ReturnFromSlot
<1>5. ASSUME NEW d \in Devices, MarkFinished(d) PROVE FlagInv'
  BY <1>5 DEF MarkFinished
<1>6. ASSUME NEW d \in Devices, SignalFinished(d) PROVE FlagInv'
  BY <1>6 DEF SignalFinished
<1>7. ASSUME NEW d \in Devices, SpuriousDeviceWakeup(d) PROVE FlagInv'
  BY <1>7 DEF SpuriousDeviceWakeup
<1>8. CASE EnterLoop
  BY <1>8 DEF EnterLoop
<1>9. CASE SleepOnDevice
  BY <1>9 DEF SleepOnDevice
<1>10. CASE CountDevice
  BY <1>10 DEF CountDevice
<1>11. CASE SpuriousTimerWakeup
  BY <1>11 DEF SpuriousTimerWakeup
<1>12. CASE ExitTimer
  BY <1>12 DEF ExitTimer
<1>13. CASE AdvanceTime
  BY <1>13 DEF AdvanceTime
<1>14. CASE ClearDone
  <2>1. idx \in Devices /\ tpc = "release" /\ Passed(idx)
    BY <1>14 DEF ClearDone
  <2>2. dpc[idx] # "marked"
    BY <2>1 DEF PassedInv
  <2>3. SUFFICES ASSUME NEW d \in Devices
                 PROVE  /\ fsh'[d] <=> dpc'[d] \in {"leaving", "off"}
                        /\ dpc'[d] \in {"run", "leaving", "off"} => ~done'[d]
                        /\ dpc'[d] = "marked" => done'[d]
    BY DEF FlagInv
  <2> QED BY <1>14, <2>2 DEF ClearDone
<1>15. CASE SignalSlot
  BY <1>15 DEF SignalSlot
<1>16. CASE StopTimer
  BY <1>16 DEF StopTimer
<1>17. CASE FreeDevices
  BY <1>17 DEF FreeDevices
<1>18. CASE UNCHANGED vars
  BY <1>18 DEF vars
<1> QED BY <1>1, <1>2, <1>3, <1>4, <1>5, <1>6, <1>7, <1>8, <1>9, <1>10, <1>11, <1>12, <1>13, <1>14, <1>15, <1>16, <1>17, <1>18
        DEF Next, DeviceStep, TimerStep, MainStep, Terminated

\* A device the timer has counted stays where the timer found it.
LEMMA PassedInvStep == IInv /\ [Next]_vars => PassedInv'
<1> SUFFICES ASSUME IInv, [Next]_vars PROVE PassedInv'
  OBVIOUS
<1> USE NAssumption, MaxTimeAssumption
    DEF IInv, TimerInv, TypeOK, Devices, DeviceStates, TimerStates, SignalEvent,
        SignalTimer, EventLockFree, TimerLockFree, PassedInv, FlagInv, IndexInv, Passed, ReleasePending
<1>1. ASSUME NEW d \in Devices, MarkDone(d) PROVE PassedInv'
  BY <1>1 DEF MarkDone
<1>2. ASSUME NEW d \in Devices, SignalDone(d) PROVE PassedInv'
  BY <1>2 DEF SignalDone
<1>3. ASSUME NEW d \in Devices, WaitForSlot(d) PROVE PassedInv'
  BY <1>3 DEF WaitForSlot
<1>4. ASSUME NEW d \in Devices, ReturnFromSlot(d) PROVE PassedInv'
  BY <1>4 DEF ReturnFromSlot
<1>5. ASSUME NEW d \in Devices, MarkFinished(d) PROVE PassedInv'
  BY <1>5 DEF MarkFinished
<1>6. ASSUME NEW d \in Devices, SignalFinished(d) PROVE PassedInv'
  BY <1>6 DEF SignalFinished
<1>7. ASSUME NEW d \in Devices, SpuriousDeviceWakeup(d) PROVE PassedInv'
  BY <1>7 DEF SpuriousDeviceWakeup
<1>8. CASE EnterLoop
  BY <1>8 DEF EnterLoop
<1>9. CASE SleepOnDevice
  BY <1>9 DEF SleepOnDevice
<1>10. CASE CountDevice
  BY <1>10 DEF CountDevice
<1>11. CASE SpuriousTimerWakeup
  BY <1>11 DEF SpuriousTimerWakeup
<1>12. CASE ExitTimer
  BY <1>12 DEF ExitTimer
<1>13. CASE AdvanceTime
  BY <1>13 DEF AdvanceTime
<1>14. CASE ClearDone
  BY <1>14 DEF ClearDone
<1>15. CASE SignalSlot
  BY <1>15 DEF SignalSlot
<1>16. CASE StopTimer
  BY <1>16 DEF StopTimer
<1>17. CASE FreeDevices
  BY <1>17 DEF FreeDevices
<1>18. CASE UNCHANGED vars
  BY <1>18 DEF vars
<1> QED BY <1>1, <1>2, <1>3, <1>4, <1>5, <1>6, <1>7, <1>8, <1>9, <1>10, <1>11, <1>12, <1>13, <1>14, <1>15, <1>16, <1>17, <1>18
        DEF Next, DeviceStep, TimerStep, MainStep, Terminated

\* Between resetting done and signalling, the device cannot move on.
LEMMA ClearedInvStep == IInv /\ [Next]_vars => ClearedInv'
<1> SUFFICES ASSUME IInv, [Next]_vars PROVE ClearedInv'
  OBVIOUS
<1> USE NAssumption, MaxTimeAssumption
    DEF IInv, TimerInv, TypeOK, Devices, DeviceStates, TimerStates, SignalEvent,
        SignalTimer, EventLockFree, TimerLockFree, ClearedInv, PassedInv, FlagInv, IndexInv, Passed, ReleasePending
<1>1. ASSUME NEW d \in Devices, MarkDone(d) PROVE ClearedInv'
  BY <1>1 DEF MarkDone
<1>2. ASSUME NEW d \in Devices, SignalDone(d) PROVE ClearedInv'
  BY <1>2 DEF SignalDone
<1>3. ASSUME NEW d \in Devices, WaitForSlot(d) PROVE ClearedInv'
  BY <1>3 DEF WaitForSlot
<1>4. ASSUME NEW d \in Devices, ReturnFromSlot(d) PROVE ClearedInv'
  BY <1>4 DEF ReturnFromSlot
<1>5. ASSUME NEW d \in Devices, MarkFinished(d) PROVE ClearedInv'
  BY <1>5 DEF MarkFinished
<1>6. ASSUME NEW d \in Devices, SignalFinished(d) PROVE ClearedInv'
  BY <1>6 DEF SignalFinished
<1>7. ASSUME NEW d \in Devices, SpuriousDeviceWakeup(d) PROVE ClearedInv'
  BY <1>7 DEF SpuriousDeviceWakeup
<1>8. CASE EnterLoop
  BY <1>8 DEF EnterLoop
<1>9. CASE SleepOnDevice
  BY <1>9 DEF SleepOnDevice
<1>10. CASE CountDevice
  BY <1>10 DEF CountDevice
<1>11. CASE SpuriousTimerWakeup
  BY <1>11 DEF SpuriousTimerWakeup
<1>12. CASE ExitTimer
  BY <1>12 DEF ExitTimer
<1>13. CASE AdvanceTime
  BY <1>13 DEF AdvanceTime
<1>14. CASE ClearDone
  BY <1>14 DEF ClearDone
<1>15. CASE SignalSlot
  BY <1>15 DEF SignalSlot
<1>16. CASE StopTimer
  BY <1>16 DEF StopTimer
<1>17. CASE FreeDevices
  BY <1>17 DEF FreeDevices
<1>18. CASE UNCHANGED vars
  BY <1>18 DEF vars
<1> QED BY <1>1, <1>2, <1>3, <1>4, <1>5, <1>6, <1>7, <1>8, <1>9, <1>10, <1>11, <1>12, <1>13, <1>14, <1>15, <1>16, <1>17, <1>18
        DEF Next, DeviceStep, TimerStep, MainStep, Terminated

\* Each device has returned from next_slot as often as its state says.
LEMMA SlotInvStep == IInv /\ [Next]_vars => SlotInv'
<1> SUFFICES ASSUME IInv, [Next]_vars PROVE SlotInv'
  OBVIOUS
<1> USE NAssumption, MaxTimeAssumption
    DEF IInv, TimerInv, TypeOK, Devices, DeviceStates, TimerStates, SignalEvent,
        SignalTimer, EventLockFree, TimerLockFree, SlotInv, SlotDone, FlagInv, PassedInv, ClearedInv, IndexInv, Passed, ReleasePending
<1>1. ASSUME NEW d \in Devices, MarkDone(d) PROVE SlotInv'
  BY <1>1 DEF MarkDone
<1>2. ASSUME NEW d \in Devices, SignalDone(d) PROVE SlotInv'
  BY <1>2 DEF SignalDone
<1>3. ASSUME NEW d \in Devices, WaitForSlot(d) PROVE SlotInv'
  BY <1>3 DEF WaitForSlot
<1>4. ASSUME NEW d \in Devices, ReturnFromSlot(d) PROVE SlotInv'
  BY <1>4 DEF ReturnFromSlot
<1>5. ASSUME NEW d \in Devices, MarkFinished(d) PROVE SlotInv'
  BY <1>5 DEF MarkFinished
<1>6. ASSUME NEW d \in Devices, SignalFinished(d) PROVE SlotInv'
  BY <1>6 DEF SignalFinished
<1>7. ASSUME NEW d \in Devices, SpuriousDeviceWakeup(d) PROVE SlotInv'
  BY <1>7 DEF SpuriousDeviceWakeup
<1>8. CASE EnterLoop
  BY <1>8 DEF EnterLoop
<1>9. CASE SleepOnDevice
  BY <1>9 DEF SleepOnDevice
<1>10. CASE CountDevice
  BY <1>10 DEF CountDevice
<1>11. CASE SpuriousTimerWakeup
  BY <1>11 DEF SpuriousTimerWakeup
<1>12. CASE ExitTimer
  BY <1>12 DEF ExitTimer
<1>13. CASE AdvanceTime
  BY <1>13 DEF AdvanceTime
<1>14. CASE ClearDone
  BY <1>14 DEF ClearDone
<1>15. CASE SignalSlot
  BY <1>15 DEF SignalSlot
<1>16. CASE StopTimer
  BY <1>16 DEF StopTimer
<1>17. CASE FreeDevices
  BY <1>17 DEF FreeDevices
<1>18. CASE UNCHANGED vars
  BY <1>18 DEF vars
<1> QED BY <1>1, <1>2, <1>3, <1>4, <1>5, <1>6, <1>7, <1>8, <1>9, <1>10, <1>11, <1>12, <1>13, <1>14, <1>15, <1>16, <1>17, <1>18
        DEF Next, DeviceStep, TimerStep, MainStep, Terminated

\* The timer leaves only after the last device.
LEMMA ExitInvStep == IInv /\ [Next]_vars => ExitInv'
<1> SUFFICES ASSUME IInv, [Next]_vars PROVE ExitInv'
  OBVIOUS
<1> USE NAssumption, MaxTimeAssumption
    DEF IInv, TimerInv, TypeOK, Devices, DeviceStates, TimerStates, SignalEvent,
        SignalTimer, EventLockFree, TimerLockFree, ExitInv, FlagInv, IndexInv, PassedInv, Passed
<1>1. ASSUME NEW d \in Devices, MarkDone(d) PROVE ExitInv'
  BY <1>1 DEF MarkDone
<1>2. ASSUME NEW d \in Devices, SignalDone(d) PROVE ExitInv'
  BY <1>2 DEF SignalDone
<1>3. ASSUME NEW d \in Devices, WaitForSlot(d) PROVE ExitInv'
  BY <1>3 DEF WaitForSlot
<1>4. ASSUME NEW d \in Devices, ReturnFromSlot(d) PROVE ExitInv'
  BY <1>4 DEF ReturnFromSlot
<1>5. ASSUME NEW d \in Devices, MarkFinished(d) PROVE ExitInv'
  BY <1>5 DEF MarkFinished
<1>6. ASSUME NEW d \in Devices, SignalFinished(d) PROVE ExitInv'
  BY <1>6 DEF SignalFinished
<1>7. ASSUME NEW d \in Devices, SpuriousDeviceWakeup(d) PROVE ExitInv'
  BY <1>7 DEF SpuriousDeviceWakeup
<1>8. CASE EnterLoop
  BY <1>8 DEF EnterLoop
<1>9. CASE SleepOnDevice
  BY <1>9 DEF SleepOnDevice
<1>10. CASE CountDevice
  BY <1>10 DEF CountDevice
<1>11. CASE SpuriousTimerWakeup
  BY <1>11 DEF SpuriousTimerWakeup
<1>12. CASE ExitTimer
  <2>1. Cardinality(FinishedBelow(N + 1)) = N
    BY <1>12 DEF ExitTimer, CountInv, FinishedBelow
  <2>2. \A d \in Devices : fsh[d]
    BY <2>1, FinishedAll DEF IInv
  <2> QED BY <1>12, <2>2 DEF ExitTimer
<1>13. CASE AdvanceTime
  BY <1>13 DEF AdvanceTime
<1>14. CASE ClearDone
  BY <1>14 DEF ClearDone
<1>15. CASE SignalSlot
  BY <1>15 DEF SignalSlot
<1>16. CASE StopTimer
  BY <1>16 DEF StopTimer
<1>17. CASE FreeDevices
  BY <1>17 DEF FreeDevices
<1>18. CASE UNCHANGED vars
  BY <1>18 DEF vars
<1> QED BY <1>1, <1>2, <1>3, <1>4, <1>5, <1>6, <1>7, <1>8, <1>9, <1>10, <1>11, <1>12, <1>13, <1>14, <1>15, <1>16, <1>17, <1>18
        DEF Next, DeviceStep, TimerStep, MainStep, Terminated

\* The local counter fsh is the number of finished devices passed.
LEMMA CountInvStep == IInv /\ [Next]_vars => CountInv'
<1> SUFFICES ASSUME IInv, [Next]_vars PROVE CountInv'
  OBVIOUS
<1> USE NAssumption, MaxTimeAssumption
    DEF IInv, TimerInv, TypeOK, Devices, DeviceStates, TimerStates, SignalEvent,
        SignalTimer, EventLockFree, TimerLockFree, CountInv, PassedInv, FlagInv, IndexInv, Passed, FinishedBelow
<1>1. ASSUME NEW d \in Devices, MarkDone(d) PROVE CountInv'
  BY <1>1 DEF MarkDone
<1>2. ASSUME NEW d \in Devices, SignalDone(d) PROVE CountInv'
  BY <1>2 DEF SignalDone
<1>3. ASSUME NEW d \in Devices, WaitForSlot(d) PROVE CountInv'
  BY <1>3 DEF WaitForSlot
<1>4. ASSUME NEW d \in Devices, ReturnFromSlot(d) PROVE CountInv'
  BY <1>4 DEF ReturnFromSlot
<1>5. ASSUME NEW d \in Devices, MarkFinished(d) PROVE CountInv'
  <2>1. tpc \in {"scan", "sleep", "decide"} => d \notin 1 .. idx - 1
    BY <1>5 DEF MarkFinished
  <2>2. tpc \in {"scan", "sleep", "decide"} =>
          {e \in 1 .. idx - 1 : fsh'[e]} = {e \in 1 .. idx - 1 : fsh[e]}
    BY <1>5, <2>1 DEF MarkFinished
  <2> QED BY <1>5, <2>2 DEF MarkFinished
<1>6. ASSUME NEW d \in Devices, SignalFinished(d) PROVE CountInv'
  BY <1>6 DEF SignalFinished
<1>7. ASSUME NEW d \in Devices, SpuriousDeviceWakeup(d) PROVE CountInv'
  BY <1>7 DEF SpuriousDeviceWakeup
<1>8. CASE EnterLoop
  <2>1. {e \in 1 .. idx' - 1 : fsh'[e]} = {}
    BY <1>8 DEF EnterLoop
  <2> QED BY <1>8, <2>1, FS_EmptySet DEF EnterLoop
<1>9. CASE SleepOnDevice
  BY <1>9 DEF SleepOnDevice
<1>10. CASE CountDevice
  <2>1. idx \in 1 .. N /\ nfsh = Cardinality(FinishedBelow(idx))
    BY <1>10 DEF CountDevice
  <2>2. nfsh' = Cardinality(FinishedBelow(idx + 1))
    BY <1>10, <2>1, FinishedBelowStep DEF CountDevice
  <2>3. {e \in 1 .. idx' - 1 : fsh'[e]} = FinishedBelow(idx + 1)
    BY <1>10 DEF CountDevice
  <2> QED BY <2>2, <2>3 DEF CountInv
<1>11. CASE SpuriousTimerWakeup
  BY <1>11 DEF SpuriousTimerWakeup
<1>12. CASE ExitTimer
  BY <1>12 DEF ExitTimer
<1>13. CASE AdvanceTime
  BY <1>13 DEF AdvanceTime
<1>14. CASE ClearDone
  BY <1>14 DEF ClearDone
<1>15. CASE SignalSlot
  BY <1>15 DEF SignalSlot
<1>16. CASE StopTimer
  BY <1>16 DEF StopTimer
<1>17. CASE FreeDevices
  BY <1>17 DEF FreeDevices
<1>18. CASE UNCHANGED vars
  BY <1>18 DEF vars
<1> QED BY <1>1, <1>2, <1>3, <1>4, <1>5, <1>6, <1>7, <1>8, <1>9, <1>10, <1>11, <1>12, <1>13, <1>14, <1>15, <1>16, <1>17, <1>18
        DEF Next, DeviceStep, TimerStep, MainStep, Terminated

-----------------------------------------------------------------------------
(* The theorems.                                                              *)

\* The types and the protocol hold in every reachable state, for every number
\* of devices: TypeOK and TimerInv together are inductive.
THEOREM TimerInvariant == Spec => []IInv
<1>1. Init => IInv
  BY InitInv
<1>2. IInv /\ [Next]_vars => IInv'
  BY TypeStep, IndexInvStep, FlagInvStep, PassedInvStep, ClearedInvStep,
     SlotInvStep, ExitInvStep, CountInvStep DEF IInv, TimerInv
<1> QED BY <1>1, <1>2, PTL DEF Spec

\* The protocol between next_slot, detach_event and timer_routine holds in every
\* reachable state.
THEOREM TimerProtocol == Spec => []TimerInv
<1>1. IInv => TimerInv
  BY DEF IInv
<1> QED BY <1>1, TimerInvariant, PTL

\* timer.c keeps its variables in their types; in particular the index never
\* leaves dev_list and the counter of finished devices never exceeds it.
THEOREM TimerTypes == Spec => []TypeOK
<1>1. IInv => TypeOK
  BY DEF IInv
<1> QED BY <1>1, TimerInvariant, PTL

\* No slot is skipped or repeated by any device.
THEOREM TimerLockStep == Spec => []LockStep
<1>1. IInv => LockStep
  BY DEF IInv, TypeOK, TimerInv, SlotInv, FlagInv, PassedInv, Passed, LockStep,
         SlotDone
<1> QED BY <1>1, TimerInvariant, PTL

\* The two mutexes that guard done never let its two writers race.
THEOREM TimerDoneRaceFree == Spec => []DoneRaceFree
<1>1. IInv => DoneRaceFree
  <2> SUFFICES ASSUME IInv, NEW d \in Devices, tpc = "release", idx = d
               PROVE  dpc[d] \notin {"run", "marked"}
    BY DEF DoneRaceFree
  <2>1. Passed(d)
    BY NAssumption DEF Passed, ReleasePending, Devices
  <2> QED BY <2>1 DEF IInv, TimerInv, PassedInv
<1> QED BY <1>1, TimerInvariant, PTL

\* The timer thread never leaves a device behind in next_slot.
THEOREM TimerNobodyStranded == Spec => []NobodyStranded
<1>1. IInv => NobodyStranded
  BY DEF IInv, TimerInv, ExitInv, FlagInv, NobodyStranded
<1> QED BY <1>1, TimerInvariant, PTL

\* Time only moves while every device is blocked in next_slot or gone.
THEOREM TimerStableTime == Spec => StableTime
<1>1. IInv /\ [Next]_vars =>
        [time' # time => \A d \in Devices : dpc[d] \in {"post", "asleep", "off"}]_vars
  <2> SUFFICES ASSUME IInv, [Next]_vars, time' # time
               PROVE  \A d \in Devices : dpc[d] \in {"post", "asleep", "off"}
    OBVIOUS
  <2>1. AdvanceTime
    BY DEF Next, DeviceStep, TimerStep, MainStep, Terminated, vars, MarkDone,
       SignalDone, WaitForSlot, ReturnFromSlot, MarkFinished, SignalFinished,
       SpuriousDeviceWakeup, EnterLoop, SleepOnDevice, CountDevice,
       SpuriousTimerWakeup, ExitTimer, ClearDone, SignalSlot, StopTimer,
       FreeDevices
  <2> QED BY <2>1 DEF AdvanceTime, IInv, TimerInv, PassedInv, Passed
<1> QED BY <1>1, TimerInvariant, PTL DEF Spec, StableTime

-----------------------------------------------------------------------------
(* Refinement of the slot clock.                                              *)

\* A step that leaves the finished flags, time and every SlotDone alone is a
\* stutter of the abstract clock.
LEMMA ClockStutter ==
  ASSUME fsh' = fsh, time' = time, \A d \in Devices : SlotDone(d)' = SlotDone(d)
  PROVE  UNCHANGED Clock!clockVars
<1>1. phaseBar' = phaseBar
  BY DEF phaseBar
<1> QED BY <1>1 DEF Clock!clockVars

\* The device threads: done = 1 is NextSlot, fsh = 1 is Detach, nothing else
\* is visible.
LEMMA DeviceRefines ==
  ASSUME IInv, NEW d \in Devices, DeviceStep(d) \/ SpuriousDeviceWakeup(d)
  PROVE  [Clock!ClockNext]_(Clock!clockVars)
<1> USE DEF IInv, TypeOK, Devices
<1>1. CASE MarkDone(d)
  <2>1. ~Passed(d) /\ ~fsh[d] /\ ~done[d]
    BY <1>1 DEF MarkDone, TimerInv, PassedInv, FlagInv
  <2>2. phaseBar[d] = "working"
    BY <2>1 DEF phaseBar, SlotDone
  <2>3. phaseBar' = [phaseBar EXCEPT ![d] = "waiting"]
    BY <1>1, <2>1 DEF MarkDone, phaseBar, SlotDone, ReleasePending, Passed
  <2>4. Clock!NextSlot(d)
    BY <1>1, <2>2, <2>3 DEF MarkDone, Clock!NextSlot
  <2> QED BY <2>4 DEF Clock!ClockNext
<1>2. CASE MarkFinished(d)
  <2>1. ~fsh[d] /\ ~done[d]
    BY <1>2 DEF MarkFinished, TimerInv, FlagInv
  <2>2. phaseBar[d] = "working"
    BY <2>1 DEF phaseBar, SlotDone
  <2>3. phaseBar' = [phaseBar EXCEPT ![d] = "detached"]
    BY <1>2 DEF MarkFinished, phaseBar, SlotDone, ReleasePending
  <2>4. Clock!Detach(d)
    BY <1>2, <2>2, <2>3 DEF MarkFinished, Clock!Detach
  <2> QED BY <2>4 DEF Clock!ClockNext
<1>3. CASE SignalDone(d) \/ SignalFinished(d)
  <2>1. tpc' # tpc => tpc = "sleep" /\ tpc' = "scan"
    BY <1>3 DEF SignalDone, SignalFinished, SignalEvent
  <2>2. \A e \in Devices : SlotDone(e)' = SlotDone(e)
    BY <1>3, <2>1 DEF SignalDone, SignalFinished, SlotDone, ReleasePending
  <2> QED BY <1>3, <2>2, ClockStutter DEF SignalDone, SignalFinished
<1>4. CASE WaitForSlot(d) \/ ReturnFromSlot(d) \/ SpuriousDeviceWakeup(d)
  <2>1. \A e \in Devices : SlotDone(e)' = SlotDone(e)
    BY <1>4 DEF WaitForSlot, ReturnFromSlot, SpuriousDeviceWakeup, SlotDone,
       ReleasePending
  <2> QED BY <1>4, <2>1, ClockStutter
          DEF WaitForSlot, ReturnFromSlot, SpuriousDeviceWakeup
<1> QED BY <1>1, <1>2, <1>3, <1>4 DEF DeviceStep

\* The timer thread: only advancing time is visible, and it is a Tick.
LEMMA TimerRefines ==
  ASSUME IInv, TimerStep \/ SpuriousTimerWakeup
  PROVE  [Clock!ClockNext]_(Clock!clockVars)
<1> USE NAssumption DEF IInv, TypeOK, Devices, SlotDone, ReleasePending
<1>1. CASE AdvanceTime
  <2>1. \A d \in Devices : phaseBar[d] \in {"waiting", "detached"}
    BY <1>1 DEF AdvanceTime, TimerInv, PassedInv, Passed, FlagInv, phaseBar
  <2>2. PICK d \in Devices : ~fsh[d]
    <3>1. nfsh = Cardinality(FinishedBelow(N + 1)) /\ nfsh # N
      BY <1>1 DEF AdvanceTime, TimerInv, IndexInv, CountInv, FinishedBelow
    <3> QED BY <3>1, AllFinished
  <2>3. phaseBar[d] = "waiting"
    BY <2>1, <2>2 DEF phaseBar
  <2>4. phaseBar' = [e \in Devices |->
                       IF phaseBar[e] = "waiting" THEN "working" ELSE phaseBar[e]]
    <3>1. \A e \in Devices : ReleasePending(e)'
      BY <1>1 DEF AdvanceTime
    <3>2. \A e \in Devices : fsh[e] <=> phaseBar[e] = "detached"
      BY DEF phaseBar
    <3> QED BY <1>1, <2>1, <3>1, <3>2 DEF AdvanceTime, phaseBar
  <2>5. Clock!NobodyWorks /\ Clock!SomeoneWaits
    BY <2>1, <2>3 DEF Clock!NobodyWorks, Clock!SomeoneWaits
  <2>6. Clock!Tick
    BY <1>1, <2>4, <2>5 DEF AdvanceTime, Clock!Tick
  <2> QED BY <2>6 DEF Clock!ClockNext
<1>2. CASE ClearDone
  <2>1. \A e \in Devices : SlotDone(e)' = SlotDone(e)
    BY <1>2 DEF ClearDone, TimerInv, IndexInv
  <2> QED BY <1>2, <2>1, ClockStutter DEF ClearDone
<1>3. CASE SignalSlot
  <2>1. idx \in 1 .. N /\ ~done[idx]
    BY <1>3 DEF SignalSlot, TimerInv, IndexInv, ClearedInv
  <2>2. \A e \in Devices : SlotDone(e)' = SlotDone(e)
    BY <1>3, <2>1 DEF SignalSlot
  <2> QED BY <1>3, <2>2, ClockStutter DEF SignalSlot
<1>4. CASE EnterLoop \/ SleepOnDevice \/ CountDevice \/ ExitTimer
           \/ SpuriousTimerWakeup
  <2>1. \A e \in Devices : SlotDone(e)' = SlotDone(e)
    BY <1>4 DEF EnterLoop, SleepOnDevice, CountDevice, ExitTimer,
       SpuriousTimerWakeup
  <2> QED BY <1>4, <2>1, ClockStutter
          DEF EnterLoop, SleepOnDevice, CountDevice, ExitTimer,
              SpuriousTimerWakeup
<1> QED BY <1>1, <1>2, <1>3, <1>4 DEF TimerStep

\* timer.c implements the slot clock (its safety part): whatever the threads,
\* the locks and the wake-ups do, callers of next_slot and detach_event see the
\* abstract clock.
THEOREM TimerRefinesSlotClock == Spec => RefinesSlotClock
<1>1. Init => Clock!ClockInit
  <2> SUFFICES ASSUME Init PROVE Clock!ClockInit
    OBVIOUS
  <2>1. phaseBar = [d \in Devices |-> "working"]
    BY DEF Init, phaseBar, SlotDone
  <2> QED BY <2>1 DEF Init, Clock!ClockInit
<1>2. IInv /\ [Next]_vars => [Clock!ClockNext]_(Clock!clockVars)
  <2> SUFFICES ASSUME IInv, [Next]_vars
               PROVE  [Clock!ClockNext]_(Clock!clockVars)
    OBVIOUS
  <2>1. CASE \E d \in Devices : DeviceStep(d) \/ SpuriousDeviceWakeup(d)
    BY <2>1, DeviceRefines
  <2>2. CASE TimerStep \/ SpuriousTimerWakeup
    BY <2>2, TimerRefines
  <2>3. CASE MainStep \/ Terminated \/ UNCHANGED vars
    <3>1. \A e \in Devices : SlotDone(e)' = SlotDone(e)
      BY <2>3 DEF MainStep, StopTimer, FreeDevices, Terminated, vars, SlotDone,
         ReleasePending
    <3> QED BY <2>3, <3>1, ClockStutter
            DEF MainStep, StopTimer, FreeDevices, Terminated, vars
  <2> QED BY <2>1, <2>2, <2>3 DEF Next
<1> QED BY <1>1, <1>2, TimerInvariant, PTL
        DEF Spec, RefinesSlotClock, Clock!ClockSafety
=============================================================================
