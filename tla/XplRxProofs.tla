---------------------------- MODULE XplRxProofs -----------------------------
(***************************************************************************)
(* Theorems about the receiver (XplRx), for every set of datagrams, every  *)
(* watchdog period and scheduling lag with MaxLag + 3 < Period, and every  *)
(* bound on what is sent.                                                  *)
(***************************************************************************)
EXTENDS XplRx, SequenceTheorems, TLAPS

USE DEF Operating, RxAlive, LockFree, RxSilent, RxAbort

----------------------------------------------------------------------------
(* Type correctness.                                                       *)

\* The initial state is well typed.
LEMMA InitTypeOK == Init => TypeOK
<1> SUFFICES ASSUME Init PROVE TypeOK
  OBVIOUS
<1>1. /\ rxPc \in RxStates /\ mainPc \in MainStates
      /\ lock \in {"none", "rx", "main"}
  BY DEF Init, RxStates, MainStates
<1>2. /\ netBuf \in Seq(Msgs) /\ rxBuff \in Msgs
      /\ queue \in Seq(Msgs)
      /\ received \in Seq(Msgs) /\ delivered \in Seq(Msgs)
  BY RxAssumption DEF RxAssumption, Init
<1>3. /\ readyFD \in SUBSET {"data", "gasp"}
      /\ gaspRead \in SUBSET {"data", "gasp"}
  BY DEF Init
<1>4. /\ lag \in 0 .. MaxLag /\ ticks \in 0 .. Period - 1
      /\ wdog \in 0 .. WdogMax /\ termCount \in 0 .. MaxGasp
      /\ sent \in 0 .. MaxSent
  BY RxAssumption DEF RxAssumption, Init
<1>5. /\ magic \in BOOLEAN /\ freed \in BOOLEAN /\ controlFD \in BOOLEAN
      /\ controlVal \in {"zero", "term"}
      /\ rxTimer \in BOOLEAN /\ mainTimer \in BOOLEAN
      /\ timerTurn \in {"main", "rx"}
  BY DEF Init
<1>6. QED
  BY <1>1, <1>2, <1>3, <1>4, <1>5 DEF TypeOK

\* The hub and the clock keep the types.
LEMMA EnvironmentTypeOK ==
  ASSUME TypeOK, (\E m \in Msgs : NetSend(m)) \/ Clock
  PROVE  TypeOK'
<1>1. ASSUME NEW m \in Msgs, NetSend(m) PROVE TypeOK'
  BY <1>1, RxAssumption
     DEF RxAssumption, NetSend, TypeOK, rxVars, fdVars, timeVars, termVars
<1>2. CASE MainTimerExpires
  BY <1>2, RxAssumption
     DEF RxAssumption, MainTimerExpires, TypeOK, netVars, rxVars, fdVars, termVars
<1>3. CASE RxTimerExpires
  BY <1>3, RxAssumption
     DEF RxAssumption, RxTimerExpires, TypeOK, netVars, rxVars, fdVars, termVars
<1>4. QED
  BY <1>1, <1>2, <1>3 DEF Clock

\* Every step of the RX thread keeps the types.
LEMMA RxTypeOK ==
  ASSUME TypeOK, RxStep \/ RxStall
  PROVE  TypeOK'
<1> USE RxAssumption DEF RxAssumption, TypeOK, RxStates, MainStates,
                         netVars, rxVars, fdVars, timeVars, termVars
<1>1. CASE RxBoot
  BY <1>1 DEF RxBoot
<1>2. CASE RxReceive
  <2>1. /\ Head(netBuf) \in Msgs /\ Tail(netBuf) \in Seq(Msgs)
        /\ Append(received, Head(netBuf)) \in Seq(Msgs)
    BY <1>2 DEF RxReceive
  <2>2. /\ rxBuff' \in Msgs /\ netBuf' \in Seq(Msgs)
        /\ received' \in Seq(Msgs)
    BY <1>2, <2>1 DEF RxReceive
  <2>3. QED
    BY <1>2, <2>2 DEF RxReceive
<1>3. CASE RxEnqueue
  BY <1>3 DEF RxEnqueue
<1>4. CASE RxNotify
  <2>1. readyFD' \in SUBSET {"data", "gasp"}
    BY <1>4 DEF RxNotify
  <2>2. /\ rxPc' = "wait" /\ lock' = "none"
        /\ UNCHANGED <<netVars, rxBuff, received, controlFD, controlVal,
                       timeVars, termVars, mainPc, queue, delivered>>
    BY <1>4 DEF RxNotify
  <2>3. QED
    BY <2>1, <2>2
<1>5. CASE RxTick
  <2>1. wdog' \in 0 .. WdogMax
    <3>1. wdog' = IF wdog < WdogMax THEN wdog + 1 ELSE wdog
      BY <1>5 DEF RxTick
    <3>2. wdog \in 0 .. WdogMax
      OBVIOUS
    <3>3. QED
      BY ONLY <3>1, <3>2, RxAssumption DEF RxAssumption
  <2>2. lag' = 0 /\ rxTimer' = FALSE
    BY <1>5 DEF RxTick
  <2>3. UNCHANGED <<netVars, rxVars, fdVars, mainTimer, timerTurn, ticks,
                    termVars, mainPc, lock, queue, delivered>>
    BY <1>5 DEF RxTick
  <2>4. lag' \in 0 .. MaxLag
    BY ONLY <2>2, RxAssumption DEF RxAssumption
  <2>5. rxTimer' \in BOOLEAN
    BY ONLY <2>2
  <2>6. QED
    BY <2>1, <2>3, <2>4, <2>5
<1>6. CASE RxControl
  BY <1>6 DEF RxControl
<1>7. CASE RxGasp
  <2>1. readyFD' \in SUBSET {"data", "gasp"}
    BY <1>7 DEF RxGasp
  <2>2. /\ rxPc' = "unlock" /\ lock' = "rx"
        /\ UNCHANGED <<netVars, rxBuff, received, controlFD, controlVal,
                       timeVars, termVars, mainPc, queue, delivered>>
    BY <1>7 DEF RxGasp
  <2>3. QED
    BY <2>1, <2>2
<1>8. CASE RxExit
  BY <1>8 DEF RxExit
<1>9. CASE RxUseAfterFree
  BY <1>9 DEF RxUseAfterFree
<1>10. CASE RxStall
  BY <1>10 DEF RxStall
<1>11. QED
  BY <1>1, <1>2, <1>3, <1>4, <1>5, <1>6, <1>7, <1>8, <1>9, <1>10 DEF RxStep

\* Every step of the main thread keeps the types.
LEMMA MainTypeOK ==
  ASSUME TypeOK, GaspBound, MainStep \/ Signal
  PROVE  TypeOK'
<1> USE RxAssumption DEF RxAssumption, TypeOK, RxStates, MainStates,
                         netVars, rxVars, fdVars, timeVars, termVars
<1>1. CASE CreateThread
  BY <1>1 DEF CreateThread
<1>2. CASE SetMagic
  BY <1>2 DEF SetMagic
<1>3. CASE ReadReady
  BY <1>3 DEF ReadReady
<1>4. CASE Dequeue
  <2>1. /\ Head(queue) \in Msgs /\ Tail(queue) \in Seq(Msgs)
        /\ Append(delivered, Head(queue)) \in Seq(Msgs)
    BY <1>4 DEF Dequeue
  <2>2. /\ queue' \in Seq(Msgs) /\ delivered' \in Seq(Msgs)
        /\ mainPc' \in MainStates /\ lock' \in {"none", "rx", "main"}
    BY <1>4, <2>1 DEF Dequeue
  <2>3. QED
    BY <1>4, <2>2 DEF Dequeue
<1>5. CASE DrainDone
  BY <1>5 DEF DrainDone
<1>6. CASE MainTick
  <2>1. NextTick \in 0 .. Period - 1
    BY DEF NextTick
  <2>2. ticks' \in 0 .. Period - 1
    BY <1>6, <2>1 DEF MainTick
  <2>3. wdog' \in 0 .. WdogMax
    BY <1>6 DEF MainTick
  <2>4. mainPc' \in MainStates
    BY <1>6 DEF MainTick
  <2>5. mainTimer' \in BOOLEAN
    <3>1. CASE WatchdogDue(NextTick)
      <4>1. mainTimer' = (wdog = 0)
        BY <1>6, <3>1 DEF MainTick
      <4>2. QED
        BY <4>1
    <3>2. CASE ~WatchdogDue(NextTick)
      BY <1>6, <3>2 DEF MainTick
    <3>3. QED
      BY <3>1, <3>2
  <2>6. UNCHANGED <<netVars, rxVars, fdVars, rxTimer, timerTurn, lag,
                    termVars, lock, queue, delivered>>
    BY <1>6 DEF MainTick
  <2>7. QED
    BY <2>2, <2>3, <2>4, <2>5, <2>6
<1>7. CASE FatalExit
  BY <1>7 DEF FatalExit
<1>8. CASE SetControl
  BY <1>8 DEF SetControl
<1>9. CASE WriteControl
  BY <1>9 DEF WriteControl
<1>10. CASE GaspLoop
  BY <1>10 DEF GaspLoop
<1>11. CASE GaspRead
  BY <1>11 DEF GaspRead
<1>12. CASE GaspMiss
  BY <1>12 DEF GaspMiss, GaspBound
<1>13. CASE Relock
  BY <1>13 DEF Relock
<1>14. CASE Destroy
  BY <1>14 DEF Destroy
<1>15. CASE ExitProcess
  BY <1>15 DEF ExitProcess
<1>16. CASE Signal
  BY <1>16 DEF Signal
<1>17. QED
  BY <1>1, <1>2, <1>3, <1>4, <1>5, <1>6, <1>7, <1>8, <1>9, <1>10, <1>11,
     <1>12, <1>13, <1>14, <1>15, <1>16 DEF MainStep

\* What each step keeps, put together.
LEMMA TypeOKStep ==
  ASSUME TypeOK, GaspBound, [Next]_vars
  PROVE  TypeOK' /\ GaspBound'
<1>1. TypeOK'
  <2>1. CASE UNCHANGED vars
    BY <2>1 DEF vars, TypeOK, netVars, rxVars, fdVars, timeVars, termVars
  <2>2. CASE Next
    BY <2>2, EnvironmentTypeOK, RxTypeOK, MainTypeOK DEF Next
  <2>3. QED
    BY <2>1, <2>2
<1>2. GaspBound'
  <2> USE DEF GaspBound, vars, netVars, rxVars, fdVars, timeVars, termVars
  <2>1. CASE UNCHANGED vars
    BY <2>1
  <2>2. CASE (\E m \in Msgs : NetSend(m)) \/ Clock
    BY <2>2 DEF NetSend, Clock, MainTimerExpires, RxTimerExpires
  <2>3. CASE RxStep \/ RxStall
    BY <2>3 DEF RxStep, RxBoot, RxReceive, RxEnqueue, RxNotify, RxTick,
                RxControl, RxGasp, RxExit, RxUseAfterFree, RxStall
  <2>4. CASE MainStep \/ Signal
    BY <2>4 DEF MainStep, Signal, CreateThread, SetMagic, ReadReady, Dequeue,
                DrainDone, MainTick, FatalExit, SetControl, WriteControl,
                GaspLoop, GaspRead, GaspMiss, Relock, Destroy, ExitProcess
  <2>5. QED
    BY <2>1, <2>2, <2>3, <2>4 DEF Next
<1>3. QED
  BY <1>1, <1>2

\* Type correctness of the receiver: the wait for the dying gasp, the
\* watchdog counters and the eventfds stay in their ranges.
THEOREM TypeCorrect == SafeSpec => []TypeOK
<1>1. Init => TypeOK /\ GaspBound
  BY InitTypeOK DEF Init, GaspBound
<1>2. TypeOK /\ GaspBound /\ [Next]_vars => TypeOK' /\ GaspBound'
  BY TypeOKStep
<1>3. QED
  BY <1>1, <1>2, PTL DEF SafeSpec

----------------------------------------------------------------------------
(* The inductive invariant.  TypeOK and GaspBound come from TypeOKStep;    *)
(* each of the others is preserved by every step, given those before it.   *)

LocksInv == LockInv /\ StartInv

\* Only the holder of the lock is inside a critical section, and nothing has
\* happened before the thread is created.
LEMMA LocksStep ==
  ASSUME TypeOK, LocksInv, [Next]_vars
  PROVE  LocksInv'
<1> USE DEF LocksInv, LockInv, StartInv, Ended, vars, netVars, rxVars, fdVars,
            timeVars, termVars
<1>1. CASE UNCHANGED vars
  BY <1>1
<1>2. CASE \E m \in Msgs : NetSend(m)
  BY <1>2 DEF NetSend
<1>3. CASE Clock
  BY <1>3 DEF Clock, MainTimerExpires, RxTimerExpires
<1>4. CASE RxStep \/ RxStall
  <2>1. CASE RxBoot \/ RxReceive \/ RxEnqueue \/ RxNotify \/ RxTick
    BY <2>1 DEF RxBoot, RxReceive, RxEnqueue, RxNotify, RxTick
  <2>2. CASE RxControl \/ RxGasp \/ RxExit \/ RxUseAfterFree \/ RxStall
    BY <2>2 DEF RxControl, RxGasp, RxExit, RxUseAfterFree, RxStall
  <2>3. QED
    BY <1>4, <2>1, <2>2 DEF RxStep
<1>5. CASE MainStep \/ Signal
  <2>1. CASE CreateThread \/ SetMagic \/ ReadReady \/ Dequeue \/ DrainDone
    BY <2>1 DEF CreateThread, SetMagic, ReadReady, Dequeue, DrainDone
  <2>2. CASE MainTick
    BY <2>2 DEF MainTick
  <2>3. CASE FatalExit \/ SetControl \/ WriteControl \/ GaspLoop \/ Signal
    BY <2>3 DEF FatalExit, SetControl, WriteControl, GaspLoop, Signal
  <2>4. CASE GaspRead \/ GaspMiss \/ Relock \/ Destroy \/ ExitProcess
    BY <2>4 DEF GaspRead, GaspMiss, Relock, Destroy, ExitProcess
  <2>5. QED
    BY <1>5, <2>1, <2>2, <2>3, <2>4 DEF MainStep
<1>6. QED
  BY <1>1, <1>2, <1>3, <1>4, <1>5 DEF Next

\* A queued string stays announced, from one drain of the list to the next.
LEMMA WakeStep ==
  ASSUME TypeOK, LocksInv, WakeInv, [Next]_vars
  PROVE  WakeInv'
<1> USE DEF WakeInv, vars, netVars, rxVars, fdVars, timeVars, termVars
<1>1. CASE UNCHANGED vars
  BY <1>1
<1>2. CASE \E m \in Msgs : NetSend(m)
  BY <1>2 DEF NetSend
<1>3. CASE Clock
  BY <1>3 DEF Clock, MainTimerExpires, RxTimerExpires
<1>4. CASE RxStep \/ RxStall
  <2>1. CASE RxBoot \/ RxReceive \/ RxEnqueue \/ RxNotify \/ RxTick
    BY <2>1 DEF RxBoot, RxReceive, RxEnqueue, RxNotify, RxTick
  <2>2. CASE RxControl \/ RxGasp \/ RxExit \/ RxUseAfterFree \/ RxStall
    BY <2>2 DEF RxControl, RxGasp, RxExit, RxUseAfterFree, RxStall
  <2>3. QED
    BY <1>4, <2>1, <2>2 DEF RxStep
<1>5. CASE MainStep \/ Signal
  <2>1. CASE CreateThread
    BY <2>1 DEF CreateThread, LocksInv, StartInv
  <2>2. CASE SetMagic \/ ReadReady \/ Dequeue \/ DrainDone \/ MainTick
    BY <2>2 DEF SetMagic, ReadReady, Dequeue, DrainDone, MainTick
  <2>3. CASE FatalExit \/ SetControl \/ WriteControl \/ GaspLoop \/ Signal
    BY <2>3 DEF FatalExit, SetControl, WriteControl, GaspLoop, Signal
  <2>4. CASE GaspRead \/ GaspMiss \/ Relock \/ Destroy \/ ExitProcess
    BY <2>4 DEF GaspRead, GaspMiss, Relock, Destroy, ExitProcess
  <2>5. QED
    BY <1>5, <2>1, <2>2, <2>3, <2>4 DEF MainStep
<1>6. QED
  BY <1>1, <1>2, <1>3, <1>4, <1>5 DEF Next

\* A thread that has gasped only leaves; the lock tells when it has left.
LEMMA GaspStep ==
  ASSUME TypeOK, LocksInv, GaspInv, [Next]_vars
  PROVE  GaspInv'
<1> USE DEF GaspInv, GaspSound, Ended, vars, netVars, rxVars, fdVars,
            timeVars, termVars
<1>1. CASE UNCHANGED vars
  BY <1>1
<1>2. CASE \E m \in Msgs : NetSend(m)
  BY <1>2 DEF NetSend
<1>3. CASE Clock
  BY <1>3 DEF Clock, MainTimerExpires, RxTimerExpires
<1>4. CASE RxStep \/ RxStall
  <2>1. CASE RxBoot \/ RxReceive \/ RxEnqueue \/ RxTick \/ RxStall
    BY <2>1 DEF RxBoot, RxReceive, RxEnqueue, RxTick, RxStall
  <2>2. CASE RxNotify
    BY <2>2 DEF RxNotify
  <2>3. CASE RxGasp
    BY <2>3 DEF RxGasp
  <2>4. CASE RxControl \/ RxExit \/ RxUseAfterFree
    BY <2>4 DEF RxControl, RxExit, RxUseAfterFree
  <2>5. QED
    BY <1>4, <2>1, <2>2, <2>3, <2>4 DEF RxStep
<1>5. CASE MainStep \/ Signal
  <2>1. CASE CreateThread
    BY <2>1 DEF CreateThread, LocksInv, StartInv
  <2>2. CASE SetMagic \/ ReadReady \/ Dequeue \/ DrainDone \/ MainTick
    BY <2>2 DEF SetMagic, ReadReady, Dequeue, DrainDone, MainTick
  <2>3. CASE FatalExit \/ SetControl \/ WriteControl \/ GaspLoop \/ Signal
    BY <2>3 DEF FatalExit, SetControl, WriteControl, GaspLoop, Signal
  <2>4. CASE GaspRead \/ GaspMiss \/ Destroy \/ ExitProcess
    BY <2>4 DEF GaspRead, GaspMiss, Destroy, ExitProcess
  <2>5. CASE Relock
    BY <2>5 DEF Relock, LocksInv, LockInv
  <2>6. QED
    BY <1>5, <2>1, <2>2, <2>3, <2>4, <2>5 DEF MainStep
<1>6. QED
  BY <1>1, <1>2, <1>3, <1>4, <1>5 DEF Next

\* The watchdog never fires on a live thread: from one check to the next the
\* RX timer has expired often enough to be served once.
LEMMA WdogStep ==
  ASSUME TypeOK, LocksInv, WdogInv, [Next]_vars
  PROVE  WdogInv'
<1> DEFINE Watching == mainPc \in {"setmagic", "loop", "drain"}
                         /\ ~RxSilent /\ wdog = 0
           Due(b) == IF b THEN 1 ELSE 0
           Ahead == WindowTicks + Due(mainTimer)
                      <= 1 + WindowExpiries + Due(timerTurn = "rx")
<1>0. /\ WdogInv <=> (WatchdogSound /\ (Watching => Ahead))
      /\ WdogInv' <=> (WatchdogSound' /\ (Watching' => Ahead'))
  BY DEF WdogInv
<1>t. /\ ticks \in Nat /\ lag \in Nat /\ lag <= MaxLag /\ wdog \in Nat
      /\ ticks <= Period - 1 /\ Period \in Nat /\ MaxLag \in Nat
      /\ MaxLag + 3 < Period
      /\ WdogMax \in Nat /\ WdogMax # 0
  BY RxAssumption DEF RxAssumption, TypeOK
<1> USE DEF WatchdogSound
<1>1. CASE UNCHANGED <<rxPc, mainPc, timeVars>>
  BY <1>0, <1>1 DEF timeVars, WindowTicks, WindowExpiries
<1>2. CASE Clock
  <2>1. UNCHANGED <<rxPc, mainPc, ticks, wdog>>
    BY <1>2 DEF Clock, MainTimerExpires, RxTimerExpires, rxVars
  <2>2. ASSUME Watching' PROVE Ahead'
    <3>0. Watching /\ Ahead /\ WindowTicks' = WindowTicks
      BY <1>0, <2>1, <2>2 DEF WindowTicks
    <3>1. CASE MainTimerExpires
      <4>1. /\ timerTurn = "main" /\ timerTurn' = "rx"
            /\ WindowExpiries' = WindowExpiries
            /\ WindowExpiries \in Nat /\ WindowTicks \in Nat
        BY <3>1, <1>t DEF MainTimerExpires, WindowExpiries, WindowTicks
      <4>2. QED
        BY <3>0, <4>1
    <3>2. CASE RxTimerExpires
      <4>1. /\ timerTurn = "rx" /\ timerTurn' = "main"
            /\ mainTimer' = mainTimer /\ rxTimer' = TRUE
        BY <3>2 DEF RxTimerExpires
      <4>2. lag' = IF rxTimer /\ lag < MaxLag THEN lag + 1 ELSE lag
        BY <3>2 DEF RxTimerExpires
      <4>3. rxTimer => lag < MaxLag
        BY <3>0, <3>2 DEF RxTimerExpires
      <4>4. /\ WindowExpiries \in Nat /\ WindowTicks \in Nat
            /\ WindowExpiries' >= WindowExpiries + 1
            /\ WindowExpiries' \in Nat
        BY <4>1, <4>2, <4>3, <1>t DEF WindowExpiries, WindowTicks
      <4>5. WindowTicks + Due(mainTimer) <= 2 + WindowExpiries
        BY <3>0, <4>1, <4>4
      <4>6. /\ Due(mainTimer') = Due(mainTimer) /\ Due(timerTurn' = "rx") = 0
            /\ Due(mainTimer) \in Nat
        BY <4>1
      <4>7. WindowTicks' + Due(mainTimer') <= 1 + WindowExpiries' + 0
        <5> HIDE DEF Due
        <5> QED BY <4>4, <4>5, <4>6, <3>0
      <4>8. QED
        BY <4>6, <4>7
    <3>3. QED
      BY <1>2, <3>1, <3>2 DEF Clock
  <2>3. WatchdogSound'
    BY <1>0, <2>1
  <2>4. QED
    BY <1>0, <2>2, <2>3
<1>3. CASE RxStep \/ RxStall
  <2>1. CASE RxTick
    <3>1. wdog' # 0 /\ mainPc' = mainPc /\ rxPc' = rxPc
      BY <2>1, <1>t DEF RxTick, rxVars
    <3>2. QED
      BY <3>1, <1>0
  <2>2. CASE RxBoot \/ RxReceive \/ RxEnqueue \/ RxNotify \/ RxControl
    <3>1. /\ UNCHANGED timeVars
          /\ ~RxSilent /\ (mainPc' = mainPc \/ mainPc' = "terminated")
      BY <2>2 DEF RxBoot, RxReceive, RxEnqueue, RxNotify, RxControl
    <3>2. QED
      BY <3>1, <1>0 DEF timeVars, WindowTicks, WindowExpiries
  <2>3. CASE RxGasp \/ RxExit \/ RxUseAfterFree \/ RxStall
    <3>1. /\ UNCHANGED timeVars
          /\ ~RxSilent /\ (mainPc' = mainPc \/ mainPc' = "terminated")
      BY <2>3 DEF RxGasp, RxExit, RxUseAfterFree, RxStall
    <3>2. QED
      BY <3>1, <1>0 DEF timeVars, WindowTicks, WindowExpiries
  <2>4. QED
    BY <1>3, <2>1, <2>2, <2>3 DEF RxStep
<1>4. CASE MainTick
  <2>1. /\ mainPc = "loop" /\ mainTimer /\ ticks' = NextTick
        /\ UNCHANGED <<rxPc, rxTimer, timerTurn, lag>>
    BY <1>4 DEF MainTick, rxVars
  <2>2. /\ NextTick = WindowTicks /\ WindowTicks \in Nat
        /\ WindowExpiries \in Nat /\ WindowExpiries <= MaxLag + 1
        /\ WindowExpiries' = WindowExpiries
    BY <1>t, <2>1 DEF NextTick, WindowTicks, WindowExpiries
  <2>3. CASE WatchdogDue(NextTick)
    <3>1. /\ wdog' = 0
          /\ mainPc' = IF wdog = 0 THEN "wdogfatal" ELSE "loop"
          /\ wdog # 0 => ~mainTimer'
      BY <1>4, <2>3 DEF MainTick
    <3>2. ticks' = Period - 1 /\ WindowTicks' = 0
      BY <2>1, <2>3 DEF WatchdogDue, WindowTicks
    <3>3. CASE wdog = 0
      <4>1. ASSUME ~RxSilent PROVE FALSE
        <5>1. WindowTicks + 1 <= 1 + WindowExpiries + Due(timerTurn = "rx")
          BY <1>0, <2>1, <3>3, <4>1
        <5>2. Due(timerTurn = "rx") <= 1 /\ Due(timerTurn = "rx") \in Nat
          OBVIOUS
        <5>3. WindowTicks = Period - 1
          BY <2>2, <2>3 DEF WatchdogDue
        <5>4. QED
          BY ONLY <5>1, <5>2, <5>3, <2>2, <1>t
      <4>2. QED
        BY <1>0, <2>1, <3>1, <3>3, <4>1
    <3>4. CASE wdog # 0
      BY <1>0, <2>1, <2>2, <3>1, <3>2, <3>4
    <3>5. QED
      BY <3>3, <3>4
  <2>4. CASE ~WatchdogDue(NextTick)
    <3>1. ~mainTimer' /\ UNCHANGED <<wdog, mainPc>>
      BY <1>4, <2>4 DEF MainTick
    <3>2. WindowTicks' = WindowTicks + 1
      BY <1>t, <2>1, <2>2, <2>4 DEF WatchdogDue, WindowTicks
    <3>3. QED
      BY <1>0, <2>1, <2>2, <3>1, <3>2
  <2>5. QED
    BY <2>3, <2>4
<1>5. CASE CreateThread
  <2>1. /\ mainPc = "create" /\ mainPc' = "setmagic" /\ ticks = 0
        /\ mainTimer => timerTurn = "rx" \/ rxTimer
        /\ UNCHANGED timeVars
    BY <1>5 DEF CreateThread, LocksInv, StartInv
  <2>2. WindowTicks = 1 /\ WindowExpiries \in Nat
    BY <1>t, <2>1 DEF WindowTicks, WindowExpiries
  <2>3. mainTimer /\ timerTurn # "rx" => WindowExpiries >= 1
    BY <1>t, <2>1 DEF WindowExpiries
  <2>4. Ahead
    BY <2>2, <2>3
  <2>5. Ahead'
    BY <2>1, <2>4 DEF timeVars, WindowTicks, WindowExpiries
  <2>6. QED
    BY <1>0, <2>1, <2>5
<1>6. CASE (MainStep \/ Signal) /\ ~MainTick /\ ~CreateThread
  <2>1. /\ UNCHANGED <<timeVars, rxPc>>
        /\ mainPc' \in {"setmagic", "loop", "drain"}
             => mainPc \in {"setmagic", "loop", "drain"}
        /\ mainPc' # "wdogfatal" \/ mainPc = "wdogfatal"
    <3>1. CASE SetMagic \/ ReadReady \/ Dequeue \/ DrainDone \/ FatalExit
      BY <3>1 DEF SetMagic, ReadReady, Dequeue, DrainDone, FatalExit, rxVars
    <3>2. CASE SetControl \/ WriteControl \/ GaspLoop \/ Signal
      BY <3>2 DEF SetControl, WriteControl, GaspLoop, Signal, rxVars
    <3>3. CASE GaspRead \/ GaspMiss \/ Relock \/ Destroy \/ ExitProcess
      BY <3>3 DEF GaspRead, GaspMiss, Relock, Destroy, ExitProcess, rxVars
    <3>4. QED
      BY <1>6, <3>1, <3>2, <3>3 DEF MainStep
  <2>2. Ahead' <=> Ahead
    BY <2>1 DEF timeVars, WindowTicks, WindowExpiries
  <2>3. QED
    BY <1>0, <2>1, <2>2 DEF timeVars
<1>7. CASE (\E m \in Msgs : NetSend(m)) \/ UNCHANGED vars
  BY <1>1, <1>7 DEF NetSend, vars, rxVars
<1>8. QED
  BY <1>2, <1>3, <1>4, <1>5, <1>6, <1>7 DEF Next, MainStep

----------------------------------------------------------------------------
(* Facts about the sequences that make up the history.                     *)

\* Appending to a sequence appends to each of its proper suffixes.
LEMMA SuffixOfAppend ==
  ASSUME NEW S, NEW s \in Seq(S), NEW e \in S, NEW k \in 0 .. Len(s)
  PROVE  SubSeq(Append(s, e), k + 1, Len(Append(s, e)))
           = Append(SubSeq(s, k + 1, Len(s)), e)
<1> DEFINE t == Append(s, e)
           n == Len(s) + 1
<1>1. /\ t \in Seq(S) /\ Len(t) = n /\ t[n] = e /\ t = s \o <<e>>
      /\ Len(s) \in Nat
  BY AppendProperties, AppendIsConcat, LenProperties
<1>2. SubSeq(t, k + 1, n) = SubSeq(t, k + 1, Len(s)) \o <<e>>
  <2>1. k + 1 \in 1 .. Len(t) /\ n \in k + 1 .. Len(t) /\ n - 1 = Len(s)
    BY <1>1
  <2> HIDE DEF t
  <2>2. SubSeq(t, k + 1, n) = SubSeq(t, k + 1, n - 1) \o <<t[n]>>
    BY <1>1, <2>1, SubSeqRecursiveSecond
  <2>3. QED
    BY <1>1, <2>1, <2>2
<1>3. SubSeq(t, k + 1, Len(s)) = SubSeq(s, k + 1, Len(s))
  <2>1. CASE k = Len(s)
    <3>1. Len(s) < k + 1 /\ k + 1 \in Int /\ Len(s) \in Int
      BY <1>1, <2>1
    <3>2. QED
      BY <3>1, SubSeqEmpty
  <2>2. CASE k # Len(s)
    <3>1. k + 1 \in 1 .. Len(s) /\ Len(s) \in 1 .. Len(s)
      BY <1>1, <2>2
    <3>2. <<e>> \in Seq(S)
      OBVIOUS
    <3>3. SubSeq(s \o <<e>>, k + 1, Len(s)) = SubSeq(s, k + 1, Len(s))
      BY <3>1, <3>2, SubSeqOfConcat1
    <3>4. QED
      BY <1>1, <3>3
  <2>3. QED
    BY <2>1, <2>2
<1>4. SubSeq(s, k + 1, Len(s)) \in Seq(S)
  <2>1. \A i \in k + 1 .. Len(s) : s[i] \in S
    BY ElementOfSeq, <1>1
  <2>2. QED
    BY <1>1, <2>1, SubSeqProperties
<1>5. QED
  BY <1>1, <1>2, <1>3, <1>4, AppendIsConcat

\* Moving the head of the second of three sequences to the end of the first
\* leaves their concatenation as it is.
LEMMA MoveHead ==
  ASSUME NEW S, NEW d \in Seq(S), NEW q \in Seq(S), NEW h \in Seq(S), q # <<>>
  PROVE  d \o q \o h = Append(d, Head(q)) \o Tail(q) \o h
<1>1. /\ Head(q) \in S /\ Tail(q) \in Seq(S) /\ <<Head(q)>> \in Seq(S)
  BY HeadTailProperties
<1>2. q = <<Head(q)>> \o Tail(q)
  <2>1. /\ Len(q) \in Nat /\ Len(q) # 0 /\ Head(q) = q[1]
    BY EmptySeq
  <2>2. SubSeq(q, 1, Len(q)) = <<q[1]>> \o SubSeq(q, 1 + 1, Len(q))
    BY <2>1, SubSeqRecursiveFirst
  <2>3. SubSeq(q, 1, Len(q)) = q /\ SubSeq(q, 1 + 1, Len(q)) = Tail(q)
    BY SubSeqFull, TailIsSubSeq
  <2>4. QED
    BY <2>1, <2>2, <2>3
<1>3. d \o q = (d \o <<Head(q)>>) \o Tail(q)
  <2>1. d \o (<<Head(q)>> \o Tail(q)) = (d \o <<Head(q)>>) \o Tail(q)
    BY <1>1, ConcatAssociative
  <2>2. QED
    BY <1>2, <2>1
<1>4. QED
  BY <1>1, <1>3, AppendIsConcat

\* The first string not delivered yet is the head of the queue.
LEMMA HeadOfRest ==
  ASSUME NEW S, NEW d \in Seq(S), NEW q \in Seq(S), NEW h \in Seq(S), q # <<>>
  PROVE  /\ Len(d) + 1 \in 1 .. Len(d \o q \o h)
         /\ (d \o q \o h)[Len(d) + 1] = Head(q)
<1> DEFINE c == d \o q
<1>1. /\ c \in Seq(S) /\ Len(c) = Len(d) + Len(q)
      /\ \A i \in 1 .. Len(c) : c[i] = IF i <= Len(d) THEN d[i] ELSE q[i - Len(d)]
  BY ConcatProperties
<1>2. /\ Len(d) \in Nat /\ Len(q) \in Nat /\ Len(q) # 0 /\ Len(h) \in Nat
  BY EmptySeq, LenProperties
<1> HIDE DEF c
<1>3. /\ c \o h \in Seq(S) /\ Len(c \o h) = Len(c) + Len(h)
      /\ \A i \in 1 .. Len(c) + Len(h) :
           (c \o h)[i] = IF i <= Len(c) THEN c[i] ELSE h[i - Len(c)]
  <2>1. c \in Seq(S)
    BY <1>1
  <2>2. QED
    BY <2>1, ConcatProperties
<1>4. Len(d) + 1 \in 1 .. Len(c) /\ Len(d) + 1 \in 1 .. Len(c) + Len(h)
  BY <1>1, <1>2
<1>5. (c \o h)[Len(d) + 1] = c[Len(d) + 1]
  BY <1>3, <1>4
<1>6. c[Len(d) + 1] = q[1]
  <2>1. ~(Len(d) + 1 <= Len(d)) /\ Len(d) + 1 - Len(d) = 1
    BY <1>2
  <2>2. QED
    BY <1>1, <1>4, <2>1
<1>7. Len(d) + 1 \in 1 .. Len(c \o h) /\ (c \o h)[Len(d) + 1] = Head(q)
  <2>1. Len(d) + 1 \in 1 .. Len(c \o h)
    BY <1>3, <1>4
  <2>2. Head(q) = q[1]
    OBVIOUS
  <2>3. QED
    BY <2>1, <2>2, <1>5, <1>6
<1>8. QED
  BY <1>7 DEF c

----------------------------------------------------------------------------
(* The receiver implements the channel.                                    *)

\* Every string received is delivered, queued or in the RX thread's hands,
\* in that order, as long as the daemon operates.
LEMMA OrderStep ==
  ASSUME TypeOK, StartInv, OrderInv, [Next]_vars
  PROVE  OrderInv'
<1> DEFINE Hist == <<received, delivered, queue>>
<1>t. /\ received \in Seq(Msgs) /\ delivered \in Seq(Msgs)
      /\ queue \in Seq(Msgs) /\ rxBuff \in Msgs /\ InHand \in Seq(Msgs)
      /\ Len(received) \in Nat /\ Len(delivered) \in Nat
  BY DEF TypeOK, InHand
<1>1. CASE /\ UNCHANGED Hist
           /\ Operating' => Operating /\ InHand' = InHand
  BY <1>1 DEF OrderInv
<1>2. CASE (\E m \in Msgs : NetSend(m)) \/ Clock \/ UNCHANGED vars
  BY <1>1, <1>2 DEF NetSend, Clock, MainTimerExpires, RxTimerExpires, InHand,
                    vars, rxVars
<1>3. CASE RxReceive
  <2> DEFINE m == Head(netBuf)
  <2>1. /\ m \in Msgs /\ received' = Append(received, m)
        /\ InHand = <<>> /\ InHand' = <<m>>
        /\ UNCHANGED <<mainPc, delivered, queue>>
    BY <1>3, HeadTailProperties DEF RxReceive, TypeOK, InHand
  <2> HIDE DEF m
  <2>2. received' = received \o <<m>> /\ Len(received') = Len(received) + 1
    BY <1>t, <2>1, AppendIsConcat, AppendProperties
  <2>3. (delivered \o queue) \o <<>> = delivered \o queue
    BY <1>t, ConcatProperties, ConcatEmptySeq
  <2>4. ASSUME Operating PROVE received' = delivered \o queue \o <<m>>
    <3>1. received = delivered \o queue
      BY <2>1, <2>3, <2>4 DEF OrderInv
    <3>2. QED
      BY <2>2, <3>1
  <2>5. Len(delivered) <= Len(received')
    BY <1>t, <2>2 DEF OrderInv
  <2>6. QED
    BY <2>1, <2>4, <2>5 DEF OrderInv
<1>4. CASE RxEnqueue
  <2>1. /\ queue' = Append(queue, rxBuff)
        /\ InHand = <<rxBuff>> /\ InHand' = <<>>
        /\ UNCHANGED <<mainPc, delivered, received>>
    BY <1>4 DEF RxEnqueue, InHand
  <2>2. /\ queue' = queue \o <<rxBuff>> /\ <<rxBuff>> \in Seq(Msgs)
        /\ queue' \in Seq(Msgs)
    BY <1>t, <2>1, AppendIsConcat, AppendProperties
  <2>3. (delivered \o queue) \o <<rxBuff>> = delivered \o (queue \o <<rxBuff>>)
    BY <1>t, <2>2, ConcatAssociative
  <2>4. (delivered \o queue') \o <<>> = delivered \o queue'
    BY <1>t, <2>2, ConcatProperties, ConcatEmptySeq
  <2>5. QED
    BY <2>1, <2>2, <2>3, <2>4 DEF OrderInv
<1>5. CASE (RxStep /\ ~RxReceive /\ ~RxEnqueue) \/ RxStall
  <2>1. CASE RxBoot \/ RxNotify \/ RxTick \/ RxControl
    BY <1>1, <2>1 DEF RxBoot, RxNotify, RxTick, RxControl, InHand, rxVars
  <2>2. CASE RxGasp \/ RxExit \/ RxUseAfterFree \/ RxStall
    BY <1>1, <2>2 DEF RxGasp, RxExit, RxUseAfterFree, RxStall, InHand
  <2>3. QED
    BY <1>5, <2>1, <2>2 DEF RxStep
<1>6. CASE CreateThread
  BY <1>1, <1>6 DEF CreateThread, InHand, StartInv
<1>7. CASE Dequeue
  <2>1. /\ queue # <<>> /\ queue' = Tail(queue) /\ UNCHANGED received
        /\ Operating /\ InHand' = InHand
    BY <1>7 DEF Dequeue, InHand, rxVars
  <2>2. CASE Head(queue) = Empty
    BY <1>7, <2>1, <2>2 DEF Dequeue, OrderInv
  <2>3. CASE Head(queue) # Empty
    <3>1. delivered' = Append(delivered, Head(queue)) /\ mainPc' = mainPc
      BY <1>7, <2>3 DEF Dequeue
    <3>2. received = delivered' \o queue' \o InHand
      BY <1>t, <2>1, <3>1, MoveHead DEF OrderInv
    <3>3. Len(delivered) + 1 \in 1 .. Len(received)
      BY <1>t, <2>1, HeadOfRest DEF OrderInv
    <3>4. Len(delivered') = Len(delivered) + 1
      BY <1>t, <2>1, <3>1, HeadTailProperties, AppendProperties
    <3>5. QED
      BY <1>t, <2>1, <3>1, <3>2, <3>3, <3>4 DEF OrderInv
  <2>4. QED
    BY <2>2, <2>3
<1>8. CASE (MainStep \/ Signal) /\ ~CreateThread /\ ~Dequeue
  <2>1. CASE SetMagic \/ ReadReady \/ DrainDone \/ MainTick \/ FatalExit
    BY <1>1, <2>1 DEF SetMagic, ReadReady, DrainDone, MainTick, FatalExit,
                      InHand, rxVars
  <2>2. CASE SetControl \/ WriteControl \/ GaspLoop \/ Signal
    BY <1>1, <2>2 DEF SetControl, WriteControl, GaspLoop, Signal, InHand, rxVars
  <2>3. CASE GaspRead \/ GaspMiss \/ Relock \/ Destroy \/ ExitProcess
    BY <1>1, <2>3 DEF GaspRead, GaspMiss, Relock, Destroy, ExitProcess,
                      InHand, rxVars
  <2>4. QED
    BY <1>8, <2>1, <2>2, <2>3 DEF MainStep
<1>9. QED
  BY <1>2, <1>3, <1>4, <1>5, <1>6, <1>7, <1>8 DEF Next, MainStep

\* The inductive invariant of the receiver.
IInv == /\ TypeOK /\ GaspBound /\ LocksInv /\ WakeInv
        /\ GaspInv /\ WdogInv /\ OrderInv

\* The invariant holds in every state the receiver can reach.
LEMMA Invariance == SafeSpec => []IInv
<1>1. Init => IInv
  <2> SUFFICES ASSUME Init PROVE IInv
    OBVIOUS
  <2>1. TypeOK
    BY InitTypeOK
  <2>2. GaspBound /\ LocksInv /\ WakeInv /\ GaspInv
    BY DEF Init, GaspBound, LocksInv, LockInv, StartInv, WakeInv, GaspInv,
           GaspSound, Ended
  <2>3. WdogInv
    BY DEF Init, WdogInv, WatchdogSound
  <2>4. OrderInv
    <3>1. received = <<>> /\ delivered = <<>> /\ queue = <<>> /\ InHand = <<>>
      BY DEF Init, InHand
    <3>2. <<>> \o <<>> = <<>>
      BY EmptySeq, ConcatEmptySeq
    <3>3. Len(delivered) <= Len(received)
      BY <3>1
    <3>4. delivered \o queue \o InHand = <<>>
      BY <3>1, <3>2
    <3>5. QED
      BY <3>1, <3>3, <3>4 DEF OrderInv
  <2>5. QED
    BY <2>1, <2>2, <2>3, <2>4 DEF IInv
<1>2. IInv /\ [Next]_vars => IInv'
  <2> SUFFICES ASSUME IInv, [Next]_vars PROVE IInv'
    OBVIOUS
  <2> USE DEF IInv
  <2>1. TypeOK' /\ GaspBound'
    BY TypeOKStep
  <2>2. LocksInv'
    BY LocksStep
  <2>3. WakeInv' /\ GaspInv' /\ WdogInv'
    BY WakeStep, GaspStep, WdogStep
  <2>4. OrderInv'
    BY OrderStep DEF LocksInv
  <2>5. QED
    BY <2>1, <2>2, <2>3, <2>4
<1>3. QED
  BY <1>1, <1>2, PTL DEF SafeSpec

\* No wakeup is lost: a queued string is announced by a pending event, or is
\* about to be, whenever the main thread is back in its poll.
THEOREM WakeupsNotLost == SafeSpec => []NoLostWakeup
<1>1. IInv => NoLostWakeup
  BY DEF IInv, WakeInv, NoLostWakeup
<1>2. QED
  BY <1>1, Invariance, PTL

\* A wait that read the dying gasp ends after the RX thread's last use of the
\* receive header.
THEOREM GaspIsLast == SafeSpec => []GaspSound
<1>1. IInv => GaspSound
  BY DEF IInv, GaspInv, GaspSound, Ended
<1>2. QED
  BY <1>1, Invariance, PTL

\* The watchdog takes the process down only for a missing or stalled thread,
\* for every period and scheduling lag with MaxLag + 3 < Period.
THEOREM NoFalseAlarm == SafeSpec => []WatchdogSound
<1>1. IInv => WatchdogSound
  BY DEF IInv, WdogInv
<1>2. QED
  BY <1>1, Invariance, PTL

\* A received string joins the end of those that wait.
LEMMA ReceiveIsPut ==
  ASSUME IInv, RxReceive
  PROVE  Chan!Next
<1> DEFINE m == Head(netBuf)
<1>1. /\ m \in Msgs /\ received' = Append(received, m)
      /\ UNCHANGED <<mainPc, delivered>>
  BY HeadTailProperties DEF RxReceive, IInv, TypeOK
<1>2. /\ received \in Seq(Msgs) /\ Len(delivered) \in 0 .. Len(received)
  BY DEF IInv, TypeOK, OrderInv
<1> HIDE DEF m
<1>3. SubSeq(Append(received, m), Len(delivered) + 1, Len(Append(received, m)))
        = Append(Waiting, m)
  BY <1>1, <1>2, SuffixOfAppend DEF Waiting
<1>4. Waiting' = Append(Waiting, m)
  BY <1>1, <1>3 DEF Waiting
<1>5. Chan!Put(m)
  BY <1>1, <1>4 DEF Chan!Put
<1>6. QED
  BY <1>1, <1>5 DEF Chan!Next

\* The string that the main thread takes is the first of those that wait.
LEMMA DequeueIsTake ==
  ASSUME IInv, Dequeue, Head(queue) # Empty
  PROVE  Chan!Next
<1>1. /\ received \in Seq(Msgs) /\ delivered \in Seq(Msgs)
      /\ queue \in Seq(Msgs) /\ InHand \in Seq(Msgs)
      /\ received = delivered \o queue \o InHand /\ queue # <<>>
  BY DEF IInv, TypeOK, OrderInv, InHand, Dequeue
<1>2. /\ Operating /\ Operating' /\ UNCHANGED received
      /\ delivered' = Append(delivered, Head(queue))
  BY DEF Dequeue, rxVars
<1>3. /\ Len(delivered) + 1 \in 1 .. Len(received)
      /\ received[Len(delivered) + 1] = Head(queue)
  BY <1>1, HeadOfRest
<1>4. /\ Len(received) \in Len(delivered) + 1 .. Len(received)
      /\ Len(received) \in Nat /\ Len(delivered) \in Nat
  BY <1>1, <1>3, LenProperties
<1>5. /\ Head(Waiting) = Head(queue)
      /\ Tail(Waiting) = SubSeq(received, Len(delivered) + 1 + 1, Len(received))
  BY <1>1, <1>3, <1>4, HeadTailOfSubSeq DEF Waiting
<1>6. Waiting # <<>>
  <2>1. \A i \in Len(delivered) + 1 .. Len(received) : received[i] \in Msgs
    BY <1>1, <1>4, ElementOfSeq
  <2>2. Len(Waiting) = Len(received) - (Len(delivered) + 1) + 1
    BY <1>3, <1>4, <2>1, SubSeqProperties DEF Waiting
  <2>3. QED
    BY <1>3, <1>4, <2>2
<1>7. Waiting' = Tail(Waiting)
  <2>1. Len(delivered') = Len(delivered) + 1
    BY <1>1, <1>2, HeadTailProperties, AppendProperties
  <2>2. QED
    BY <1>2, <1>5, <2>1 DEF Waiting
<1>8. Chan!Take
  BY <1>2, <1>5, <1>6, <1>7 DEF Chan!Take
<1>9. QED
  BY <1>8 DEF Chan!Next

\* The receiver implements the safety part of the channel: what recvfrom
\* returned is handed to rxReadyAction once and in order until shutdown.
THEOREM ReceiverImplementsChannel == SafeSpec => Chan!SafeSpec
<1>1. Init => Chan!Init
  <2> SUFFICES ASSUME Init PROVE Chan!Init
    OBVIOUS
  <2>1. received = <<>> /\ delivered = <<>> /\ Operating = TRUE
    BY DEF Init
  <2>2. Len(received) = 0 /\ Len(delivered) = 0
    BY <2>1
  <2>3. Waiting = <<>>
    BY <2>1, <2>2, SubSeqEmpty DEF Waiting
  <2>4. QED
    BY <2>1, <2>3 DEF Chan!Init
<1>2. IInv /\ [Next]_vars => [Chan!Next]_(Chan!chanVars)
  <2> SUFFICES ASSUME IInv, [Next]_vars PROVE [Chan!Next]_(Chan!chanVars)
    OBVIOUS
  <2>1. CASE RxReceive
    BY <2>1, ReceiveIsPut
  <2>2. CASE Dequeue /\ Head(queue) # Empty
    BY <2>2, DequeueIsTake
  <2>3. CASE UNCHANGED <<received, delivered>> /\ (Operating' => Operating)
    <3>1. Waiting' = Waiting
      BY <2>3 DEF Waiting
    <3>2. CASE Operating' <=> Operating
      BY <2>3, <3>1, <3>2 DEF Chan!chanVars
    <3>3. CASE Operating /\ ~Operating'
      BY <2>3, <3>1, <3>3 DEF Chan!Next, Chan!Close
    <3>4. QED
      BY <2>3, <3>2, <3>3
  <2>4. CASE (\E m \in Msgs : NetSend(m)) \/ Clock \/ UNCHANGED vars
    BY <2>3, <2>4 DEF NetSend, Clock, MainTimerExpires, RxTimerExpires, vars, rxVars
  <2>5. CASE (RxStep /\ ~RxReceive) \/ RxStall
    <3>1. CASE RxBoot \/ RxEnqueue \/ RxNotify \/ RxTick \/ RxControl
      BY <2>3, <3>1 DEF RxBoot, RxEnqueue, RxNotify, RxTick, RxControl, rxVars
    <3>2. CASE RxGasp \/ RxExit \/ RxUseAfterFree \/ RxStall
      BY <2>3, <3>2 DEF RxGasp, RxExit, RxUseAfterFree, RxStall
    <3>3. QED
      BY <2>5, <3>1, <3>2 DEF RxStep
  <2>6. CASE Dequeue /\ Head(queue) = Empty
    BY <2>3, <2>6 DEF Dequeue, rxVars
  <2>7. CASE (MainStep \/ Signal) /\ ~Dequeue
    <3>1. CASE CreateThread \/ SetMagic \/ ReadReady \/ DrainDone \/ MainTick
      BY <2>3, <3>1 DEF CreateThread, SetMagic, ReadReady, DrainDone, MainTick,
                        rxVars
    <3>2. CASE FatalExit \/ SetControl \/ WriteControl \/ GaspLoop \/ Signal
      BY <2>3, <3>2 DEF FatalExit, SetControl, WriteControl, GaspLoop, Signal,
                        rxVars
    <3>3. CASE GaspRead \/ GaspMiss \/ Relock \/ Destroy \/ ExitProcess
      BY <2>3, <3>3 DEF GaspRead, GaspMiss, Relock, Destroy, ExitProcess, rxVars
    <3>4. QED
      BY <2>7, <3>1, <3>2, <3>3 DEF MainStep
  <2>8. QED
    BY <2>1, <2>2, <2>4, <2>5, <2>6, <2>7 DEF Next, MainStep
<1>3. QED
  BY <1>1, <1>2, Invariance, PTL DEF SafeSpec, Chan!SafeSpec

============================================================================
