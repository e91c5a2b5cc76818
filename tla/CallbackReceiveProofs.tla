------------------------ MODULE CallbackReceiveProofs ------------------------
(***************************************************************************)
(* Proofs about CallbackReceive, for any number of client threads.         *)
(***************************************************************************)
EXTENDS CallbackReceive, TLAPS

(* The loop is the only one to count itself into activeCallbacks. *)
Counted == {"recheck", "onRecv", "doneRecheck", "onDone", "doneLeave"}
ActiveCount == activeCallbacks = IF loop \in Counted THEN 1 ELSE 0

(* What a caller has stored by the time it is where it is. *)
Marked == CallStates \ {"idle", "mark", "stale"}
CallerOK(c) ==
  /\ call[c] \in {"markStarted", "markDone", "markSignal"} => op[c] = "close"
  /\ call[c] \in {"waitDone", "waitBlocked"} => op[c] # "close"
  /\ call[c] \in Marked => canceled
  /\ op[c] = "close" /\ call[c] \in Marked \ {"markStarted", "markDone"} => done
CallerInv == \A c \in Callers : CallerOK(c)

(* onDone is the last callback. *)
AfterDone == {"onDone", "doneLeave", "doneSignal", "exited"}
DoneLast == doneResult # "none" => loop \in AfterDone

IInv ==
  /\ TypeOK
  /\ ActiveCount
  /\ CallerInv
  /\ DoneLast
  /\ CloseSilences
  /\ CancelStopsRecv

-----------------------------------------------------------------------------
LEMMA TypeInit == Init => TypeOK /\ ActiveCount
<1> SUFFICES ASSUME Init PROVE TypeOK /\ ActiveCount
    OBVIOUS
<1>1. call \in [Callers -> CallStates]
  BY DEF Init, CallStates
<1>2. op \in [Callers -> {"none", "cancel", "finish", "close"}]
  BY DEF Init
<1>3. loop \in LoopStates /\ ActiveCount
  BY DEF Init, LoopStates, ActiveCount, Counted
<1>4. QED BY <1>1, <1>2, <1>3 DEF Init, TypeOK

LEMMA TypeStep == TypeOK /\ ActiveCount /\ [Next]_vars => TypeOK' /\ ActiveCount'
<1> SUFFICES ASSUME TypeOK, ActiveCount, [Next]_vars
             PROVE  TypeOK' /\ ActiveCount'
    OBVIOUS
<1> USE DEF TypeOK, ActiveCount, Counted, LoopStates, CallStates,
            sessionVars, sourceVars, loopVars, callVars
<1>1. CASE HandlerBeginSend \/ HandlerSend
  BY <1>1 DEF HandlerBeginSend, HandlerSend
<1>2. CASE HandlerSendFails \/ HandlerReturn
  BY <1>2 DEF HandlerSendFails, HandlerReturn
<1>3. CASE LoopStep
  <2>1. CASE RecvResponse
    BY <2>1 DEF RecvResponse
  <2>2. CASE RecvEnd
    BY <2>2 DEF RecvEnd, HandlerReturned
  <2>3. CASE RecvCanceled
    BY <2>3 DEF RecvCanceled
  <2>4. CASE EncodeFailed
    BY <2>4 DEF EncodeFailed
  <2>5. CASE BeginCallback
    BY <2>5 DEF BeginCallback
  <2>6. CASE EnterCallback
    BY <2>6 DEF EnterCallback, Enter
  <2>7. CASE CallOnRecv
    BY <2>7 DEF CallOnRecv
  <2>8. CASE AbandonRecv
    BY <2>8 DEF AbandonRecv, Leave
  <2>9. CASE SignalRejected
    BY <2>9 DEF SignalRejected, Signal
  <2>10. CASE Reject
    BY <2>10 DEF Reject
  <2>11. CASE EndCallback
    BY <2>11 DEF EndCallback, Leave
  <2>12. CASE SignalEnded
    BY <2>12 DEF SignalEnded, Signal
  <2>13. CASE BeginDoneCallback
    BY <2>13 DEF BeginDoneCallback
  <2>14. CASE ClaimDone
    BY <2>14 DEF ClaimDone
  <2>15. CASE EnterDone
    BY <2>15 DEF EnterDone, Enter
  <2>16. CASE CallOnDone
    BY <2>16 DEF CallOnDone
  <2>17. CASE AbandonDone
    BY <2>17 DEF AbandonDone, Leave
  <2>18. CASE SignalDoneAborted
    BY <2>18 DEF SignalDoneAborted, Signal
  <2>19. CASE EndDoneCallback
    BY <2>19 DEF EndDoneCallback
  <2>20. CASE LeaveDone
    BY <2>20 DEF LeaveDone, Leave
  <2>21. CASE SignalDone
    BY <2>21 DEF SignalDone, Signal
  <2>22. QED BY <1>3, <2>1, <2>2, <2>3, <2>4, <2>5, <2>6, <2>7, <2>8, <2>9, <2>10, <2>11,
               <2>12, <2>13, <2>14, <2>15, <2>16, <2>17, <2>18, <2>19, <2>20, <2>21 DEF LoopStep
<1>4. ASSUME NEW c \in Callers, Call(c) PROVE TypeOK' /\ ActiveCount'
  BY <1>4, CallbackAssumption DEF Call, Goto
<1>5. ASSUME NEW c \in Callers, CallStep(c) PROVE TypeOK' /\ ActiveCount'
  <2>1. CASE MarkCanceled(c)
    BY <2>1 DEF MarkCanceled, Goto
  <2>2. CASE MarkDoneStarted(c)
    BY <2>2 DEF MarkDoneStarted, Goto
  <2>3. CASE MarkDone(c)
    BY <2>3 DEF MarkDone, Goto
  <2>4. CASE SignalMarked(c)
    BY <2>4 DEF SignalMarked, Goto
  <2>5. CASE Drain(c)
    BY <2>5 DEF Drain, Goto
  <2>6. CASE DrainWake(c)
    BY <2>6 DEF DrainWake, Goto, Await
  <2>7. CASE FacadeLoad(c)
    BY <2>7 DEF FacadeLoad, Goto, AfterFacade
  <2>8. CASE SourceRequest(c)
    <3>1. call' \in [Callers -> CallStates]
      BY <2>8 DEF SourceRequest, Goto, AfterFacade
    <3>2. registered' \in BOOLEAN /\ sourceCanceled' \in BOOLEAN /\ finishRequested' \in BOOLEAN
      BY <2>8 DEF SourceRequest
    <3>3. QED BY <2>8, <3>1, <3>2 DEF SourceRequest
  <2>9. CASE SourceReturn(c)
    BY <2>9 DEF SourceReturn, Goto
  <2>10. CASE FinishCanceled(c)
    BY <2>10 DEF FinishCanceled, Goto, AfterFacade
  <2>11. CASE Remove(c)
    <3>1. call' \in [Callers -> CallStates]
      BY <2>11 DEF Remove, Goto, AfterFacade
    <3>2. registered' \in BOOLEAN /\ sourceCanceled' \in BOOLEAN /\ finishRequested' \in BOOLEAN
      BY <2>11 DEF Remove
    <3>3. QED BY <2>11, <3>1, <3>2 DEF Remove
  <2>12. CASE WaitDone(c)
    BY <2>12 DEF WaitDone, Goto
  <2>13. CASE WaitWake(c)
    BY <2>13 DEF WaitWake, Goto, Await
  <2>14. QED BY <1>5, <2>1, <2>2, <2>3, <2>4, <2>5, <2>6, <2>7, <2>8, <2>9, <2>10, <2>11, <2>12, <2>13 DEF CallStep
<1>6. CASE UNCHANGED vars
  BY <1>6 DEF vars
<1>7. QED BY <1>1, <1>2, <1>3, <1>4, <1>5, <1>6 DEF Next, HandlerStep

(* Every variable keeps its type; in particular activeCallbacks.Add(-1)    *)
(* never takes the counter below zero.                                     *)
THEOREM TypeCorrect == Spec => []TypeOK
<1>1. Spec => [](TypeOK /\ ActiveCount)
  BY TypeInit, TypeStep, PTL DEF Spec
<1>2. QED BY <1>1, PTL


-----------------------------------------------------------------------------
(* What a step of the loop may do to the state the callers depend on. *)
LoopEffect ==
  /\ UNCHANGED <<callVars, canceled>>
  /\ done => done'
  /\ loop' = "onRecv" => loop = "recheck" /\ ~canceled
  /\ loop' = "onDone" => loop = "doneRecheck" /\ ~done
  /\ loop \in AfterDone => loop' \in AfterDone
  /\ doneResult' # doneResult => loop' = "onDone"
  /\ loop' = "onDone" => doneResult' = doneID

LEMMA LoopStepEffect == ASSUME LoopStep PROVE LoopEffect
<1> USE DEF LoopEffect, AfterDone, sessionVars, loopVars, callVars
<1>1. CASE RecvResponse
  BY <1>1 DEF RecvResponse
<1>2. CASE RecvEnd
  BY <1>2 DEF RecvEnd, HandlerReturned
<1>3. CASE RecvCanceled
  BY <1>3 DEF RecvCanceled
<1>4. CASE EncodeFailed
  BY <1>4 DEF EncodeFailed
<1>5. CASE BeginCallback
  BY <1>5 DEF BeginCallback
<1>6. CASE EnterCallback
  BY <1>6 DEF EnterCallback, Enter
<1>7. CASE CallOnRecv
  BY <1>7 DEF CallOnRecv, Refused
<1>8. CASE AbandonRecv
  BY <1>8 DEF AbandonRecv, Leave
<1>9. CASE SignalRejected
  BY <1>9 DEF SignalRejected, Signal
<1>10. CASE Reject
  BY <1>10 DEF Reject
<1>11. CASE EndCallback
  BY <1>11 DEF EndCallback, Leave
<1>12. CASE SignalEnded
  BY <1>12 DEF SignalEnded, Signal
<1>13. CASE BeginDoneCallback
  BY <1>13 DEF BeginDoneCallback
<1>14. CASE ClaimDone
  BY <1>14 DEF ClaimDone
<1>15. CASE EnterDone
  BY <1>15 DEF EnterDone, Enter
<1>16. CASE CallOnDone
  BY <1>16 DEF CallOnDone
<1>17. CASE AbandonDone
  BY <1>17 DEF AbandonDone, Leave
<1>18. CASE SignalDoneAborted
  BY <1>18 DEF SignalDoneAborted, Signal
<1>19. CASE EndDoneCallback
  BY <1>19 DEF EndDoneCallback
<1>20. CASE LeaveDone
  BY <1>20 DEF LeaveDone, Leave
<1>21. CASE SignalDone
  BY <1>21 DEF SignalDone, Signal
<1>22. QED BY <1>1, <1>2, <1>3, <1>4, <1>5, <1>6, <1>7, <1>8, <1>9, <1>10, <1>11,
            <1>12, <1>13, <1>14, <1>15, <1>16, <1>17, <1>18, <1>19, <1>20, <1>21 DEF LoopStep

(* What a step of one caller may do: it moves that caller only, and gets   *)
(* past the drain only when no callback is counted.                        *)
CallEffect(c) ==
  /\ UNCHANGED loopVars
  /\ canceled => canceled'
  /\ done => done'
  /\ \A d \in Callers \ {c} : call'[d] = call[d] /\ op'[d] = op[d]
  /\ call'[c] \in Drained /\ call[c] \notin Drained => activeCallbacks = 0
  /\ call[c] \in Drained => call'[c] \in Drained
  /\ call'[c] \in Drained => op'[c] = op[c]

LEMMA CallStepEffect ==
  ASSUME TypeOK, NEW c \in Callers, CallStep(c), CallerOK(c)
  PROVE  CallEffect(c) /\ CallerOK(c)'
<1> USE DEF TypeOK, CallEffect, CallerOK, Marked, Drained, CallStates, Goto,
            sessionVars, callVars
<1>1. CASE MarkCanceled(c)
  BY <1>1 DEF MarkCanceled
<1>2. CASE MarkDoneStarted(c)
  BY <1>2 DEF MarkDoneStarted
<1>3. CASE MarkDone(c)
  BY <1>3 DEF MarkDone
<1>4. CASE SignalMarked(c)
  BY <1>4 DEF SignalMarked
<1>5. CASE Drain(c)
  BY <1>5 DEF Drain
<1>6. CASE DrainWake(c)
  BY <1>6 DEF DrainWake, Await
<1>7. CASE FacadeLoad(c)
  BY <1>7 DEF FacadeLoad, AfterFacade
<1>8. CASE SourceRequest(c)
  BY <1>8 DEF SourceRequest
<1>9. CASE SourceReturn(c)
  BY <1>9 DEF SourceReturn
<1>10. CASE FinishCanceled(c)
  BY <1>10 DEF FinishCanceled, AfterFacade
<1>11. CASE Remove(c)
  BY <1>11 DEF Remove, AfterFacade
<1>12. CASE WaitDone(c)
  BY <1>12 DEF WaitDone
<1>13. CASE WaitWake(c)
  BY <1>13 DEF WaitWake, Await
<1>14. QED BY <1>1, <1>2, <1>3, <1>4, <1>5, <1>6, <1>7, <1>8, <1>9, <1>10, <1>11, <1>12, <1>13 DEF CallStep

LEMMA CallEntryEffect ==
  ASSUME TypeOK, NEW c \in Callers, Call(c)
  PROVE  CallEffect(c) /\ CallerOK(c)' /\ UNCHANGED sessionVars
<1>1. call'[c] \in {"mark", "stale"} /\ call[c] = "idle"
  BY DEF Call, Goto, TypeOK
<1>2. QED BY <1>1 DEF Call, Goto, CallEffect, CallerOK, Marked, Drained, TypeOK, sessionVars

-----------------------------------------------------------------------------
LEMMA InitIInv == Init => IInv
<1> SUFFICES ASSUME Init PROVE IInv
    OBVIOUS
<1>1. TypeOK /\ ActiveCount
  BY TypeInit
<1>2. \A c \in Callers : call[c] = "idle" /\ op[c] = "none"
  BY DEF Init
<1>3. CallerInv /\ CloseSilences /\ CancelStopsRecv
  BY <1>2 DEF CallerInv, CallerOK, Marked, CallStates, CloseSilences, Closed,
              CancelStopsRecv, Stopped, Drained
<1>4. DoneLast
  BY DEF Init, DoneLast
<1>5. QED BY <1>1, <1>3, <1>4 DEF IInv

(* The promises are kept by a loop step, because whoever is past its drain *)
(* has set the flags that BeginCallback and BeginDoneCallback look at.     *)
LEMMA LoopKeeps ==
  ASSUME IInv, LoopStep
  PROVE  CallerInv' /\ DoneLast' /\ CloseSilences' /\ CancelStopsRecv'
<1>1. LoopEffect
  BY LoopStepEffect
<1>2. CallerInv'
  BY <1>1 DEF IInv, CallerInv, CallerOK, LoopEffect, callVars
<1>3. DoneLast'
  BY <1>1 DEF IInv, DoneLast, LoopEffect, AfterDone
<1>4. CloseSilences'
  <2> SUFFICES ASSUME Closed' PROVE loop' \notin {"onRecv", "onDone"}
    BY DEF CloseSilences
  <2>1. Closed
    BY <1>1 DEF Closed, LoopEffect, callVars
  <2>2. canceled /\ done
    BY <2>1 DEF Closed, IInv, CallerInv, CallerOK, Marked, Drained, CallStates
  <2>3. QED BY <1>1, <2>2 DEF LoopEffect
<1>5. CancelStopsRecv'
  <2> SUFFICES ASSUME Stopped' PROVE loop' # "onRecv"
    BY DEF CancelStopsRecv
  <2>1. Stopped
    BY <1>1 DEF Stopped, LoopEffect, callVars
  <2>2. canceled
    BY <2>1 DEF Stopped, IInv, CallerInv, CallerOK, Marked, Drained, CallStates
  <2>3. QED BY <1>1, <2>2 DEF LoopEffect
<1>6. QED BY <1>2, <1>3, <1>4, <1>5

(* They are kept by a caller's step, because a caller gets past its drain  *)
(* only when the loop is not inside a callback.                            *)
LEMMA CallerKeeps ==
  ASSUME IInv, NEW c \in Callers, CallEffect(c), CallerOK(c)'
  PROVE  CallerInv' /\ DoneLast' /\ CloseSilences' /\ CancelStopsRecv'
<1>1. CallerInv'
  <2> SUFFICES ASSUME NEW d \in Callers, d # c PROVE CallerOK(d)'
    BY DEF CallerInv
  <2>1. CallerOK(d)
    BY DEF IInv, CallerInv
  <2>2. QED BY <2>1 DEF CallEffect, CallerOK
<1>2. DoneLast'
  BY DEF IInv, DoneLast, CallEffect, loopVars
<1>3. activeCallbacks = 0 => loop \notin {"onRecv", "onDone"}
  BY DEF IInv, ActiveCount, Counted
<1>4. loop' = loop
  BY DEF CallEffect, loopVars
<1>5. CloseSilences'
  <2> SUFFICES ASSUME Closed' PROVE loop' \notin {"onRecv", "onDone"}
    BY DEF CloseSilences
  <2>1. CASE Closed
    BY <2>1, <1>4 DEF IInv, CloseSilences
  <2>2. CASE ~Closed
    <3>1. call'[c] \in Drained /\ call[c] \notin Drained
      BY <2>2 DEF Closed, CallEffect
    <3>2. QED BY <3>1, <1>3, <1>4 DEF CallEffect
  <2>3. QED BY <2>1, <2>2
<1>6. CancelStopsRecv'
  <2> SUFFICES ASSUME Stopped' PROVE loop' # "onRecv"
    BY DEF CancelStopsRecv
  <2>1. CASE Stopped
    BY <2>1, <1>4 DEF IInv, CancelStopsRecv
  <2>2. CASE ~Stopped
    <3>1. call'[c] \in Drained /\ call[c] \notin Drained
      BY <2>2 DEF Stopped, CallEffect
    <3>2. QED BY <3>1, <1>3, <1>4 DEF CallEffect
  <2>3. QED BY <2>1, <2>2
<1>7. QED BY <1>1, <1>2, <1>5, <1>6

LEMMA StepIInv == IInv /\ [Next]_vars => IInv'
<1> SUFFICES ASSUME IInv, [Next]_vars PROVE IInv'
    OBVIOUS
<1>1. TypeOK' /\ ActiveCount'
  BY TypeStep DEF IInv
<1>2. CASE HandlerStep \/ UNCHANGED vars
  <2>1. UNCHANGED <<sessionVars, loopVars, callVars>>
    BY <1>2 DEF HandlerStep, HandlerBeginSend, HandlerSend, HandlerSendFails, HandlerReturn, vars, sessionVars, loopVars, callVars
  <2>2. QED BY <2>1, <1>1 DEF IInv, CallerInv, CallerOK, DoneLast, CloseSilences,
       CancelStopsRecv, Closed, Stopped, sessionVars, loopVars, callVars
<1>3. CASE LoopStep
  BY <1>1, <1>3, LoopKeeps DEF IInv
<1>4. ASSUME NEW c \in Callers, Call(c) \/ CallStep(c) PROVE IInv'
  <2>1. CallerOK(c)
    BY DEF IInv, CallerInv
  <2>2. CallEffect(c) /\ CallerOK(c)'
    BY <1>4, <2>1, CallStepEffect, CallEntryEffect DEF IInv
  <2>3. QED BY <2>2, <1>1, CallerKeeps DEF IInv
<1>5. QED BY <1>2, <1>3, <1>4 DEF Next

THEOREM InvariantHolds == Spec => []IInv
BY InitIInv, StepIInv, PTL DEF Spec

(* After any Close got past its drain no callback runs, whatever the other *)
(* callers do.                                                             *)
THEOREM CloseSilencesHolds == Spec => []CloseSilences
<1>1. IInv => CloseSilences
  BY DEF IInv
<1>2. QED BY <1>1, InvariantHolds, PTL

(* After any Cancel or Finish got past its drain onRecv is over. *)
THEOREM CancelStopsRecvHolds == Spec => []CancelStopsRecv
<1>1. IInv => CancelStopsRecv
  BY DEF IInv
<1>2. QED BY <1>1, InvariantHolds, PTL

-----------------------------------------------------------------------------
(***************************************************************************)
(* The detailed protocol implements CallbackDelivery.                      *)
(***************************************************************************)
LEMMA DeliveryInit == Init => Delivery!Init
<1> SUFFICES ASSUME Init PROVE Delivery!Init
    OBVIOUS
<1>1. Stopped = FALSE /\ Closed = FALSE
  BY DEF Init, Stopped, Closed, Drained
<1>2. Running = "none" /\ DoneCalled = FALSE
  BY DEF Init, Running, DoneCalled
<1>3. QED BY <1>1, <1>2 DEF Delivery!Init

(* A loop step starts a callback nobody has ruled out, returns from one,   *)
(* or is invisible.                                                        *)
LEMMA DeliveryLoopStep ==
  ASSUME IInv, LoopStep
  PROVE  [Delivery!Next]_(Delivery!vars)
<1>1. LoopEffect
  BY LoopStepEffect
<1>2. Stopped' = Stopped /\ Closed' = Closed
  BY <1>1 DEF LoopEffect, callVars, Stopped, Closed
<1>3. (Stopped => canceled) /\ (Closed => canceled /\ done)
  BY DEF Stopped, Closed, IInv, CallerInv, CallerOK, Marked, Drained, CallStates
<1>4. CASE loop' = "onRecv"
  <2>1. loop = "recheck" /\ ~canceled /\ doneResult = "none" /\ doneResult' = doneResult
    BY <1>1, <1>4 DEF LoopEffect, IInv, DoneLast, AfterDone
  <2>2. Running = "none" /\ Running' = "onRecv" /\ ~DoneCalled /\ DoneCalled' = DoneCalled
    BY <1>4, <2>1 DEF Running, DoneCalled
  <2>3. QED BY <1>2, <1>3, <2>1, <2>2 DEF Delivery!CallOnRecv, Delivery!Next
<1>5. CASE loop' = "onDone"
  <2>1. loop = "doneRecheck" /\ ~done /\ doneResult = "none"
    BY <1>1, <1>5 DEF LoopEffect, IInv, DoneLast, AfterDone
  <2>2. doneResult' # "none"
    BY <1>1, <1>5 DEF LoopEffect, IInv, TypeOK
  <2>3. Running = "none" /\ Running' = "onDone" /\ ~DoneCalled /\ DoneCalled' = TRUE
    BY <1>5, <2>1, <2>2 DEF Running, DoneCalled
  <2>4. QED BY <1>2, <1>3, <2>1, <2>3 DEF Delivery!CallOnDone, Delivery!Next
<1>6. CASE loop' \notin {"onRecv", "onDone"}
  <2>1. Running' = "none" /\ DoneCalled' = DoneCalled
    BY <1>1, <1>6 DEF LoopEffect, Running, DoneCalled
  <2>2. CASE Running # "none"
    BY <1>2, <2>1, <2>2 DEF Delivery!Return, Delivery!Next
  <2>3. CASE Running = "none"
    BY <1>2, <2>1, <2>3 DEF Delivery!vars
  <2>4. QED BY <2>2, <2>3
<1>7. QED BY <1>4, <1>5, <1>6

(* A caller's step gives a promise, or is invisible. *)
LEMMA DeliveryCallerStep ==
  ASSUME IInv, IInv', NEW c \in Callers, CallEffect(c)
  PROVE  [Delivery!Next]_(Delivery!vars)
<1>1. Running' = Running /\ DoneCalled' = DoneCalled
  BY DEF CallEffect, loopVars, Running, DoneCalled
<1>2. (Stopped => Stopped') /\ (Closed => Closed')
  BY DEF CallEffect, Stopped, Closed
<1>3. ~Stopped /\ Stopped' => op[c] \in {"cancel", "finish"} /\ call'[c] \in Drained
  BY DEF CallEffect, Stopped
<1>4. ~Closed /\ Closed' => op[c] = "close" /\ call'[c] \in Drained
  BY DEF CallEffect, Closed
<1>5. Stopped \in BOOLEAN /\ Stopped' \in BOOLEAN /\ Closed \in BOOLEAN /\ Closed' \in BOOLEAN
  BY DEF Stopped, Closed
<1>6. (Stopped' => Running # "onRecv") /\ (Closed' => Running = "none")
  BY DEF IInv, CancelStopsRecv, CloseSilences, Running, CallEffect, loopVars
<1>7. CASE ~Stopped /\ Stopped'
  <2>1. Closed' = Closed /\ Stopped' = TRUE
    BY <1>2, <1>3, <1>4, <1>5, <1>7
  <2>2. QED BY <1>1, <1>6, <1>7, <2>1 DEF Delivery!Stop, Delivery!Next
<1>8. CASE ~Closed /\ Closed'
  <2>1. Stopped' = Stopped /\ Closed' = TRUE
    BY <1>2, <1>3, <1>4, <1>5, <1>8
  <2>2. QED BY <1>1, <1>6, <1>8, <2>1 DEF Delivery!Close, Delivery!Next
<1>9. CASE (Stopped' => Stopped) /\ (Closed' => Closed)
  <2>1. Stopped' = Stopped /\ Closed' = Closed
    BY <1>2, <1>5, <1>9
  <2>2. QED BY <1>1, <2>1 DEF Delivery!vars
<1>10. QED BY <1>7, <1>8, <1>9

LEMMA DeliveryStep == IInv /\ IInv' /\ [Next]_vars => [Delivery!Next]_(Delivery!vars)
<1> SUFFICES ASSUME IInv, IInv', [Next]_vars PROVE [Delivery!Next]_(Delivery!vars)
    OBVIOUS
<1>1. CASE HandlerStep \/ UNCHANGED vars
  <2>1. UNCHANGED <<sessionVars, loopVars, callVars>>
    BY <1>1 DEF HandlerStep, HandlerBeginSend, HandlerSend, HandlerSendFails, HandlerReturn,
                vars, sessionVars, loopVars, callVars
  <2>2. QED BY <2>1 DEF Delivery!vars, Running, DoneCalled, Stopped, Closed, loopVars, callVars
<1>2. CASE LoopStep
  BY <1>2, DeliveryLoopStep
<1>3. ASSUME NEW c \in Callers, Call(c) \/ CallStep(c) PROVE [Delivery!Next]_(Delivery!vars)
  <2>1. CallEffect(c)
    BY <1>3, CallStepEffect, CallEntryEffect DEF IInv, CallerInv
  <2>2. QED BY <2>1, DeliveryCallerStep
<1>4. QED BY <1>1, <1>2, <1>3 DEF Next

(* The atomics of StreamSession and the receive loop implement the promise *)
(* made to the owner of the callbacks, for any number of client threads.   *)
THEOREM DeliveryRefinement == Spec => DeliverySpec
<1>1. Spec => Delivery!Init /\ [][Delivery!Next]_(Delivery!vars)
  BY InvariantHolds, DeliveryInit, DeliveryStep, PTL DEF Spec
<1>2. QED BY <1>1 DEF DeliverySpec, Delivery!Spec

-----------------------------------------------------------------------------
(***************************************************************************)
(* The ledger of the responses.                                            *)
(***************************************************************************)
Late == {"beginDone", "doneCAS", "doneEnter", "doneRecheck", "doneAbortSignal"} \cup AfterDone
Held == IF loop \in {"begin", "enter", "recheck", "rejectSignal", "reject"} THEN 1 ELSE 0

Ledger ==
  /\ received = delivered + released + Held
  /\ received <= sent
  /\ loop \notin Late => released = 0
  /\ sourceCanceled => canceled
  /\ doneResult # "none" => loop \in AfterDone /\ doneResult = doneID
  /\ loop \in Late /\ doneID = "ok" /\ ~canceled => HandlerReturned /\ sent = received /\ released = 0

LEMMA LedgerInit == Init => Ledger
BY DEF Init, Ledger, Held, Late, AfterDone

LEMMA LedgerHandler == ASSUME TypeOK, Ledger, HandlerStep PROVE Ledger'
<1> USE DEF TypeOK, Ledger, Held, HandlerReturned, pending, sessionVars, loopVars, callVars
<1>1. CASE HandlerBeginSend
  BY <1>1 DEF HandlerBeginSend
<1>2. CASE HandlerSend
  BY <1>2 DEF HandlerSend
<1>3. CASE HandlerSendFails
  BY <1>3 DEF HandlerSendFails
<1>4. CASE HandlerReturn
  BY <1>4 DEF HandlerReturn
<1>5. QED BY <1>1, <1>2, <1>3, <1>4 DEF HandlerStep

LEMMA LedgerLoop == ASSUME TypeOK, Ledger, LoopStep PROVE Ledger'
<1> USE DEF TypeOK, Ledger, Held, Late, AfterDone, HandlerReturned, pending, Refused,
            sessionVars, sourceVars, loopVars, callVars
<1>1. CASE RecvResponse
  BY <1>1 DEF RecvResponse
<1>2. CASE RecvEnd
  BY <1>2 DEF RecvEnd
<1>3. CASE RecvCanceled
  BY <1>3 DEF RecvCanceled
<1>4. CASE EncodeFailed
  BY <1>4 DEF EncodeFailed
<1>5. CASE BeginCallback
  BY <1>5 DEF BeginCallback
<1>6. CASE EnterCallback
  BY <1>6 DEF EnterCallback, Enter
<1>7. CASE CallOnRecv
  BY <1>7 DEF CallOnRecv
<1>8. CASE AbandonRecv
  BY <1>8 DEF AbandonRecv, Leave
<1>9. CASE SignalRejected
  BY <1>9 DEF SignalRejected, Signal
<1>10. CASE Reject
  BY <1>10 DEF Reject
<1>11. CASE EndCallback
  BY <1>11 DEF EndCallback, Leave
<1>12. CASE SignalEnded
  BY <1>12 DEF SignalEnded, Signal
<1>13. CASE BeginDoneCallback
  BY <1>13 DEF BeginDoneCallback
<1>14. CASE ClaimDone
  BY <1>14 DEF ClaimDone
<1>15. CASE EnterDone
  BY <1>15 DEF EnterDone, Enter
<1>16. CASE CallOnDone
  BY <1>16 DEF CallOnDone
<1>17. CASE AbandonDone
  BY <1>17 DEF AbandonDone, Leave
<1>18. CASE SignalDoneAborted
  BY <1>18 DEF SignalDoneAborted, Signal
<1>19. CASE EndDoneCallback
  BY <1>19 DEF EndDoneCallback
<1>20. CASE LeaveDone
  BY <1>20 DEF LeaveDone, Leave
<1>21. CASE SignalDone
  BY <1>21 DEF SignalDone, Signal
<1>22. QED BY <1>1, <1>2, <1>3, <1>4, <1>5, <1>6, <1>7, <1>8, <1>9, <1>10, <1>11,
            <1>12, <1>13, <1>14, <1>15, <1>16, <1>17, <1>18, <1>19, <1>20, <1>21 DEF LoopStep

(* A caller cancels the source only after it marked the session canceled. *)
LEMMA LedgerCaller ==
  ASSUME TypeOK, Ledger, NEW c \in Callers, CallerOK(c), Call(c) \/ CallStep(c)
  PROVE  Ledger'
<1>1. UNCHANGED <<loopVars, sent, handler>>
  BY DEF Call, CallStep, MarkCanceled, MarkDoneStarted, MarkDone, SignalMarked, Drain, DrainWake,
         Await, FacadeLoad, SourceRequest, SourceReturn, FinishCanceled, Remove, WaitDone,
         WaitWake, sourceVars
<1>2. (canceled => canceled') /\ (sourceCanceled' => sourceCanceled \/ canceled')
  BY DEF Call, CallStep, MarkCanceled, MarkDoneStarted, MarkDone, SignalMarked, Drain, DrainWake,
         Await, FacadeLoad, SourceRequest, SourceReturn, FinishCanceled, Remove, WaitDone,
         WaitWake, sourceVars, sessionVars, CallerOK, Marked, CallStates
<1>3. QED BY <1>1, <1>2 DEF Ledger, Held, HandlerReturned, loopVars

LEMMA LedgerStep == TypeOK /\ CallerInv /\ Ledger /\ [Next]_vars => Ledger'
<1> SUFFICES ASSUME TypeOK, CallerInv, Ledger, [Next]_vars PROVE Ledger'
    OBVIOUS
<1>1. CASE UNCHANGED vars
  BY <1>1 DEF Ledger, Held, HandlerReturned, vars, sessionVars, sourceVars, loopVars
<1>2. QED BY <1>1, LedgerHandler, LedgerLoop, LedgerCaller DEF Next, CallerInv

THEOREM LedgerHolds == Spec => []Ledger
<1>1. IInv => TypeOK /\ CallerInv
  BY DEF IInv
<1>2. QED BY <1>1, InvariantHolds, LedgerInit, LedgerStep, PTL DEF Spec

(* onDone never reports success for a stream that lost a response, unless  *)
(* the client itself ended it.                                             *)
THEOREM CleanDoneHolds == Spec => []CleanDone
<1>1. TypeOK /\ Ledger => CleanDone
  BY DEF Ledger, CleanDone, TypeOK, Held, Late, AfterDone
<1>2. QED BY <1>1, TypeCorrect, LedgerHolds, PTL

(* No response stays pinned behind a loop that has delivered onDone or left. *)
THEOREM NoPinnedResponseLeftHolds == Spec => []NoPinnedResponseLeft
<1>1. TypeOK /\ Ledger => NoPinnedResponseLeft
  BY DEF Ledger, NoPinnedResponseLeft, TypeOK, Held, AfterDone
<1>2. QED BY <1>1, TypeCorrect, LedgerHolds, PTL

-----------------------------------------------------------------------------
(***************************************************************************)
(* With one client thread no wakeup is lost.  (With two it is: the channel *)
(* holds one token, and whoever takes it may not be the one it was for.)   *)
(***************************************************************************)
SoleCaller == \A c, d \in Callers : c = d

(* A loop step that makes a waiter's condition true is about to signal,    *)
(* and a pending signal stays pending until it is in the channel.          *)
SignalEffect ==
  /\ UNCHANGED <<op, call>>
  /\ SignalPending => SignalPending'
  /\ activeCallbacks # 0 /\ activeCallbacks' = 0 => SignalPending'
  /\ ~done /\ done' => loop' = "doneLeave"
  /\ loop = "doneLeave" => loop' = "doneSignal"

LEMMA LoopSignals == ASSUME TypeOK, ActiveCount, LoopStep PROVE SignalEffect
<1> USE DEF SignalEffect, SignalPending, TypeOK, ActiveCount, Counted, sessionVars, callVars
<1>1. CASE RecvResponse
  BY <1>1 DEF RecvResponse
<1>2. CASE RecvEnd
  BY <1>2 DEF RecvEnd
<1>3. CASE RecvCanceled
  BY <1>3 DEF RecvCanceled
<1>4. CASE EncodeFailed
  BY <1>4 DEF EncodeFailed
<1>5. CASE BeginCallback
  BY <1>5 DEF BeginCallback
<1>6. CASE EnterCallback
  BY <1>6 DEF EnterCallback, Enter
<1>7. CASE CallOnRecv
  BY <1>7 DEF CallOnRecv
<1>8. CASE AbandonRecv
  BY <1>8 DEF AbandonRecv, Leave
<1>9. CASE SignalRejected
  BY <1>9 DEF SignalRejected, Signal
<1>10. CASE Reject
  BY <1>10 DEF Reject
<1>11. CASE EndCallback
  BY <1>11 DEF EndCallback, Leave
<1>12. CASE SignalEnded
  BY <1>12 DEF SignalEnded, Signal
<1>13. CASE BeginDoneCallback
  BY <1>13 DEF BeginDoneCallback
<1>14. CASE ClaimDone
  BY <1>14 DEF ClaimDone
<1>15. CASE EnterDone
  BY <1>15 DEF EnterDone, Enter
<1>16. CASE CallOnDone
  BY <1>16 DEF CallOnDone
<1>17. CASE AbandonDone
  BY <1>17 DEF AbandonDone, Leave
<1>18. CASE SignalDoneAborted
  BY <1>18 DEF SignalDoneAborted, Signal
<1>19. CASE EndDoneCallback
  BY <1>19 DEF EndDoneCallback
<1>20. CASE LeaveDone
  BY <1>20 DEF LeaveDone, Leave
<1>21. CASE SignalDone
  BY <1>21 DEF SignalDone, Signal
<1>22. QED BY <1>1, <1>2, <1>3, <1>4, <1>5, <1>6, <1>7, <1>8, <1>9, <1>10, <1>11,
            <1>12, <1>13, <1>14, <1>15, <1>16, <1>17, <1>18, <1>19, <1>20, <1>21 DEF LoopStep

LEMMA NoLostWakeupLoop ==
  ASSUME TypeOK, ActiveCount, NoLostWakeup, LoopStep
  PROVE  NoLostWakeup'
<1>1. SignalEffect
  BY LoopSignals
<1> SUFFICES ASSUME NEW c \in Callers
             PROVE  /\ call'[c] = "drainBlocked" /\ activeCallbacks' = 0 => SignalPending'
                    /\ call'[c] = "waitBlocked" /\ done' => SignalPending' \/ loop' = "doneLeave"
    BY DEF NoLostWakeup
<1>2. SignalPending' \/ loop' = "doneLeave" \/ loop # "doneLeave"
  BY <1>1 DEF SignalEffect, SignalPending
<1>3. QED BY <1>1, <1>2 DEF NoLostWakeup, SignalEffect, SignalPending

(* The sole caller blocks only when its condition was false. *)
LEMMA NoLostWakeupCaller ==
  ASSUME SoleCaller, TypeOK, NEW c \in Callers, Call(c) \/ CallStep(c), NoLostWakeup
  PROVE  NoLostWakeup'
<1> USE DEF Goto
<1>1. \A d \in Callers : d = c
  BY DEF SoleCaller
<1>2. loop' = loop /\ activeCallbacks' = activeCallbacks
  BY DEF Call, CallStep, MarkCanceled, MarkDoneStarted, MarkDone, SignalMarked, Drain, DrainWake,
         Await, FacadeLoad, SourceRequest, SourceReturn, FinishCanceled, Remove, WaitDone,
         WaitWake, sessionVars, loopVars
<1>3. call'[c] = "drainBlocked" => call[c] = "drain" /\ activeCallbacks # 0
  BY DEF Call, CallStep, MarkCanceled, MarkDoneStarted, MarkDone, SignalMarked, Drain, DrainWake,
         Await, FacadeLoad, SourceRequest, SourceReturn, FinishCanceled, Remove, WaitDone,
         WaitWake, TypeOK, AfterFacade
<1>4. call'[c] = "waitBlocked" => call[c] = "waitDone" /\ ~done'
  BY DEF Call, CallStep, MarkCanceled, MarkDoneStarted, MarkDone, SignalMarked, Drain, DrainWake,
         Await, FacadeLoad, SourceRequest, SourceReturn, FinishCanceled, Remove, WaitDone,
         WaitWake, TypeOK, AfterFacade, sessionVars
<1>5. QED BY <1>1, <1>2, <1>3, <1>4 DEF NoLostWakeup

LEMMA NoLostWakeupStep ==
  ASSUME SoleCaller
  PROVE  TypeOK /\ ActiveCount /\ NoLostWakeup /\ [Next]_vars => NoLostWakeup'
<1> SUFFICES ASSUME TypeOK, ActiveCount, NoLostWakeup, [Next]_vars PROVE NoLostWakeup'
    OBVIOUS
<1>1. CASE HandlerStep \/ UNCHANGED vars
  <2>1. UNCHANGED <<sessionVars, loopVars, callVars>>
    BY <1>1 DEF HandlerStep, HandlerBeginSend, HandlerSend, HandlerSendFails, HandlerReturn,
                vars, sessionVars, loopVars, callVars
  <2>2. QED BY <2>1 DEF NoLostWakeup, SignalPending, sessionVars, loopVars, callVars
<1>2. CASE LoopStep
  BY <1>2, NoLostWakeupLoop
<1>3. ASSUME NEW c \in Callers, Call(c) \/ CallStep(c) PROVE NoLostWakeup'
  BY <1>3, NoLostWakeupCaller
<1>4. QED BY <1>1, <1>2, <1>3 DEF Next

(* A blocked Cancel, Finish or Close of a sole caller is woken up once     *)
(* what it waits for has come true.                                        *)
THEOREM NoLostWakeupHolds == ASSUME SoleCaller PROVE Spec => []NoLostWakeup
<1>1. Init => NoLostWakeup
  BY DEF Init, NoLostWakeup
<1>2. IInv => TypeOK /\ ActiveCount
  BY DEF IInv
<1>3. TypeOK /\ ActiveCount /\ NoLostWakeup /\ [Next]_vars => NoLostWakeup'
  BY NoLostWakeupStep
<1>4. QED BY <1>1, <1>2, <1>3, InvariantHolds, PTL DEF Spec

-----------------------------------------------------------------------------
(***************************************************************************)
(* A Cancel or Finish returns after onDone did, unless a Close has marked  *)
(* the session done.                                                       *)
(***************************************************************************)
OnDoneOver ==
  /\ loop \in {"onDone", "doneLeave", "doneSignal"} => doneResult # "none"
  /\ done => DoneByClose \/ (loop \in {"doneLeave", "doneSignal", "exited"} /\ doneResult # "none")
  /\ \A c \in Callers : op[c] \in {"cancel", "finish"} /\ call[c] = "returned" => done

LEMMA OnDoneOverLoop == ASSUME TypeOK, OnDoneOver, LoopStep PROVE OnDoneOver'
<1>0. DoneByClose' = DoneByClose
  BY LoopStepEffect DEF LoopEffect, DoneByClose, CloseDraining, Closed, callVars
<1> USE <1>0 DEF TypeOK, OnDoneOver, LoopStates, Refused, sessionVars, callVars
<1>1. CASE RecvResponse
  BY <1>1 DEF RecvResponse
<1>2. CASE RecvEnd
  BY <1>2 DEF RecvEnd
<1>3. CASE RecvCanceled
  BY <1>3 DEF RecvCanceled
<1>4. CASE EncodeFailed
  BY <1>4 DEF EncodeFailed
<1>5. CASE BeginCallback
  BY <1>5 DEF BeginCallback
<1>6. CASE EnterCallback
  BY <1>6 DEF EnterCallback, Enter
<1>7. CASE CallOnRecv
  BY <1>7 DEF CallOnRecv
<1>8. CASE AbandonRecv
  BY <1>8 DEF AbandonRecv, Leave
<1>9. CASE SignalRejected
  BY <1>9 DEF SignalRejected, Signal
<1>10. CASE Reject
  BY <1>10 DEF Reject
<1>11. CASE EndCallback
  BY <1>11 DEF EndCallback, Leave
<1>12. CASE SignalEnded
  BY <1>12 DEF SignalEnded, Signal
<1>13. CASE BeginDoneCallback
  BY <1>13 DEF BeginDoneCallback
<1>14. CASE ClaimDone
  BY <1>14 DEF ClaimDone
<1>15. CASE EnterDone
  BY <1>15 DEF EnterDone, Enter
<1>16. CASE CallOnDone
  BY <1>16 DEF CallOnDone
<1>17. CASE AbandonDone
  BY <1>17 DEF AbandonDone, Leave
<1>18. CASE SignalDoneAborted
  BY <1>18 DEF SignalDoneAborted, Signal
<1>19. CASE EndDoneCallback
  BY <1>19 DEF EndDoneCallback
<1>20. CASE LeaveDone
  BY <1>20 DEF LeaveDone, Leave
<1>21. CASE SignalDone
  BY <1>21 DEF SignalDone, Signal
<1>22. QED BY <1>1, <1>2, <1>3, <1>4, <1>5, <1>6, <1>7, <1>8, <1>9, <1>10, <1>11,
            <1>12, <1>13, <1>14, <1>15, <1>16, <1>17, <1>18, <1>19, <1>20, <1>21 DEF LoopStep

ExportSteps(c) == Call(c) \/ CallStep(c)

LEMMA OnDoneOverCaller ==
  ASSUME TypeOK, OnDoneOver, NEW c \in Callers, CallerOK(c), ExportSteps(c)
  PROVE  OnDoneOver'
<1> USE DEF Goto, ExportSteps
<1>1. loop' = loop /\ doneResult' = doneResult
  BY DEF Call, CallStep, MarkCanceled, MarkDoneStarted, MarkDone, SignalMarked, Drain, DrainWake,
         Await, FacadeLoad, SourceRequest, SourceReturn, FinishCanceled, Remove, WaitDone,
         WaitWake, loopVars
<1>2. done' = done \/ MarkDone(c)
  BY DEF Call, CallStep, MarkCanceled, MarkDoneStarted, SignalMarked, Drain, DrainWake,
         Await, FacadeLoad, SourceRequest, SourceReturn, FinishCanceled, Remove, WaitDone,
         WaitWake, sessionVars
<1>3. \A d \in Callers \ {c} : call'[d] = call[d] /\ op'[d] = op[d]
  BY CallStepEffect, CallEntryEffect DEF CallEffect
<1>4. CASE Call(c)
  <2>1. /\ call[c] = "idle" /\ call'[c] \in {"mark", "stale"} /\ done' = done
    BY <1>4 DEF Call, TypeOK, sessionVars
  <2>2. DoneByClose => DoneByClose'
    BY <1>3, <2>1 DEF DoneByClose, CloseDraining, Closed, Drained
  <2> QED BY <1>1, <1>3, <2>1, <2>2 DEF OnDoneOver
<1>5. CASE CallStep(c)
  <2>1. op' = op
    BY <1>5 DEF CallStep, MarkCanceled, MarkDoneStarted, MarkDone, SignalMarked, Drain, DrainWake,
           Await, FacadeLoad, SourceRequest, SourceReturn, FinishCanceled, Remove, WaitDone,
           WaitWake, callVars
  <2>2. call'[c] = "returned" /\ op[c] \in {"cancel", "finish"} => done
    BY <1>5 DEF CallStep, MarkCanceled, MarkDoneStarted, MarkDone, SignalMarked, Drain, DrainWake,
           Await, FacadeLoad, SourceRequest, SourceReturn, FinishCanceled, Remove, WaitDone,
           WaitWake, OnDoneOver, TypeOK, AfterFacade
  <2>3. DoneByClose => DoneByClose'
    <3>1. call[c] \in Drained => call'[c] \in Drained
      BY <1>5, CallStepEffect DEF CallEffect
    <3>2. call[c] \in {"markSignal", "drain", "drainBlocked"} =>
            call'[c] \in {"drain", "drainBlocked"} \cup Drained
      BY <1>5 DEF CallStep, MarkCanceled, MarkDoneStarted, MarkDone, SignalMarked, Drain,
             DrainWake, Await, FacadeLoad, SourceRequest, SourceReturn, FinishCanceled, Remove,
             WaitDone, WaitWake, TypeOK, Drained
    <3> QED BY <1>3, <2>1, <3>1, <3>2 DEF DoneByClose, CloseDraining, Closed
  <2>4. MarkDone(c) => DoneByClose'
    BY <2>1 DEF MarkDone, CallerOK, TypeOK, DoneByClose, CloseDraining
  <2>5. \A d \in Callers : op'[d] \in {"cancel", "finish"} /\ call'[d] = "returned" => done'
    BY <1>2, <1>3, <2>1, <2>2 DEF OnDoneOver, MarkDone
  <2> QED BY <1>1, <1>2, <2>3, <2>4, <2>5 DEF OnDoneOver
<1> QED BY <1>4, <1>5

LEMMA OnDoneOverStep == IInv /\ OnDoneOver /\ [Next]_vars => OnDoneOver'
<1> SUFFICES ASSUME IInv, OnDoneOver, [Next]_vars PROVE OnDoneOver'
    OBVIOUS
<1>1. CASE HandlerStep \/ UNCHANGED vars
  <2>1. UNCHANGED <<sessionVars, loopVars, callVars>>
    BY <1>1 DEF HandlerStep, HandlerBeginSend, HandlerSend, HandlerSendFails, HandlerReturn,
                vars, sessionVars, loopVars, callVars
  <2>2. QED BY <2>1 DEF OnDoneOver, DoneByClose, CloseDraining, Closed, sessionVars, loopVars,
                        callVars
<1>2. CASE LoopStep
  BY <1>2, OnDoneOverLoop DEF IInv
<1>3. ASSUME NEW c \in Callers, Call(c) \/ CallStep(c) PROVE OnDoneOver'
  BY <1>3, OnDoneOverCaller DEF IInv, CallerInv, ExportSteps
<1>4. QED BY <1>1, <1>2, <1>3 DEF Next

(* Any number of Cancels and Finishes return only after onDone has been    *)
(* called and has returned; a Close that marked the session done may spare *)
(* the stream its onDone, and only while it waits for one under way itself *)
(* does that one outlast a Cancel.                                         *)
THEOREM CancelWaitsForDoneHolds == Spec => []CancelWaitsForDone
<1>1. Init => OnDoneOver
  BY DEF Init, OnDoneOver
<1>2. IInv /\ OnDoneOver /\ [Next]_vars => OnDoneOver'
  BY OnDoneOverStep
<1>3. IInv /\ OnDoneOver => CancelWaitsForDone
  BY DEF IInv, OnDoneOver, CancelWaitsForDone, DoneByClose, CloseSilences
<1>4. QED BY <1>1, <1>2, <1>3, InvariantHolds, PTL DEF Spec

=============================================================================
