--------------------------- MODULE CallbackReceive ---------------------------
(***************************************************************************)
(* A stream in callback receive mode, after its Start export returned:     *)
(* the background receive loop, the atomics of StreamSession it shares     *)
(* with the exports that end the stream (Cancel, Finish, Close), and the   *)
(* in-process source the loop reads from.                                  *)
(*                                                                         *)
(* One action is one atomic operation of the code: a load, a store, an     *)
(* add, a compare-and-swap, a channel operation.  BeginCallback reads      *)
(* canceled and then done; both only ever go from FALSE to TRUE, so the    *)
(* pair is read in one action.                                             *)
(***************************************************************************)
EXTENDS Naturals

CONSTANTS
  Callers,          \* client threads; each makes one call that ends the stream
  CallbackCallers,  \* those whose call is made from inside onRecv or onDone
  TerminalOps,      \* the exports they may call
  MaxResponses      \* bound on the responses the handler sends

ASSUME CallbackAssumption ==
  /\ CallbackCallers \subseteq Callers
  /\ TerminalOps \subseteq {"cancel", "finish", "close"}
  /\ MaxResponses \in Nat

VARIABLES
  registered,           \* the handle still maps to the session
  canceled, done, doneCallbackStarted,
  activeCallbacks,
  stateChanged,         \* tokens in the channel of capacity 1
  loop,                 \* where the receive loop is
  doneID,               \* what onDone will be told: "ok", "failed", "canceled"
  handler,              \* "running", "sending", or how the handler returned
  sourceCanceled, finishRequested,
  sent, received,       \* responses put into and taken from the source
  delivered, released,  \* responses passed to onRecv, and unpinned by the loop
  doneResult,           \* what onDone was told, "none" before it is called
  op, call              \* the export each caller runs, and where it is

sessionVars == <<canceled, done, doneCallbackStarted, activeCallbacks, stateChanged>>
sourceVars == <<handler, sourceCanceled, finishRequested, sent>>
loopVars == <<loop, doneID, received, delivered, released, doneResult>>
callVars == <<registered, op, call>>
vars == <<sessionVars, sourceVars, loopVars, callVars>>

LoopStates ==
  {"recv", "begin", "enter", "recheck", "rejectSignal", "reject", "onRecv",
   "endSignal", "beginDone", "doneCAS", "doneEnter", "doneRecheck",
   "doneAbortSignal", "onDone", "doneLeave", "doneSignal", "exited"}

CallStates ==
  {"idle", "mark", "markStarted", "markDone", "markSignal", "drain",
   "drainBlocked", "facade", "source", "await", "remove", "waitDone",
   "waitBlocked", "returned", "stale"}

TypeOK ==
  /\ registered \in BOOLEAN
  /\ canceled \in BOOLEAN /\ done \in BOOLEAN /\ doneCallbackStarted \in BOOLEAN
  /\ activeCallbacks \in Nat
  /\ stateChanged \in {0, 1}
  /\ loop \in LoopStates
  /\ doneID \in {"ok", "failed", "canceled"}
  /\ handler \in {"running", "sending", "ok", "failed"}
  /\ sourceCanceled \in BOOLEAN /\ finishRequested \in BOOLEAN
  /\ sent \in Nat /\ received \in Nat /\ delivered \in Nat /\ released \in Nat
  /\ doneResult \in {"none", "ok", "failed", "canceled"}
  /\ op \in [Callers -> {"none", "cancel", "finish", "close"}]
  /\ call \in [Callers -> CallStates]

(* Start registered the session, enabled callback receive and spawned the loop. *)
Init ==
  /\ registered = TRUE
  /\ canceled = FALSE /\ done = FALSE /\ doneCallbackStarted = FALSE
  /\ activeCallbacks = 0
  /\ stateChanged = 0
  /\ loop = "recv"
  /\ doneID = "ok"
  /\ handler = "running"
  /\ sourceCanceled = FALSE /\ finishRequested = FALSE
  /\ sent = 0 /\ received = 0 /\ delivered = 0 /\ released = 0
  /\ doneResult = "none"
  /\ op = [c \in Callers |-> "none"]
  /\ call = [c \in Callers |-> "idle"]

-----------------------------------------------------------------------------
(***************************************************************************)
(* The source: the client endpoint of an in-process bidirectional stream.  *)
(* The handler sends at most one response ahead (ResponseBuffer is 1); a   *)
(* Send that starts after a finish was requested fails, one that is        *)
(* already in its select may still win the race.                           *)
(***************************************************************************)
pending == sent - received
HandlerReturned == handler \in {"ok", "failed"}

HandlerBeginSend ==
  /\ handler = "running"
  /\ ~finishRequested
  /\ sent < MaxResponses
  /\ handler' = "sending"
  /\ UNCHANGED <<sessionVars, loopVars, callVars, sourceCanceled, finishRequested, sent>>

HandlerSend ==
  /\ handler = "sending"
  /\ pending < 1
  /\ sent' = sent + 1
  /\ handler' = "running"
  /\ UNCHANGED <<sessionVars, loopVars, callVars, sourceCanceled, finishRequested>>

HandlerSendFails ==
  /\ handler = "sending"
  /\ sourceCanceled \/ finishRequested
  /\ handler' = "running"
  /\ UNCHANGED <<sessionVars, loopVars, callVars, sourceCanceled, finishRequested, sent>>

HandlerReturn ==
  /\ handler = "running"
  /\ handler' \in {"ok", "failed"}
  /\ UNCHANGED <<sessionVars, loopVars, callVars, sourceCanceled, finishRequested, sent>>

HandlerStep == HandlerBeginSend \/ HandlerSend \/ HandlerSendFails \/ HandlerReturn

-----------------------------------------------------------------------------
(***************************************************************************)
(* The receive loop.                                                       *)
(***************************************************************************)
RecvResponse ==
  /\ loop = "recv"
  /\ pending > 0
  /\ received' = received + 1
  /\ loop' = "begin"
  /\ UNCHANGED <<sessionVars, sourceVars, callVars, doneID, delivered, released, doneResult>>

(* Recv drains the responses before it reports how the handler returned,   *)
(* unless the stream was canceled: then its select may pick any ready case.*)
RecvEndBeforeDrain ==
  /\ loop = "recv"
  /\ HandlerReturned
  /\ doneID' = handler
  /\ loop' = "beginDone"
  /\ UNCHANGED <<sessionVars, sourceVars, callVars, received, delivered, released, doneResult>>
RecvEnd ==
  /\ loop = "recv"
  /\ HandlerReturned
  /\ pending = 0 \/ sourceCanceled
  /\ doneID' = handler
  /\ loop' = "beginDone"
  /\ UNCHANGED <<sessionVars, sourceVars, callVars, received, delivered, released, doneResult>>

RecvCanceled ==
  /\ loop = "recv"
  /\ sourceCanceled
  /\ doneID' = "failed"
  /\ loop' = "beginDone"
  /\ UNCHANGED <<sessionVars, sourceVars, callVars, received, delivered, released, doneResult>>

(* EncodeMessage failed for the response just received: nothing is pinned. *)
EncodeFailed ==
  /\ loop = "begin"
  /\ released' = released + 1
  /\ doneID' = "failed"
  /\ loop' = "beginDone"
  /\ UNCHANGED <<sessionVars, sourceVars, callVars, received, delivered, doneResult>>

(* The condition under which BeginCallback refuses. *)
Refused == canceled \/ done

BeginCallback ==
  /\ loop = "begin"
  /\ loop' = IF Refused THEN "reject" ELSE "enter"
  /\ UNCHANGED <<sessionVars, sourceVars, callVars, doneID, received, delivered, released, doneResult>>

Enter(from, to) ==
  /\ loop = from
  /\ activeCallbacks' = activeCallbacks + 1
  /\ loop' = to
  /\ UNCHANGED <<canceled, done, doneCallbackStarted, stateChanged>>
  /\ UNCHANGED <<sourceVars, callVars, doneID, received, delivered, released, doneResult>>

EnterCallback == Enter("enter", "recheck")

(* activeCallbacks.Add(-1); whoever brings it to zero signals. *)
Leave(from, signal, to) ==
  /\ loop = from
  /\ activeCallbacks' = activeCallbacks - 1
  /\ loop' = IF activeCallbacks = 1 THEN signal ELSE to
  /\ UNCHANGED <<canceled, done, doneCallbackStarted, stateChanged>>
  /\ UNCHANGED <<sourceVars, callVars, doneID, received, delivered, released, doneResult>>

(* signalStateChange: a send that gives up when the channel is full. *)
Signal(from, to) ==
  /\ loop = from
  /\ stateChanged' = 1
  /\ loop' = to
  /\ UNCHANGED <<canceled, done, doneCallbackStarted, activeCallbacks>>
  /\ UNCHANGED <<sourceVars, callVars, doneID, received, delivered, released, doneResult>>

(* BeginCallback looks again once it is counted, then onRecv is called and *)
(* owns the response.                                                      *)
CallOnRecv ==
  /\ loop = "recheck"
  /\ ~Refused
  /\ loop' = "onRecv"
  /\ delivered' = delivered + 1
  /\ UNCHANGED <<sessionVars, sourceVars, callVars, doneID, received, released, doneResult>>

AbandonRecv ==
  /\ Refused
  /\ Leave("recheck", "rejectSignal", "reject")

SignalRejected == Signal("rejectSignal", "reject")

(* The refused response is unpinned and onDone will report a cancellation. *)
RejectWithoutRelease ==
  /\ loop = "reject"
  /\ doneID' = "canceled"
  /\ loop' = "beginDone"
  /\ UNCHANGED <<sessionVars, sourceVars, callVars, received, delivered, released, doneResult>>
Reject ==
  /\ loop = "reject"
  /\ released' = released + 1
  /\ doneID' = "canceled"
  /\ loop' = "beginDone"
  /\ UNCHANGED <<sessionVars, sourceVars, callVars, received, delivered, doneResult>>

(* A call made from inside the callback keeps it from returning. *)
CallbackReturns ==
  \A c \in CallbackCallers : call[c] \in {"idle", "returned", "stale"}

EndCallback ==
  /\ CallbackReturns
  /\ Leave("onRecv", "endSignal", "recv")

SignalEnded == Signal("endSignal", "recv")

BeginDoneCallback ==
  /\ loop = "beginDone"
  /\ loop' = IF done THEN "exited" ELSE "doneCAS"
  /\ UNCHANGED <<sessionVars, sourceVars, callVars, doneID, received, delivered, released, doneResult>>

ClaimDone ==
  /\ loop = "doneCAS"
  /\ doneCallbackStarted' = TRUE
  /\ loop' = IF doneCallbackStarted THEN "exited" ELSE "doneEnter"
  /\ UNCHANGED <<canceled, done, activeCallbacks, stateChanged>>
  /\ UNCHANGED <<sourceVars, callVars, doneID, received, delivered, released, doneResult>>

EnterDone == Enter("doneEnter", "doneRecheck")

CallOnDoneWithoutLooking ==
  /\ loop = "doneRecheck"
  /\ loop' = "onDone"
  /\ doneResult' = doneID
  /\ UNCHANGED <<sessionVars, sourceVars, callVars, doneID, received, delivered, released>>
CallOnDone ==
  /\ loop = "doneRecheck"
  /\ ~done
  /\ loop' = "onDone"
  /\ doneResult' = doneID
  /\ UNCHANGED <<sessionVars, sourceVars, callVars, doneID, received, delivered, released>>

AbandonDone ==
  /\ done
  /\ Leave("doneRecheck", "doneAbortSignal", "exited")

SignalDoneAborted == Signal("doneAbortSignal", "exited")

EndDoneCallback ==
  /\ loop = "onDone"
  /\ CallbackReturns
  /\ done' = TRUE
  /\ loop' = "doneLeave"
  /\ UNCHANGED <<canceled, doneCallbackStarted, activeCallbacks, stateChanged>>
  /\ UNCHANGED <<sourceVars, callVars, doneID, received, delivered, released, doneResult>>

(* Both branches of EndDoneCallback signal. *)
LeaveDoneWithoutSignal == Leave("doneLeave", "exited", "exited")
LeaveDone == Leave("doneLeave", "doneSignal", "doneSignal")

SignalDone == Signal("doneSignal", "exited")

LoopStep ==
  \/ RecvResponse \/ RecvEnd \/ RecvCanceled \/ EncodeFailed
  \/ BeginCallback \/ EnterCallback \/ CallOnRecv \/ AbandonRecv \/ SignalRejected
  \/ Reject \/ EndCallback \/ SignalEnded
  \/ BeginDoneCallback \/ ClaimDone \/ EnterDone \/ CallOnDone \/ AbandonDone
  \/ SignalDoneAborted \/ EndDoneCallback \/ LeaveDone \/ SignalDone

-----------------------------------------------------------------------------
(***************************************************************************)
(* The Cancel, Finish and Close exports, called by client threads.         *)
(***************************************************************************)
Goto(c, to) == call' = [call EXCEPT ![c] = to]

(* StreamCallbackReceiveState.  A caller that does not find the handle     *)
(* returns the invalid-handle error without touching the session.          *)
Call(c) ==
  /\ call[c] = "idle"
  /\ c \in CallbackCallers => loop \in {"onRecv", "onDone"}
  /\ \E o \in TerminalOps : op' = [op EXCEPT ![c] = o]
  /\ Goto(c, IF registered THEN "mark" ELSE "stale")
  /\ UNCHANGED <<sessionVars, sourceVars, loopVars, registered>>

MarkCanceled(c) ==
  /\ call[c] = "mark"
  /\ canceled' = TRUE
  /\ Goto(c, IF op[c] = "close" THEN "markStarted" ELSE "drain")
  /\ UNCHANGED <<done, doneCallbackStarted, activeCallbacks, stateChanged>>
  /\ UNCHANGED <<sourceVars, loopVars, registered, op>>

MarkDoneStarted(c) ==
  /\ call[c] = "markStarted"
  /\ doneCallbackStarted' = TRUE
  /\ Goto(c, "markDone")
  /\ UNCHANGED <<canceled, done, activeCallbacks, stateChanged>>
  /\ UNCHANGED <<sourceVars, loopVars, registered, op>>

MarkDone(c) ==
  /\ call[c] = "markDone"
  /\ done' = TRUE
  /\ Goto(c, "markSignal")
  /\ UNCHANGED <<canceled, doneCallbackStarted, activeCallbacks, stateChanged>>
  /\ UNCHANGED <<sourceVars, loopVars, registered, op>>

SignalMarked(c) ==
  /\ call[c] = "markSignal"
  /\ stateChanged' = 1
  /\ Goto(c, "drain")
  /\ UNCHANGED <<canceled, done, doneCallbackStarted, activeCallbacks>>
  /\ UNCHANGED <<sourceVars, loopVars, registered, op>>

(* for s.activeCallbacks.Load() > 0 *)
DrainNothing(c) ==
  /\ call[c] = "drain"
  /\ Goto(c, "facade")
  /\ UNCHANGED <<sessionVars, sourceVars, loopVars, registered, op>>
Drain(c) ==
  /\ call[c] = "drain"
  /\ Goto(c, IF activeCallbacks > 0 THEN "drainBlocked" ELSE "facade")
  /\ UNCHANGED <<sessionVars, sourceVars, loopVars, registered, op>>

(* <-s.stateChanged, in MarkCanceled, MarkCallbackReceiveClosed, WaitDone *)
Await(c, from, to) ==
  /\ call[c] = from
  /\ stateChanged = 1
  /\ stateChanged' = 0
  /\ Goto(c, to)
  /\ UNCHANGED <<canceled, done, doneCallbackStarted, activeCallbacks>>
  /\ UNCHANGED <<sourceVars, loopVars, registered, op>>

DrainWake(c) == Await(c, "drainBlocked", "drain")

(* What the export does after the facade operation. *)
AfterFacadeSkippingWait(c) == "returned"
AfterFacade(c) == IF op[c] = "close" THEN "returned" ELSE "waitDone"

FacadeLoadUnlessClosing(c) ==
  /\ call[c] = "facade"
  /\ Goto(c, IF registered /\ op[c] # "close" THEN "source" ELSE AfterFacade(c))
  /\ UNCHANGED <<sessionVars, sourceVars, loopVars, registered, op>>
FacadeLoad(c) ==
  /\ call[c] = "facade"
  /\ Goto(c, IF registered THEN "source" ELSE AfterFacade(c))
  /\ UNCHANGED <<sessionVars, sourceVars, loopVars, registered, op>>

(* Cancel and Close cancel the source, Finish asks the handler to finish. *)
SourceRequest(c) ==
  /\ call[c] = "source"
  /\ IF op[c] = "finish"
       THEN finishRequested' = TRUE /\ UNCHANGED sourceCanceled
       ELSE sourceCanceled' = TRUE /\ UNCHANGED finishRequested
  /\ Goto(c, "await")
  /\ UNCHANGED <<sessionVars, loopVars, handler, sent, registered, op>>

(* The source call returns once the handler did; Finish then cancels the   *)
(* context it shares with the loop.                                        *)
SourceReturn(c) ==
  /\ call[c] = "await"
  /\ HandlerReturned
  /\ sourceCanceled' = TRUE
  /\ Goto(c, "remove")
  /\ UNCHANGED <<sessionVars, loopVars, handler, finishRequested, sent, registered, op>>

(* Finish fails when somebody else cancels the stream: the handle stays. *)
FinishCanceled(c) ==
  /\ call[c] = "await"
  /\ op[c] = "finish"
  /\ sourceCanceled
  /\ Goto(c, AfterFacade(c))
  /\ UNCHANGED <<sessionVars, sourceVars, loopVars, registered, op>>

Remove(c) ==
  /\ call[c] = "remove"
  /\ registered' = FALSE
  /\ Goto(c, AfterFacade(c))
  /\ UNCHANGED <<sessionVars, sourceVars, loopVars, op>>

(* for !s.done.Load() *)
WaitDone(c) ==
  /\ call[c] = "waitDone"
  /\ Goto(c, IF done THEN "returned" ELSE "waitBlocked")
  /\ UNCHANGED <<sessionVars, sourceVars, loopVars, registered, op>>

WaitWake(c) == Await(c, "waitBlocked", "waitDone")

(* Everything a caller does by itself once it has entered the export. *)
CallStep(c) ==
  \/ MarkCanceled(c) \/ MarkDoneStarted(c) \/ MarkDone(c) \/ SignalMarked(c)
  \/ Drain(c) \/ DrainWake(c) \/ FacadeLoad(c)
  \/ SourceRequest(c) \/ SourceReturn(c) \/ FinishCanceled(c) \/ Remove(c)
  \/ WaitDone(c) \/ WaitWake(c)

Next ==
  \/ HandlerStep
  \/ LoopStep
  \/ \E c \in Callers : Call(c) \/ CallStep(c)

Spec == Init /\ [][Next]_vars

(***************************************************************************)
(* The Go scheduler runs every goroutine that can run.  User code is       *)
(* trusted with two things: a callback returns, and a handler that is not  *)
(* inside Send again and again returns once its context is canceled or a   *)
(* finish is requested.                                                    *)
(***************************************************************************)
HandlerObeys == (sourceCanceled \/ finishRequested) /\ HandlerReturn

FairSpec ==
  /\ Spec
  /\ WF_vars(LoopStep)
  /\ WF_vars(HandlerSendFails)
  /\ SF_vars(HandlerObeys)
  /\ \A c \in Callers : WF_vars(CallStep(c))

-----------------------------------------------------------------------------
(* The calls that have seen no callback in flight after their mark. *)
Drained == {"facade", "source", "await", "remove", "waitDone", "waitBlocked", "returned"}

Stopped == \E c \in Callers : op[c] \in {"cancel", "finish"} /\ call[c] \in Drained
Closed == \E c \in Callers : op[c] = "close" /\ call[c] \in Drained

(* After MarkCallbackReceiveClosed returned in any Close, neither onRecv   *)
(* nor onDone runs or starts: the owner of the callbacks may be torn down. *)
CloseSilences == Closed => loop \notin {"onRecv", "onDone"}

(* After MarkCanceled returned in any Cancel or Finish, onRecv is over. *)
CancelStopsRecv == Stopped => loop # "onRecv"

(* A Cancel or Finish export returns only when onDone has been called and  *)
(* has returned ("WaitDone waits until the callback receive loop has       *)
(* delivered onDone").  Only a Close that marked the session done takes    *)
(* the end over: then there may be no onDone, and while that Close itself  *)
(* still waits for it, an onDone under way outlasts the Cancel.            *)
CloseDraining ==
  \E d \in Callers : op[d] = "close" /\ call[d] \in {"markSignal", "drain", "drainBlocked"}
DoneByClose == CloseDraining \/ Closed
CancelWaitsForDone ==
  \A c \in Callers :
    op[c] \in {"cancel", "finish"} /\ call[c] = "returned" =>
      /\ loop = "onDone" => CloseDraining
      /\ doneResult = "none" => DoneByClose

(* onDone reports success only for a stream whose every response reached   *)
(* onRecv, unless the client itself ended the stream.                      *)
CleanDone == doneResult = "ok" /\ ~canceled => delivered = sent

(* Every response the loop took was handed to onRecv or unpinned again     *)
(* before onDone is called or the loop exits.                              *)
NoPinnedResponseLeft ==
  loop = "exited" \/ doneResult # "none" => received = delivered + released

(* The delivery promise, CallbackDelivery, is implemented. *)
Running == IF loop \in {"onRecv", "onDone"} THEN loop ELSE "none"
DoneCalled == doneResult # "none"
Delivery == INSTANCE CallbackDelivery WITH
  running <- Running,
  doneCalled <- DoneCalled,
  stopped <- Stopped,
  closed <- Closed
DeliverySpec == Delivery!Spec

(* A blocked wait whose condition has come true is about to be woken: a    *)
(* token is in the channel, or whoever made it true is about to send one.  *)
SignalPending == stateChanged = 1 \/ loop \in
  {"rejectSignal", "endSignal", "doneAbortSignal", "doneSignal"}
NoLostWakeup ==
  \A c \in Callers :
    /\ call[c] = "drainBlocked" /\ activeCallbacks = 0 => SignalPending
    /\ call[c] = "waitBlocked" /\ done => SignalPending \/ loop = "doneLeave"

(* An export that ends the stream returns. *)
CallsReturn == \A c \in Callers : call[c] = "mark" ~> call[c] = "returned"

(* A call that no other call touches the stream beside returns: the loop's *)
(* signal reaches it, in whatever order its loads and the loop's stores    *)
(* fall.                                                                   *)
SoleCallReturns ==
  \A c \in Callers :
    call[c] = "mark" ~>
      call[c] = "returned" \/ \E d \in Callers \ {c} : call[d] \notin {"idle", "stale"}

(* Whichever export ends the stream reaches its source, which the loop     *)
(* waits on with a background context: once one was called on a live       *)
(* handle, the receive goroutine ends.                                     *)
LoopExits == \A c \in Callers : call[c] = "mark" ~> loop = "exited"

=============================================================================
