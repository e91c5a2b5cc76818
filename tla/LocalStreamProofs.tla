-------------------------- MODULE LocalStreamProofs --------------------------
(***************************************************************************)
(* Proofs about LocalStream: type correctness and its safety properties,   *)
(* for any number of client threads, any channel capacities and any number *)
(* of items.                                                               *)
(***************************************************************************)
EXTENDS LocalStream, TLAPS

(* What a thread may do depends on the shape of the stream. *)
ThreadShape(t) ==
  /\ pc[t] \in {"offer", "ack"} => HasRequests
  /\ pc[t] \in {"request", "finish"} => op[t] = "finish"
  /\ pc[t] = "cancel" => op[t] = "cancel"
  /\ pc[t] \in {"offer", "ack"} => op[t] = "send"
  /\ pc[t] = "recv" => op[t] = "recv"

(* A thread that was told the outcome of the stream was told the truth. *)
Told(t) ==
  /\ result[t] = "eof" => completed = "ok" /\ (shape = "bidi" => responded = taken)
  /\ op[t] \in {"finish", "cancel"} /\ pc[t] = "idle" /\ result[t] = "ok" => completed # "no"

ServerShape ==
  /\ server \in {"recvDone", "recv"} => HasRequests
  /\ server = "recvDone" => shape = "bidi"
  /\ server \in {"offer", "ack"} => HasResponses
  /\ server = "ack" => shape = "server"
  /\ server = "returned" <=> completed # "no"

(* The responses whose Send succeeded. *)
Accepted ==
  /\ accepted <= responded
  /\ shape # "bidi" => accepted <= taken

LInv ==
  /\ TypeOK
  /\ \A t \in Threads : ThreadShape(t) /\ Told(t)
  /\ ServerShape
  /\ Accepted
  /\ SendTellsTruth

-----------------------------------------------------------------------------
LEMMA InitLInv == Init => LInv
<1> SUFFICES ASSUME Init PROVE LInv
    OBVIOUS
<1>1. TypeOK
  <2>1. /\ pc \in [Threads -> {"idle", "offer", "ack", "recv", "request", "finish", "cancel"}]
        /\ op \in [Threads -> {"none", "send", "recv", "closeSend", "finish", "cancel"}]
        /\ item \in [Threads -> Nat]
        /\ result \in [Threads -> {"none", "ok", "error", "eof"}]
    BY DEF Init
  <2>2. requested \in Nat /\ received \in 0 .. requested /\ responded \in Nat /\ taken \in 0 .. responded
    BY DEF Init
  <2>3. shape \in {"client", "server", "bidi"} BY StreamAssumption DEF Init
  <2>4. QED BY <2>1, <2>2, <2>3 DEF Init, TypeOK
<1>2. \A t \in Threads : ThreadShape(t) /\ Told(t)
  BY DEF Init, ThreadShape, Told
<1>3. ServerShape /\ Accepted /\ SendTellsTruth
  BY DEF Init, ServerShape, Accepted, SendTellsTruth
<1>4. QED BY <1>1, <1>2, <1>3 DEF LInv

-----------------------------------------------------------------------------
(* What the step of a client thread t may disturb. *)
LEMMA ClientTypes ==
  ASSUME LInv, NEW t \in Threads,
         \/ Send(t) \/ SendRefused(t) \/ Recv(t) \/ CloseSend(t) \/ Finish(t) \/ Cancel(t)
         \/ CallStep(t)
  PROVE  TypeOK'
<1> USE DEF channelVars, controlVars, clientVars, serverVars, Enter, Return, LeftBehind, reportVars
<1>1. UNCHANGED <<shape, received, responded, completed, server, reply, accepted>>
  BY DEF CallStep, Send, SendRefused, Recv, CloseSend, Finish, Cancel, SendOffer, SendGivesUp,
     SendConfirmed, SendAborted, SendOutlived, RecvResponse, RecvCanceled, RecvEnd, FinishRequest,
     FinishReturns, FinishAborted, CancelReturns, CancelGivesUp, Take
<1>2. requested' \in Nat /\ requested' >= requested /\ item' \in [Threads -> Nat]
  <2>1. CASE SendOffer(t)
    BY <2>1 DEF SendOffer, LInv, TypeOK
  <2>2. CASE ~SendOffer(t)
    <3>1. UNCHANGED <<requested, item>>
      BY <2>2 DEF CallStep, Send, SendRefused, Recv, CloseSend, Finish, Cancel, SendGivesUp,
         SendConfirmed, SendAborted, SendOutlived, RecvResponse, RecvCanceled, RecvEnd, FinishRequest,
         FinishReturns, FinishAborted, CancelReturns, CancelGivesUp, Take
    <3>2. QED BY <3>1 DEF LInv, TypeOK
  <2>3. QED BY <2>1, <2>2
<1>3. taken' \in 0 .. responded
  <2>1. taken' = taken \/ (queuedResponses > 0 /\ taken' = taken + 1)
    BY DEF CallStep, Send, SendRefused, Recv, CloseSend, Finish, Cancel, SendOffer, SendGivesUp,
       SendConfirmed, SendAborted, SendOutlived, RecvResponse, RecvCanceled, RecvEnd, FinishRequest,
       FinishReturns, FinishAborted, CancelReturns, CancelGivesUp, Take
  <2>2. QED BY <2>1 DEF LInv, TypeOK, queuedResponses
<1>4. sendDone' \in BOOLEAN /\ canceled' \in BOOLEAN /\ finishRequested' \in BOOLEAN
  BY DEF LInv, TypeOK, CallStep, Send, SendRefused, Recv, CloseSend, Finish, Cancel, SendOffer,
     SendGivesUp, SendConfirmed, SendAborted, SendOutlived, RecvResponse, RecvCanceled, RecvEnd,
     FinishRequest, FinishReturns, FinishAborted, CancelReturns, CancelGivesUp
<1>5. confirmed' \subseteq Nat /\ lost' \subseteq Nat
  <2>1. /\ confirmed' = confirmed \/ confirmed' = confirmed \cup {item[t]}
        /\ lost' = lost \/ lost' = lost \cup {item[t]}
    BY DEF CallStep, Send, SendRefused, Recv, CloseSend, Finish, Cancel, SendOffer, SendGivesUp,
       SendConfirmed, SendAborted, SendOutlived, RecvResponse, RecvCanceled, RecvEnd, FinishRequest,
       FinishReturns, FinishAborted, CancelReturns, CancelGivesUp
  <2>2. item[t] \in Nat BY DEF LInv, TypeOK
  <2>3. QED BY <2>1, <2>2 DEF LInv, TypeOK
<1>6. /\ pc' \in [Threads -> {"idle", "offer", "ack", "recv", "request", "finish", "cancel"}]
      /\ op' \in [Threads -> {"none", "send", "recv", "closeSend", "finish", "cancel"}]
  BY DEF LInv, TypeOK, CallStep, Send, SendRefused, Recv, CloseSend, Finish, Cancel, SendOffer,
     SendGivesUp, SendConfirmed, SendAborted, SendOutlived, RecvResponse, RecvCanceled, RecvEnd,
     FinishRequest, FinishReturns, FinishAborted, CancelReturns, CancelGivesUp, Take
<1>7. result' \in [Threads -> {"none", "ok", "error", "eof"}]
  BY DEF LInv, TypeOK, CallStep, Send, SendRefused, Recv, CloseSend, Finish, Cancel, SendOffer,
     SendGivesUp, SendConfirmed, SendAborted, SendOutlived, Unanswered, RecvResponse, RecvCanceled,
     RecvEnd, FinishRequest, FinishReturns, FinishAborted, CancelReturns, CancelGivesUp, Take
<1>8. received' \in 0 .. requested' /\ responded' \in Nat /\ taken' \in 0 .. responded'
  BY <1>1, <1>2, <1>3 DEF LInv, TypeOK
<1>9. QED BY <1>1, <1>2, <1>4, <1>5, <1>6, <1>7, <1>8 DEF LInv, TypeOK

(* A client step moves only its own thread, and the channels one way.      *)
LEMMA ClientEffect ==
  ASSUME LInv, NEW t \in Threads,
         \/ Send(t) \/ SendRefused(t) \/ Recv(t) \/ CloseSend(t) \/ Finish(t) \/ Cancel(t)
         \/ CallStep(t)
  PROVE  /\ UNCHANGED <<shape, received, responded, completed, server, accepted>>
         /\ taken' = taken \/ (taken' = taken + 1 /\ responded > taken)
         /\ \A u \in Threads \ {t} : pc'[u] = pc[u] /\ op'[u] = op[u] /\ result'[u] = result[u]
<1> USE DEF LInv, TypeOK, channelVars, controlVars, clientVars, serverVars, Enter, Return,
            LeftBehind, reportVars, HasRequests, HasResponses
<1>1. CASE Send(t) \/ SendRefused(t)
  BY <1>1 DEF Send, SendRefused
<1>2. CASE Recv(t)
  BY <1>2 DEF Recv, Take, queuedResponses
<1>3. CASE CloseSend(t) \/ Finish(t) \/ Cancel(t)
  BY <1>3 DEF CloseSend, Finish, Cancel
<1>4. CASE SendOffer(t) \/ SendGivesUp(t) \/ SendAborted(t)
  BY <1>4 DEF SendOffer, SendGivesUp, SendAborted
<1>5. CASE SendConfirmed(t) \/ SendOutlived(t)
  BY <1>5 DEF SendConfirmed, SendOutlived
<1>6. CASE RecvResponse(t) \/ RecvCanceled(t) \/ RecvEnd(t)
  BY <1>6 DEF RecvResponse, RecvCanceled, RecvEnd, Take, queuedResponses
<1>7. CASE FinishRequest(t) \/ FinishReturns(t) \/ FinishAborted(t)
  BY <1>7 DEF FinishRequest, FinishReturns, FinishAborted
<1>8. CASE CancelReturns(t) \/ CancelGivesUp(t)
  BY <1>8 DEF CancelReturns, CancelGivesUp
<1>9. QED BY <1>1, <1>2, <1>3, <1>4, <1>5, <1>6, <1>7, <1>8 DEF CallStep

(* The thread itself is in a call that fits the stream, and was told the   *)
(* truth.                                                                  *)
LEMMA ClientCall ==
  ASSUME LInv, NEW t \in Threads,
         \/ Send(t) \/ SendRefused(t) \/ Recv(t) \/ CloseSend(t) \/ Finish(t) \/ Cancel(t)
         \/ CallStep(t)
  PROVE  ThreadShape(t)' /\ Told(t)'
<1> USE DEF LInv, TypeOK, channelVars, controlVars, clientVars, serverVars, Enter, Return,
            LeftBehind, reportVars, ThreadShape, Told, HasRequests, HasResponses
<1>1. CASE Send(t) \/ SendRefused(t)
  BY <1>1 DEF Send, SendRefused
<1>2. CASE Recv(t)
  BY <1>2 DEF Recv, Take, queuedResponses
<1>3. CASE CloseSend(t) \/ Finish(t) \/ Cancel(t)
  BY <1>3 DEF CloseSend, Finish, Cancel
<1>4. CASE SendOffer(t) \/ SendGivesUp(t) \/ SendAborted(t)
  BY <1>4 DEF SendOffer, SendGivesUp, SendAborted
<1>5. CASE SendConfirmed(t) \/ SendOutlived(t)
  BY <1>5 DEF SendConfirmed, SendOutlived, Unanswered
<1>6. CASE RecvResponse(t) \/ RecvCanceled(t) \/ RecvEnd(t)
  BY <1>6 DEF RecvResponse, RecvCanceled, RecvEnd, Take, queuedResponses
<1>7. CASE FinishRequest(t) \/ FinishReturns(t) \/ FinishAborted(t)
  BY <1>7 DEF FinishRequest, FinishReturns, FinishAborted
<1>8. CASE CancelReturns(t) \/ CancelGivesUp(t)
  BY <1>8 DEF CancelReturns, CancelGivesUp
<1>9. QED BY <1>1, <1>2, <1>3, <1>4, <1>5, <1>6, <1>7, <1>8 DEF CallStep

(* Only SendConfirmed and SendOutlived report on a request. *)
LEMMA ClientConfirms ==
  ASSUME LInv, NEW t \in Threads,
         \/ Send(t) \/ SendRefused(t) \/ Recv(t) \/ CloseSend(t) \/ Finish(t) \/ Cancel(t)
         \/ CallStep(t)
  PROVE  SendTellsTruth'
<1>1. UNCHANGED <<shape, received, completed>>
  BY ClientEffect
<1>2. CASE SendConfirmed(t)
  BY <1>1, <1>2 DEF SendConfirmed, LInv, SendTellsTruth
<1>3. CASE SendOutlived(t)
  BY <1>1, <1>3 DEF SendOutlived, LeftBehind, Unanswered, LInv, SendTellsTruth
<1>4. CASE ~SendConfirmed(t) /\ ~SendOutlived(t)
  <2>1. confirmed' = confirmed /\ lost' = lost
    BY <1>4 DEF CallStep, Send, SendRefused, Recv, CloseSend, Finish, Cancel, SendOffer, SendGivesUp,
       SendAborted, RecvResponse, RecvCanceled, RecvEnd, FinishRequest, FinishReturns, FinishAborted,
       CancelReturns, CancelGivesUp, clientVars, reportVars
  <2>2. QED BY <1>1, <2>1 DEF LInv, SendTellsTruth
<1>5. QED BY <1>2, <1>3, <1>4

LEMMA ClientKeeps ==
  ASSUME LInv, NEW t \in Threads,
         \/ Send(t) \/ SendRefused(t) \/ Recv(t) \/ CloseSend(t) \/ Finish(t) \/ Cancel(t)
         \/ CallStep(t)
  PROVE  LInv'
<1>1. /\ UNCHANGED <<shape, received, responded, completed, server, accepted>>
      /\ taken' = taken \/ (taken' = taken + 1 /\ responded > taken)
      /\ \A u \in Threads \ {t} : pc'[u] = pc[u] /\ op'[u] = op[u] /\ result'[u] = result[u]
  BY ClientEffect
<1>2. TypeOK' /\ ThreadShape(t)' /\ Told(t)' /\ SendTellsTruth'
  BY ClientTypes, ClientCall, ClientConfirms
<1>3. ASSUME NEW u \in Threads \ {t} PROVE ThreadShape(u)' /\ Told(u)'
  <2>1. ThreadShape(u) /\ Told(u)
    BY DEF LInv
  <2>2. ThreadShape(u)'
    BY <1>1, <2>1 DEF ThreadShape, HasRequests, HasResponses
  <2>3. Told(u)'
    BY <1>1, <2>1 DEF Told, LInv, TypeOK
  <2>4. QED BY <2>2, <2>3
<1>4. ServerShape' /\ Accepted'
  BY <1>1 DEF LInv, TypeOK, ServerShape, Accepted, HasRequests, HasResponses
<1>5. QED BY <1>2, <1>3, <1>4 DEF LInv

-----------------------------------------------------------------------------
LEMMA ServerKeeps == ASSUME LInv, ServerStep PROVE LInv'
<1>1. UNCHANGED clientVars /\ UNCHANGED <<shape, requested, taken, sendDone, canceled, finishRequested>>
  BY DEF ServerStep, ServerRecv, ServerRecvLook, ServerRecvRequest, ServerRecvEOF, ServerRecvCanceled,
     ServerSend, ServerSendOffer, ServerSendAcknowledged, ServerSendFails, Complete, TakeRequest,
     channelVars, controlVars
<1>2. UNCHANGED <<pc, op, item, result, confirmed, lost>>
  BY <1>1 DEF clientVars, reportVars
<1>3. /\ server # "returned" /\ completed = "no"
      /\ \/ completed' = completed
         \/ completed' \in {"ok", "failed"} /\ server' = "returned" /\ responded' = responded
            /\ accepted' = accepted /\ received' = received
  BY DEF ServerStep, ServerRecv, ServerRecvLook, ServerRecvRequest, ServerRecvEOF, ServerRecvCanceled,
     ServerSend, ServerSendOffer, ServerSendAcknowledged, ServerSendFails, Complete, TakeRequest,
     channelVars, controlVars, LInv, ServerShape, TypeOK
<1>4. TypeOK'
  <2>1. received' \in 0 .. requested' /\ received' \in Nat
    BY <1>1 DEF ServerStep, ServerRecv, ServerRecvLook, ServerRecvRequest, ServerRecvEOF,
       ServerRecvCanceled, ServerSend, ServerSendOffer, ServerSendAcknowledged, ServerSendFails, Complete,
       TakeRequest, channelVars, LInv, TypeOK, queuedRequests
  <2>2. responded' \in Nat /\ taken' \in 0 .. responded'
    BY <1>1 DEF ServerStep, ServerRecv, ServerRecvLook, ServerRecvRequest, ServerRecvEOF,
       ServerRecvCanceled, ServerSend, ServerSendOffer, ServerSendAcknowledged, ServerSendFails, Complete,
       TakeRequest, channelVars, LInv, TypeOK
  <2>3. completed' \in {"no", "ok", "failed"}
    BY <1>3
  <2>4. server' \in {"running", "recvDone", "recv", "offer", "ack", "returned"}
        /\ reply' \in {"none", "ok", "error", "eof"} /\ accepted' \in Nat
    BY DEF ServerStep, ServerRecv, ServerRecvLook, ServerRecvRequest, ServerRecvEOF,
       ServerRecvCanceled, ServerSend, ServerSendOffer, ServerSendAcknowledged, ServerSendFails, Complete,
       TakeRequest, ServerReturn, LInv, TypeOK
  <2>5. QED BY <1>1, <1>2, <2>1, <2>2, <2>3, <2>4 DEF LInv, TypeOK
<1>5. \A t \in Threads : ThreadShape(t)' /\ Told(t)'
  BY <1>1, <1>2, <1>3 DEF LInv, ThreadShape, Told, HasRequests, HasResponses
<1>6. ServerShape' /\ Accepted'
  <2> USE DEF LInv, ServerShape, Accepted, TypeOK, ServerReturn, channelVars, controlVars
  <2>1. CASE ServerRecv \/ ServerRecvRequest
    BY <2>1 DEF ServerRecv, ServerRecvRequest, TakeRequest, HasRequests, HasResponses
  <2>2. CASE ServerRecvLook \/ ServerRecvEOF \/ ServerRecvCanceled
    BY <2>2 DEF ServerRecvLook, ServerRecvEOF, ServerRecvCanceled, HasRequests
  <2>3. CASE ServerSend \/ ServerSendFails
    BY <2>3 DEF ServerSend, ServerSendFails, HasRequests, HasResponses
  <2>4. CASE ServerSendOffer
    BY <2>4 DEF ServerSendOffer, HasResponses
  <2>5. CASE ServerSendAcknowledged
    BY <2>5 DEF ServerSendAcknowledged
  <2>6. CASE Complete
    BY <2>6 DEF Complete
  <2>7. QED BY <2>1, <2>2, <2>3, <2>4, <2>5, <2>6 DEF ServerStep
<1>7. SendTellsTruth'
  <2>1. received' \in Nat /\ received' >= received
    BY DEF ServerStep, ServerRecv, ServerRecvLook, ServerRecvRequest, ServerRecvEOF,
       ServerRecvCanceled, ServerSend, ServerSendOffer, ServerSendAcknowledged, ServerSendFails, Complete,
       TakeRequest, channelVars, LInv, TypeOK
  <2>2. \A r \in confirmed : r \in Nat /\ r <= received
    BY <1>3 DEF LInv, TypeOK, SendTellsTruth
  <2>3. \A r \in confirmed : r <= received'
    BY <2>1, <2>2 DEF LInv, TypeOK
  <2>4. lost = {}
    BY <1>3 DEF LInv, SendTellsTruth
  <2>5. QED BY <1>2, <2>3, <2>4 DEF SendTellsTruth
<1>8. QED BY <1>4, <1>5, <1>6, <1>7 DEF LInv

LEMMA StepLInv == LInv /\ [Next]_vars => LInv'
<1> SUFFICES ASSUME LInv, [Next]_vars PROVE LInv'
    OBVIOUS
<1>1. CASE Next
  BY <1>1, ClientKeeps, ServerKeeps DEF Next
<1>2. CASE UNCHANGED vars
  <2>1. UNCHANGED <<shape, requested, received, responded, taken, sendDone, canceled, finishRequested,
                    completed, pc, op, item, result, confirmed, lost, server, reply, accepted>>
    BY <1>2 DEF vars, channelVars, controlVars, clientVars, reportVars, serverVars
  <2>2. TypeOK'
    BY <2>1 DEF LInv, TypeOK
  <2>3. QED BY <2>1, <2>2 DEF LInv, ThreadShape, Told, ServerShape, Accepted, SendTellsTruth, HasRequests, HasResponses
<1>3. QED BY <1>1, <1>2

-----------------------------------------------------------------------------
(* The inductive invariant holds. *)
THEOREM StreamInvariantHolds == Spec => []LInv
<1>1. QED BY InitLInv, StepLInv, PTL DEF Spec

(* The channels never lose count: no item is taken that was not put in.    *)
THEOREM StreamTypeCorrect == Spec => []TypeOK
<1>1. LInv => TypeOK
  BY DEF LInv
<1>2. QED BY <1>1, StreamInvariantHolds, PTL

(* A Send that reported success was received, or the handler of a bidi     *)
(* stream ended the call successfully without asking for it; one that      *)
(* failed because the handler returned was not and never will be.          *)
THEOREM SendTellsTruthHolds == Spec => []SendTellsTruth
<1>1. LInv => SendTellsTruth
  BY DEF LInv
<1>2. QED BY <1>1, StreamInvariantHolds, PTL

(* The end of the responses is reported after the last accepted one was    *)
(* received.                                                               *)
THEOREM ResponsesCompleteHolds == Spec => []ResponsesComplete
<1>1. LInv => ResponsesComplete
  <2> SUFFICES ASSUME LInv, NEW t \in Threads, result[t] = "eof" PROVE accepted <= taken
      BY DEF ResponsesComplete
  <2>1. shape = "bidi" => responded = taken
    BY DEF LInv, Told
  <2>2. QED BY <2>1 DEF LInv, Accepted, TypeOK
<1>2. QED BY <1>1, StreamInvariantHolds, PTL

(* After a successful Finish or Cancel nothing is handed over any more.    *)
THEOREM TerminalMeansOverHolds == Spec => TerminalMeansOver
<1> DEFINE Over == \E t \in Threads : op[t] \in {"finish", "cancel"} /\ pc[t] = "idle" /\ result[t] = "ok"
           Quiet == Over => UNCHANGED <<received, responded, completed>>
<1>1. LInv /\ [Next]_vars => [Quiet]_vars
  <2> SUFFICES ASSUME LInv, [Next]_vars, Over PROVE UNCHANGED <<received, responded, completed>>
      BY DEF Quiet
  <2>1. server = "returned"
    BY DEF LInv, Told, ServerShape
  <2>2. ~ServerStep
    BY <2>1 DEF ServerStep, ServerRecv, ServerRecvLook, ServerRecvRequest, ServerRecvEOF,
       ServerRecvCanceled, ServerSend, ServerSendOffer, ServerSendAcknowledged, ServerSendFails, Complete
  <2>3. CASE UNCHANGED vars
    BY <2>3 DEF vars, channelVars, controlVars
  <2>4. CASE Next
    BY <2>2, <2>4, ClientEffect DEF Next
  <2>5. QED BY <2>3, <2>4
<1>2. QED BY <1>1, StreamInvariantHolds, PTL DEF Spec, TerminalMeansOver, Quiet, Over

-----------------------------------------------------------------------------
(* What a thread has asked for by the time it waits for the handler.       *)
Asked(t) ==
  /\ pc[t] \in {"request", "finish"} => HasRequests /\ sendDone
  /\ pc[t] = "finish" /\ shape = "bidi" => finishRequested
  /\ pc[t] = "cancel" => canceled

(* Nothing that was asked for is taken back.                               *)
LEMMA NothingTakenBack ==
  ASSUME LInv, [Next]_vars
  PROVE  /\ shape' = shape
         /\ sendDone => sendDone'
         /\ finishRequested => finishRequested'
         /\ canceled => canceled'
<1>1. CASE UNCHANGED vars
  BY <1>1 DEF vars, controlVars
<1>2. CASE ServerStep
  BY <1>2 DEF ServerStep, ServerRecv, ServerRecvLook, ServerRecvRequest, ServerRecvEOF,
     ServerRecvCanceled, ServerSend, ServerSendOffer, ServerSendAcknowledged, ServerSendFails,
     Complete, controlVars
<1>3. ASSUME NEW t \in Threads,
             \/ Send(t) \/ SendRefused(t) \/ Recv(t) \/ CloseSend(t) \/ Finish(t) \/ Cancel(t)
             \/ CallStep(t)
      PROVE  /\ shape' = shape
             /\ sendDone => sendDone'
             /\ finishRequested => finishRequested'
             /\ canceled => canceled'
  BY <1>3 DEF CallStep, Send, SendRefused, Recv, CloseSend, Finish, Cancel, SendOffer, SendGivesUp,
     SendConfirmed, SendAborted, SendOutlived, RecvResponse, RecvCanceled, RecvEnd, FinishRequest,
     FinishReturns, FinishAborted, CancelReturns, CancelGivesUp, LeftBehind, controlVars
<1>4. QED BY <1>1, <1>2, <1>3 DEF Next

LEMMA AskedStep ==
  ASSUME LInv, \A t \in Threads : Asked(t), [Next]_vars
  PROVE  \A t \in Threads : Asked(t)'
<1>1. ASSUME NEW u \in Threads, pc'[u] = pc[u] PROVE Asked(u)'
  BY <1>1, NothingTakenBack DEF Asked, HasRequests
<1>2. ASSUME NEW t \in Threads,
             \/ Send(t) \/ SendRefused(t) \/ Recv(t) \/ CloseSend(t) \/ Finish(t) \/ Cancel(t)
             \/ CallStep(t)
      PROVE  \A u \in Threads : Asked(u)'
  <2>1. Asked(t)'
    <3> USE DEF LInv, TypeOK, channelVars, controlVars, clientVars, serverVars, Enter, Return,
                Asked, HasRequests, HasResponses
    <3>1. CASE Send(t) \/ SendRefused(t) \/ Recv(t)
      BY <3>1 DEF Send, SendRefused, Recv, Take
    <3>2. CASE CloseSend(t) \/ Finish(t) \/ Cancel(t)
      BY <3>2 DEF CloseSend, Finish, Cancel
    <3>3. CASE FinishRequest(t)
      BY <3>3 DEF FinishRequest
    <3>4. CASE CallStep(t) /\ ~FinishRequest(t)
      <4>1. pc'[t] \in {"idle", "ack"}
        BY <3>4 DEF CallStep, SendOffer, SendGivesUp, SendConfirmed, SendAborted, SendOutlived,
           LeftBehind, RecvResponse, RecvCanceled, RecvEnd, FinishReturns, FinishAborted, CancelReturns,
           CancelGivesUp, Take
      <4>2. QED BY <4>1
    <3>5. QED BY <1>2, <3>1, <3>2, <3>3, <3>4
  <2>2. \A u \in Threads \ {t} : pc'[u] = pc[u]
    BY <1>2, ClientEffect
  <2>3. QED BY <1>1, <2>1, <2>2
<1>3. CASE ServerStep
  <2>1. pc' = pc
    BY <1>3 DEF ServerStep, ServerRecv, ServerRecvLook, ServerRecvRequest, ServerRecvEOF,
       ServerRecvCanceled, ServerSend, ServerSendOffer, ServerSendAcknowledged, ServerSendFails,
       Complete, clientVars
  <2>2. QED BY <1>1, <2>1
<1>4. CASE UNCHANGED vars
  BY <1>1, <1>4 DEF vars, clientVars
<1>5. QED BY <1>2, <1>3, <1>4 DEF Next

(* Once a client waits in a Finish or a Cancel, no call of the endpoint    *)
(* holds the handler back.                                                 *)
THEOREM EndWakesHandlerHolds == Spec => []EndWakesHandler
<1>1. Init => \A t \in Threads : Asked(t)
  BY DEF Init, Asked
<1>2. LInv /\ (\A t \in Threads : Asked(t)) /\ [Next]_vars => (\A t \in Threads : Asked(t))'
  BY AskedStep
<1>3. LInv /\ (\A t \in Threads : Asked(t)) => EndWakesHandler
  BY DEF LInv, TypeOK, ServerShape, Asked, EndWakesHandler, HasRequests, HasResponses
<1>4. QED BY <1>1, <1>2, <1>3, StreamInvariantHolds, PTL DEF Spec

=============================================================================
