----------------------------- MODULE LocalStream -----------------------------
(***************************************************************************)
(* An in-process streaming call: the client and the server endpoint of     *)
(* local_stream.go and the state they share.  Any number of client threads *)
(* use the client endpoint; one server handler uses the other.             *)
(*                                                                         *)
(* A select of the code is one action per case that may be ready: the      *)
(* runtime picks any of them.  A buffered channel of items that are        *)
(* numbered as they are put in is two counters, and closing the channel    *)
(* `received' of an item is moving the second counter past it.             *)
(***************************************************************************)
EXTENDS Naturals, FiniteSets

CONSTANTS
  Threads,                        \* client threads
  Receivers,                      \* those that only receive on a bidi stream, and go on
  Impatient,                      \* those whose calls may run into a deadline
  Shapes,                         \* the shapes of stream considered
  RequestBuffer, ResponseBuffer,  \* LocalStreamOptions
  MaxRequests, MaxResponses       \* bounds on the items put into the channels

ASSUME StreamAssumption ==
  /\ Receivers \subseteq Threads /\ Impatient \subseteq Threads
  /\ Shapes \subseteq {"client", "server", "bidi"}
  /\ RequestBuffer \in Nat \ {0} /\ ResponseBuffer \in Nat \ {0}
  /\ MaxRequests \in Nat /\ MaxResponses \in Nat

VARIABLES
  shape,                 \* of the stream: "client", "server" or "bidi"
  requested, received,   \* requests put into their channel, and taken from it
  responded, taken,      \* responses put into their channel, and taken from it
  sendDone,              \* the client closed the request side
  canceled,              \* the stream's context is done
  finishRequested,
  completed,             \* "no", or how the handler returned: "ok", "failed"
  pc, op, item, result,  \* of every thread: its call, and what the last returned
  confirmed, lost,       \* requests whose Send returned nil; those it reported as
                         \* left behind by the handler
  server, reply,         \* the handler: where it is, what its last call returned
  accepted               \* the last response whose Send returned nil

channelVars == <<requested, received, responded, taken>>
controlVars == <<shape, sendDone, canceled, finishRequested, completed>>
reportVars == <<confirmed, lost>>
clientVars == <<pc, op, item, result, reportVars>>
serverVars == <<server, reply, accepted>>
vars == <<channelVars, controlVars, clientVars, serverVars>>

TypeOK ==
  /\ shape \in {"client", "server", "bidi"}
  /\ requested \in Nat /\ received \in 0 .. requested
  /\ responded \in Nat /\ taken \in 0 .. responded
  /\ sendDone \in BOOLEAN /\ canceled \in BOOLEAN /\ finishRequested \in BOOLEAN
  /\ completed \in {"no", "ok", "failed"}
  /\ pc \in [Threads -> {"idle", "offer", "ack", "recv", "request", "finish", "cancel"}]
  /\ op \in [Threads -> {"none", "send", "recv", "closeSend", "finish", "cancel"}]
  /\ item \in [Threads -> Nat]
  /\ result \in [Threads -> {"none", "ok", "error", "eof"}]
  /\ confirmed \subseteq Nat /\ lost \subseteq Nat
  /\ server \in {"running", "recvDone", "recv", "offer", "ack", "returned"}
  /\ reply \in {"none", "ok", "error", "eof"}
  /\ accepted \in Nat

Init ==
  /\ shape \in Shapes
  /\ requested = 0 /\ received = 0 /\ responded = 0 /\ taken = 0
  /\ sendDone = FALSE /\ canceled = FALSE /\ finishRequested = FALSE
  /\ completed = "no"
  /\ pc = [t \in Threads |-> "idle"]
  /\ op = [t \in Threads |-> "none"]
  /\ item = [t \in Threads |-> 0]
  /\ result = [t \in Threads |-> "none"]
  /\ confirmed = {} /\ lost = {}
  /\ server = "running" /\ reply = "none" /\ accepted = 0

HasRequests == shape \in {"client", "bidi"}
HasResponses == shape \in {"server", "bidi"}

queuedRequests == requested - received
queuedResponses == responded - taken

-----------------------------------------------------------------------------
(***************************************************************************)
(* The client endpoint.                                                    *)
(***************************************************************************)
Receives(t) == shape = "bidi" /\ t \in Receivers

Enter(t, o, to) ==
  /\ pc[t] = "idle"
  /\ Receives(t) => o = "recv"
  /\ op' = [op EXCEPT ![t] = o]
  /\ pc' = [pc EXCEPT ![t] = to]

Return(t, r) ==
  /\ pc' = [pc EXCEPT ![t] = "idle"]
  /\ result' = [result EXCEPT ![t] = r]

(* Done of the stream's context, or of the one the call was made with. *)
ContextDone(t) == canceled \/ t \in Impatient

(* Send fails at once when the request side is closed. *)
Send(t) ==
  /\ HasRequests
  /\ ~sendDone
  /\ requested + Cardinality({u \in Threads : pc[u] = "offer"}) < MaxRequests
  /\ Enter(t, "send", "offer")
  /\ UNCHANGED <<channelVars, controlVars, item, result, reportVars, serverVars>>

SendRefused(t) ==
  /\ HasRequests
  /\ sendDone
  /\ Enter(t, "send", "idle")
  /\ result' = [result EXCEPT ![t] = "error"]
  /\ UNCHANGED <<channelVars, controlVars, item, reportVars, serverVars>>

SendOffer(t) ==
  /\ pc[t] = "offer"
  /\ queuedRequests < RequestBuffer
  /\ requested' = requested + 1
  /\ item' = [item EXCEPT ![t] = requested + 1]
  /\ pc' = [pc EXCEPT ![t] = "ack"]
  /\ UNCHANGED <<received, responded, taken, controlVars, op, result, reportVars, serverVars>>

SendGivesUp(t) ==
  /\ pc[t] = "offer"
  /\ ContextDone(t) \/ sendDone \/ completed # "no"
  /\ Return(t, "error")
  /\ UNCHANGED <<channelVars, controlVars, op, item, reportVars, serverVars>>

SendConfirmed(t) ==
  /\ pc[t] = "ack"
  /\ item[t] <= received
  /\ Return(t, "ok")
  /\ confirmed' = confirmed \cup {item[t]}
  /\ UNCHANGED <<channelVars, controlVars, op, item, lost, serverVars>>

(* The request is in the channel, but nobody said that he took it. *)
SendAborted(t) ==
  /\ pc[t] = "ack"
  /\ ContextDone(t) \/ sendDone
  /\ Return(t, "error")
  /\ UNCHANGED <<channelVars, controlVars, op, item, reportVars, serverVars>>

(* The handler returned first: Send looks whether the request was taken    *)
(* nevertheless.  If not, that is no error on a bidi stream, unless the    *)
(* handler's is.                                                           *)
Unanswered == IF shape = "bidi" /\ completed = "ok" THEN "ok" ELSE "error"

LeftBehind(t) ==
  /\ Return(t, Unanswered)
  /\ confirmed' = IF Unanswered = "ok" THEN confirmed \cup {item[t]} ELSE confirmed
  /\ lost' = IF Unanswered = "ok" THEN lost ELSE lost \cup {item[t]}
  /\ UNCHANGED <<channelVars, controlVars, op, item, serverVars>>

SendOutlivedWithoutLooking(t) ==
  /\ pc[t] = "ack"
  /\ completed # "no"
  /\ LeftBehind(t)
SendOutlived(t) ==
  /\ pc[t] = "ack"
  /\ completed # "no"
  /\ item[t] > received
  /\ LeftBehind(t)

Take(t) ==
  /\ queuedResponses > 0
  /\ taken' = taken + 1
  /\ Return(t, "ok")
  /\ UNCHANGED <<requested, received, responded>>

(* A bidi stream's Recv looks for a response before it looks at the rest. *)
Recv(t) ==
  /\ HasResponses
  /\ pc[t] = "idle"
  /\ op' = [op EXCEPT ![t] = "recv"]
  /\ IF shape = "bidi" /\ queuedResponses > 0
       THEN Take(t)
       ELSE pc' = [pc EXCEPT ![t] = "recv"] /\ UNCHANGED <<channelVars, result>>
  /\ UNCHANGED <<controlVars, item, reportVars, serverVars>>

RecvResponse(t) ==
  /\ pc[t] = "recv"
  /\ Take(t)
  /\ UNCHANGED <<controlVars, op, item, reportVars, serverVars>>

RecvCanceled(t) ==
  /\ pc[t] = "recv"
  /\ ContextDone(t)
  /\ Return(t, "error")
  /\ UNCHANGED <<channelVars, controlVars, op, item, reportVars, serverVars>>

(* The handler returned: a bidi stream's Recv looks for a response again. *)
RecvEndWithoutLooking(t) ==
  /\ pc[t] = "recv"
  /\ completed # "no"
  /\ Return(t, IF completed = "ok" THEN "eof" ELSE "error")
  /\ UNCHANGED <<channelVars, controlVars, op, item, reportVars, serverVars>>
RecvEnd(t) ==
  /\ pc[t] = "recv"
  /\ completed # "no"
  /\ shape = "bidi" => queuedResponses = 0
  /\ Return(t, IF completed = "ok" THEN "eof" ELSE "error")
  /\ UNCHANGED <<channelVars, controlVars, op, item, reportVars, serverVars>>

(* What CloseSend then reports is a look at the stream that waits for nothing. *)
CloseSend(t) ==
  /\ shape = "bidi"
  /\ Enter(t, "closeSend", "idle")
  /\ sendDone' = TRUE
  /\ result' = [result EXCEPT ![t] = IF canceled \/ completed = "failed" THEN "error" ELSE "ok"]
  /\ UNCHANGED <<channelVars, shape, canceled, finishRequested, completed, item, reportVars, serverVars>>

FinishWithoutClosing(t) ==
  /\ HasRequests
  /\ Enter(t, "finish", IF shape = "bidi" THEN "request" ELSE "finish")
  /\ UNCHANGED <<channelVars, controlVars, item, result, reportVars, serverVars>>
Finish(t) ==
  /\ HasRequests
  /\ Enter(t, "finish", IF shape = "bidi" THEN "request" ELSE "finish")
  /\ sendDone' = TRUE
  /\ UNCHANGED <<channelVars, shape, canceled, finishRequested, completed, item, result, reportVars, serverVars>>

FinishRequest(t) ==
  /\ pc[t] = "request"
  /\ finishRequested' = TRUE
  /\ pc' = [pc EXCEPT ![t] = "finish"]
  /\ UNCHANGED <<channelVars, shape, sendDone, canceled, completed, op, item, result, reportVars, serverVars>>

(* A bidi stream's Finish does not care how the handler returned. *)
FinishReturns(t) ==
  /\ pc[t] = "finish"
  /\ completed # "no"
  /\ canceled' = TRUE
  /\ Return(t, IF shape = "client" /\ completed = "failed" THEN "error" ELSE "ok")
  /\ UNCHANGED <<channelVars, shape, sendDone, finishRequested, completed, op, item, reportVars, serverVars>>

FinishAborted(t) ==
  /\ pc[t] = "finish"
  /\ ContextDone(t)
  /\ canceled' = TRUE
  /\ Return(t, "error")
  /\ UNCHANGED <<channelVars, shape, sendDone, finishRequested, completed, op, item, reportVars, serverVars>>

Cancel(t) ==
  /\ Enter(t, "cancel", "cancel")
  /\ canceled' = TRUE
  /\ UNCHANGED <<channelVars, shape, sendDone, finishRequested, completed, item, result, reportVars, serverVars>>

CancelReturnsEarly(t) ==
  /\ pc[t] = "cancel"
  /\ Return(t, "ok")
  /\ UNCHANGED <<channelVars, controlVars, op, item, reportVars, serverVars>>
CancelReturns(t) ==
  /\ pc[t] = "cancel"
  /\ completed # "no"
  /\ Return(t, "ok")
  /\ UNCHANGED <<channelVars, controlVars, op, item, reportVars, serverVars>>

CancelGivesUp(t) ==
  /\ pc[t] = "cancel"
  /\ t \in Impatient
  /\ Return(t, "error")
  /\ UNCHANGED <<channelVars, controlVars, op, item, reportVars, serverVars>>

-----------------------------------------------------------------------------
(***************************************************************************)
(* The server endpoint.  Its calls are made with the stream's context.     *)
(***************************************************************************)
ServerReturn(r) ==
  /\ server' = "running"
  /\ reply' = r

TakeRequest ==
  /\ queuedRequests > 0
  /\ received' = received + 1
  /\ ServerReturn("ok")
  /\ UNCHANGED <<requested, responded, taken, accepted>>

(* Recv takes a request that is there whatever else happened; a bidi       *)
(* stream's looks at the request side a second time.                       *)
ServerRecv ==
  /\ HasRequests
  /\ server = "running"
  /\ \/ TakeRequest
     \/ /\ queuedRequests = 0
        /\ server' = IF shape = "bidi" THEN "recvDone" ELSE "recv"
        /\ UNCHANGED <<channelVars, reply, accepted>>
  /\ UNCHANGED <<controlVars, clientVars>>

ServerRecvLook ==
  /\ server = "recvDone"
  /\ IF sendDone THEN ServerReturn("eof") ELSE server' = "recv" /\ UNCHANGED reply
  /\ UNCHANGED <<channelVars, controlVars, clientVars, accepted>>

ServerRecvRequest ==
  /\ server = "recv"
  /\ TakeRequest
  /\ UNCHANGED <<controlVars, clientVars>>

ServerRecvEOF ==
  /\ server = "recv"
  /\ sendDone
  /\ ServerReturn("eof")
  /\ UNCHANGED <<channelVars, controlVars, clientVars, accepted>>

(* When the context is done, a client stream's Recv looks once more whether *)
(* the request side was closed; that of a bidi stream does not.             *)
ServerRecvCanceledOnceClosed ==
  /\ server = "recv"
  /\ canceled /\ sendDone
  /\ ServerReturn("eof")
  /\ UNCHANGED <<channelVars, controlVars, clientVars, accepted>>
ServerRecvCanceled ==
  /\ server = "recv"
  /\ canceled
  /\ ServerReturn(IF shape = "client" /\ sendDone THEN "eof" ELSE "error")
  /\ UNCHANGED <<channelVars, controlVars, clientVars, accepted>>

ServerSend ==
  /\ HasResponses
  /\ server = "running"
  /\ responded < MaxResponses
  /\ IF finishRequested THEN ServerReturn("eof") ELSE server' = "offer" /\ UNCHANGED reply
  /\ UNCHANGED <<channelVars, controlVars, clientVars, accepted>>

(* A bidi stream's Send succeeds with a place in the channel, a server     *)
(* stream's only when the client took the response.                        *)
ServerSendOffer ==
  /\ server = "offer"
  /\ queuedResponses < ResponseBuffer
  /\ responded' = responded + 1
  /\ IF shape = "bidi"
       THEN ServerReturn("ok") /\ accepted' = responded + 1
       ELSE server' = "ack" /\ UNCHANGED <<reply, accepted>>
  /\ UNCHANGED <<requested, received, taken, controlVars, clientVars>>

ServerSendAcknowledged ==
  /\ server = "ack"
  /\ responded <= taken
  /\ ServerReturn("ok")
  /\ accepted' = responded
  /\ UNCHANGED <<channelVars, controlVars, clientVars>>

ServerSendFails ==
  /\ server \in {"offer", "ack"}
  /\ canceled \/ finishRequested
  /\ ServerReturn(IF finishRequested THEN "eof" ELSE "error")
  /\ UNCHANGED <<channelVars, controlVars, clientVars, accepted>>

Complete ==
  /\ server = "running"
  /\ server' = "returned"
  /\ completed' \in {"ok", "failed"}
  /\ UNCHANGED <<channelVars, shape, sendDone, canceled, finishRequested, clientVars, reply, accepted>>

-----------------------------------------------------------------------------
CallStep(t) ==
  \/ SendOffer(t) \/ SendGivesUp(t) \/ SendConfirmed(t) \/ SendAborted(t) \/ SendOutlived(t)
  \/ RecvResponse(t) \/ RecvCanceled(t) \/ RecvEnd(t)
  \/ FinishRequest(t) \/ FinishReturns(t) \/ FinishAborted(t)
  \/ CancelReturns(t) \/ CancelGivesUp(t)

ServerStep ==
  \/ ServerRecv \/ ServerRecvLook \/ ServerRecvRequest \/ ServerRecvEOF \/ ServerRecvCanceled
  \/ ServerSend \/ ServerSendOffer \/ ServerSendAcknowledged \/ ServerSendFails
  \/ Complete

Next ==
  \/ \E t \in Threads :
       \/ Send(t) \/ SendRefused(t) \/ Recv(t) \/ CloseSend(t) \/ Finish(t) \/ Cancel(t)
       \/ CallStep(t)
  \/ ServerStep

Spec == Init /\ [][Next]_vars

(***************************************************************************)
(* Every goroutine that can run is run.  The handler is user code: it goes *)
(* on receiving or sending or returns, and one that was told, again and    *)
(* again, that the requests are over or the stream is, returns.  The       *)
(* client threads of Receivers go on receiving.                            *)
(***************************************************************************)
HandlerObeys == (reply = "eof" \/ canceled \/ finishRequested) /\ Complete

FairSpec ==
  /\ Spec
  /\ WF_vars(ServerStep) /\ SF_vars(HandlerObeys)
  /\ \A t \in Threads : WF_vars(CallStep(t))
  /\ \A t \in Receivers : WF_vars(Recv(t))

-----------------------------------------------------------------------------
(* What a client's Send reports of its request is true, although the       *)
(* handler may take it and return before the Send looks: success only when *)
(* the handler received the request, or, on a bidi stream, when it         *)
(* returned successfully without asking for it; and a Send that fails      *)
(* because the handler returned has a request that it never received.      *)
SendTellsTruth ==
  /\ \A r \in confirmed : r <= received \/ (shape = "bidi" /\ completed = "ok")
  /\ \A r \in lost : r > received /\ completed # "no"

(* A client that is told the end of the responses has been given every     *)
(* response whose Send succeeded.                                          *)
ResponsesComplete == (\E t \in Threads : result[t] = "eof") => accepted <= taken

(* Once a Finish or a Cancel has reported success, the handler is done     *)
(* and, however the calls interleave, no request is handed over any more.  *)
TerminalMeansOver ==
  [][(\E t \in Threads : op[t] \in {"finish", "cancel"} /\ pc[t] = "idle" /\ result[t] = "ok")
       => UNCHANGED <<received, responded, completed>>]_vars

(* Every call of a client but a Recv returns.                              *)
CallsReturn ==
  \A t \in Threads : op[t] \in {"send", "finish", "cancel"} ~> pc[t] = "idle"

(* A Finish or a Cancel does not wait for a handler that waits for it: no  *)
(* call of the endpoint holds the handler back, neither a Recv without     *)
(* requests nor a Send without room or without a client that receives.     *)
EndWakesHandler ==
  canceled \/ (\E t \in Threads : pc[t] \in {"finish", "cancel"}) =>
    /\ server = "recv" => queuedRequests > 0 \/ sendDone \/ canceled
    /\ server \in {"offer", "ack"} => finishRequested \/ canceled

(* Once the stream is canceled the handler returns, and so does every      *)
(* call, Recv too.                                                         *)
CancelEndsAll ==
  /\ canceled ~> completed # "no"
  /\ \A t \in Threads : canceled ~> pc[t] = "idle"

=============================================================================
