---------------------------- MODULE ServerBridge ----------------------------
(***************************************************************************)
(* The generated server method of a streaming method that C implements:    *)
(* it starts a C stream, passes the requests of its in-process endpoint to *)
(* C's Send, asks C's Recv for responses that it forwards, and ends the C  *)
(* stream with Finish or Cancel.  A client stream has one loop that sends, *)
(* a server stream one that receives, a bidi stream both: the message      *)
(* adapter gives each a goroutine and collects their results, the native   *)
(* one receives in the method itself.                                      *)
(*                                                                         *)
(* The C callbacks but Recv return promptly and are one action; Recv may   *)
(* take for ever.  One client thread uses the endpoint, whose Send returns *)
(* once its request is received, and which closes or finishes between      *)
(* Sends; a cancellation may come at any time.                             *)
(***************************************************************************)
EXTENDS Naturals

CONSTANTS
  Bridges,                     \* the kinds of bridge considered
  MaxRequests, MaxResponses    \* bounds on what the client and C send

ASSUME BridgeAssumption ==
  /\ Bridges \subseteq {"client", "server", "bidiMessage", "bidiNative"}
  /\ MaxRequests \in Nat /\ MaxResponses \in Nat

Actors == {"sender", "reader", "main"}

VARIABLES
  bridge,
  requested, received,                   \* requests of the client, and taken by the bridge
  responded, taken,                      \* responses in the endpoint, and taken by the client
  sendDone, finishRequested, canceled,   \* what the client asked the endpoint for
  passed, produced, forwarded,           \* C's Sends and responses, and those forwarded
  opened, finishes, cancels,             \* C's Start succeeded; calls of its Finish and Cancel
  recv,                                  \* C's Recv: "none", "running", or its answer
  bridgeCanceled,                        \* bridgeCtx of the message adapter
  collected,                             \* the results taken out of errs
  pc, result                             \* of every goroutine

clientVars == <<requested, taken, sendDone, finishRequested, canceled>>
requestVars == <<received, passed>>
responseVars == <<responded, produced, forwarded, recv>>
endVars == <<opened, finishes, cancels>>
mainVars == <<bridgeCanceled, collected>>
vars == <<bridge, clientVars, requestVars, responseVars, endVars, mainVars, pc, result>>

HasRequests == bridge # "server"
HasResponses == bridge # "client"
Bidi == bridge \in {"bidiMessage", "bidiNative"}

TypeOK ==
  /\ bridge \in {"client", "server", "bidiMessage", "bidiNative"}
  /\ requested \in 0 .. MaxRequests
  /\ passed \in 0 .. received /\ received \in 0 .. requested
  /\ produced \in 0 .. MaxResponses
  /\ taken \in 0 .. responded /\ forwarded \in 0 .. responded /\ responded \in 0 .. produced
  /\ sendDone \in BOOLEAN /\ finishRequested \in BOOLEAN /\ canceled \in BOOLEAN
  /\ opened \in BOOLEAN /\ finishes \in Nat /\ cancels \in Nat
  /\ recv \in {"none", "running", "response", "eof", "error"}
  /\ bridgeCanceled \in BOOLEAN
  /\ collected \subseteq {"sender", "reader"}
  /\ pc \in [Actors ->
       {"start", "off", "recv", "select", "send", "closeSend", "await", "awaiting", "forward", "offer", "ack",
        "join", "finish", "stopFinish", "cancel", "stopCancel", "joinOk", "joinError",
        "collect", "over"}]
  /\ result \in [Actors -> {"none", "ok", "error"}]

Init ==
  /\ bridge \in Bridges
  /\ requested = 0 /\ received = 0 /\ responded = 0 /\ taken = 0
  /\ sendDone = FALSE /\ finishRequested = FALSE /\ canceled = FALSE
  /\ passed = 0 /\ produced = 0 /\ forwarded = 0
  /\ opened = FALSE /\ finishes = 0 /\ cancels = 0
  /\ recv = "none"
  /\ bridgeCanceled = FALSE /\ collected = {}
  /\ pc = [a \in Actors |-> IF a = "main" THEN "start" ELSE "off"]
  /\ result = [a \in Actors |-> "none"]

(* What the method returned. *)
Outcome ==
  result[CASE bridge = "client" -> "sender"
           [] bridge = "bidiMessage" -> "main"
           [] OTHER -> "reader"]

Goto(a, step) == pc' = [pc EXCEPT ![a] = step] /\ UNCHANGED result
Over(a, r) == pc' = [pc EXCEPT ![a] = "over"] /\ result' = [result EXCEPT ![a] = r]

(* The context the loops use. *)
ContextDone == canceled \/ (bridge = "bidiMessage" /\ bridgeCanceled)

-----------------------------------------------------------------------------
(***************************************************************************)
(* The client's side of the endpoint (LocalStream has the whole of it).    *)
(***************************************************************************)
ClientSend ==
  /\ HasRequests /\ ~sendDone /\ ~canceled /\ Outcome = "none"
  /\ requested = received /\ requested < MaxRequests
  /\ requested' = requested + 1
  /\ UNCHANGED <<bridge, taken, sendDone, finishRequested, canceled, requestVars, responseVars, endVars, mainVars, pc, result>>

(* CloseSend, or the Finish of a client stream. *)
ClientCloses ==
  /\ HasRequests /\ ~sendDone /\ requested = received
  /\ sendDone' = TRUE
  /\ UNCHANGED <<bridge, requested, taken, finishRequested, canceled, requestVars, responseVars, endVars, mainVars, pc, result>>

ClientFinishes ==
  /\ Bidi /\ ~finishRequested /\ requested = received
  /\ sendDone' = TRUE /\ finishRequested' = TRUE
  /\ UNCHANGED <<bridge, requested, taken, canceled, requestVars, responseVars, endVars, mainVars, pc, result>>

ClientCancels ==
  /\ ~canceled
  /\ canceled' = TRUE
  /\ UNCHANGED <<bridge, requested, taken, sendDone, finishRequested, requestVars, responseVars, endVars, mainVars, pc, result>>

ClientTakes ==
  /\ taken < responded
  /\ taken' = taken + 1
  /\ UNCHANGED <<bridge, requested, sendDone, finishRequested, canceled, requestVars, responseVars, endVars, mainVars, pc, result>>

-----------------------------------------------------------------------------
(***************************************************************************)
(* Start, and the calls that end the C stream.                             *)
(***************************************************************************)
(* The callbacks are missing or C's Start fails. *)
StartFails ==
  /\ pc["main"] = "start"
  /\ pc' = [a \in Actors |-> "over"]
  /\ result' = [a \in Actors |-> "error"]
  /\ UNCHANGED <<bridge, clientVars, requestVars, responseVars, endVars, mainVars>>

Start ==
  /\ pc["main"] = "start"
  /\ pc' = [sender |-> IF HasRequests THEN "recv" ELSE "off",
            reader |-> IF HasResponses THEN "await" ELSE "off",
            main   |-> IF bridge = "bidiMessage" THEN "collect" ELSE "over"]
  /\ opened' = TRUE
  /\ UNCHANGED <<bridge, clientVars, requestVars, responseVars, finishes, cancels, mainVars, result>>

(* A native bidi method that was stopped waits for its sender at the end. *)
Ended(a, r) ==
  IF bridge = "bidiNative" /\ pc[a] \in {"stopFinish", "stopCancel"}
    THEN Goto(a, IF r = "ok" THEN "joinOk" ELSE "joinError")
    ELSE Over(a, r)

Finish(a) ==
  /\ pc[a] \in {"finish", "stopFinish"}
  /\ finishes' = finishes + 1
  /\ \E r \in {"ok", "error"} : Ended(a, r)
  /\ UNCHANGED <<bridge, clientVars, requestVars, responseVars, opened, cancels, mainVars>>

(* cancelSession of the message adapter calls Cancel once. *)
CancelThenLoop(a) ==
  /\ pc[a] \in {"cancel", "stopCancel"} /\ a # "main"
  /\ cancels' = IF bridge = "bidiMessage" /\ cancels > 0 THEN cancels ELSE cancels + 1
  /\ IF bridge = "client" THEN Goto(a, "recv") ELSE Ended(a, "error")
  /\ UNCHANGED <<bridge, clientVars, requestVars, responseVars, opened, finishes, mainVars>>
Cancel(a) ==
  /\ pc[a] \in {"cancel", "stopCancel"} /\ a # "main"
  /\ cancels' = IF bridge = "bidiMessage" /\ cancels > 0 THEN cancels ELSE cancels + 1
  /\ Ended(a, "error")
  /\ UNCHANGED <<bridge, clientVars, requestVars, responseVars, opened, finishes, mainVars>>

-----------------------------------------------------------------------------
(***************************************************************************)
(* The sending loop.                                                       *)
(***************************************************************************)
(* The endpoint's Recv: a look at the requests, on a bidi stream also at   *)
(* sendDone, then a select.                                                *)
RecvWaits ==
  /\ pc["sender"] = "recv"
  /\ received = requested /\ ~(Bidi /\ sendDone)
  /\ Goto("sender", "select")
  /\ UNCHANGED <<bridge, clientVars, requestVars, responseVars, endVars, mainVars>>

RecvRequest ==
  /\ pc["sender"] \in {"recv", "select"}
  /\ received < requested
  /\ received' = received + 1
  /\ Goto("sender", "send")
  /\ UNCHANGED <<bridge, clientVars, passed, responseVars, endVars, mainVars>>

RecvEOF ==
  /\ pc["sender"] = "select" \/ (Bidi /\ pc["sender"] = "recv")
  /\ sendDone /\ received = requested
  /\ Goto("sender", IF bridge = "client" THEN "finish" ELSE "closeSend")
  /\ UNCHANGED <<bridge, clientVars, requestVars, responseVars, endVars, mainVars>>

SenderFails ==
  IF bridge = "client" THEN Goto("sender", "cancel") ELSE Over("sender", "error")

RecvCanceled ==
  /\ pc["sender"] = "select"
  /\ ContextDone /\ (bridge = "client" => ~sendDone)
  /\ SenderFails
  /\ UNCHANGED <<bridge, clientVars, requestVars, responseVars, endVars, mainVars>>

Send ==
  /\ pc["sender"] = "send"
  /\ passed' = passed + 1
  /\ Goto("sender", "recv")
  /\ UNCHANGED <<bridge, clientVars, received, responseVars, endVars, mainVars>>

SendFailsUnnoticed ==
  /\ pc["sender"] = "send"
  /\ Goto("sender", "recv")
  /\ UNCHANGED <<bridge, clientVars, requestVars, responseVars, endVars, mainVars>>
SendFails ==
  /\ pc["sender"] = "send"
  /\ SenderFails
  /\ UNCHANGED <<bridge, clientVars, requestVars, responseVars, endVars, mainVars>>

CloseSend ==
  /\ pc["sender"] = "closeSend"
  /\ \E r \in {"ok", "error"} : Over("sender", r)
  /\ UNCHANGED <<bridge, clientVars, requestVars, responseVars, endVars, mainVars>>

-----------------------------------------------------------------------------
(***************************************************************************)
(* The receiving loop: AwaitCGOMessageRecv, AwaitCGONativeRecv.            *)
(***************************************************************************)
StopForFinish ==
  /\ pc["reader"] \in {"await", "awaiting"}
  /\ finishRequested
  /\ Goto("reader", "stopFinish")
  /\ UNCHANGED <<bridge, clientVars, requestVars, responseVars, endVars, mainVars>>

StopForCancelFirst ==
  /\ pc["reader"] = "await"
  /\ ContextDone
  /\ Goto("reader", "stopCancel")
  /\ UNCHANGED <<bridge, clientVars, requestVars, responseVars, endVars, mainVars>>
StopForCancel ==
  /\ pc["reader"] \in {"await", "awaiting"}
  /\ ContextDone
  /\ Goto("reader", "stopCancel")
  /\ UNCHANGED <<bridge, clientVars, requestVars, responseVars, endVars, mainVars>>

BeginRecv ==
  /\ pc["reader"] = "await"
  /\ ~finishRequested /\ ~ContextDone
  /\ recv' = "running"
  /\ Goto("reader", "awaiting")
  /\ UNCHANGED <<bridge, clientVars, requestVars, responded, produced, forwarded, endVars, mainVars>>

RecvReturns ==
  /\ recv = "running"
  /\ \/ produced < MaxResponses /\ produced' = produced + 1 /\ recv' = "response"
     \/ recv' \in {"eof", "error"} /\ UNCHANGED produced
  /\ UNCHANGED <<bridge, clientVars, requestVars, responded, forwarded, endVars, mainVars, pc, result>>

AwaitResponse ==
  /\ pc["reader"] = "awaiting" /\ recv = "response"
  /\ Goto("reader", "forward")
  /\ UNCHANGED <<bridge, clientVars, requestVars, responseVars, endVars, mainVars>>

(* The responses are over: a native bidi method waits for its sender. *)
ResponsesOver == Goto("reader", IF bridge = "bidiNative" THEN "join" ELSE "finish")

AwaitEOFReturning ==
  /\ pc["reader"] = "awaiting" /\ recv = "eof"
  /\ Over("reader", "ok")
  /\ UNCHANGED <<bridge, clientVars, requestVars, responseVars, endVars, mainVars>>
AwaitEOF ==
  /\ pc["reader"] = "awaiting" /\ recv = "eof"
  /\ ResponsesOver
  /\ UNCHANGED <<bridge, clientVars, requestVars, responseVars, endVars, mainVars>>

ReaderFails ==
  IF bridge = "bidiMessage" THEN Over("reader", "error") ELSE Goto("reader", "cancel")

AwaitError ==
  /\ pc["reader"] = "awaiting" /\ recv = "error"
  /\ ReaderFails
  /\ UNCHANGED <<bridge, clientVars, requestVars, responseVars, endVars, mainVars>>

(* The endpoint's Send: a look at the finish, then a select. *)
Forward ==
  /\ pc["reader"] = "forward" /\ ~finishRequested
  /\ Goto("reader", "offer")
  /\ UNCHANGED <<bridge, clientVars, requestVars, responseVars, endVars, mainVars>>

ForwardFinished ==
  /\ pc["reader"] \in {"forward", "offer", "ack"} /\ finishRequested
  /\ ResponsesOver
  /\ UNCHANGED <<bridge, clientVars, requestVars, responseVars, endVars, mainVars>>

ForwardFails ==
  /\ pc["reader"] \in {"offer", "ack"} /\ ContextDone
  /\ ReaderFails
  /\ UNCHANGED <<bridge, clientVars, requestVars, responseVars, endVars, mainVars>>

(* On a server stream Send waits until the client has the response. *)
Offer ==
  /\ pc["reader"] = "offer" /\ responded = taken
  /\ responded' = responded + 1
  /\ IF Bidi
       THEN forwarded' = forwarded + 1 /\ Goto("reader", "await")
       ELSE Goto("reader", "ack") /\ UNCHANGED forwarded
  /\ UNCHANGED <<bridge, clientVars, requestVars, produced, recv, endVars, mainVars>>

Acknowledged ==
  /\ pc["reader"] = "ack" /\ taken = responded
  /\ forwarded' = forwarded + 1
  /\ Goto("reader", "await")
  /\ UNCHANGED <<bridge, clientVars, requestVars, responded, produced, recv, endVars, mainVars>>

-----------------------------------------------------------------------------
(* The native bidi method takes its sender's result, before Finish ... *)
Join ==
  /\ pc["reader"] = "join" /\ result["sender"] # "none"
  /\ Goto("reader", IF result["sender"] = "ok" THEN "finish" ELSE "cancel")
  /\ UNCHANGED <<bridge, clientVars, requestVars, responseVars, endVars, mainVars>>

(* ... or, when it was stopped, after it. *)
JoinLast ==
  /\ pc["reader"] \in {"joinOk", "joinError"} /\ result["sender"] # "none"
  /\ Over("reader", IF pc["reader"] = "joinOk" THEN result["sender"] ELSE "error")
  /\ UNCHANGED <<bridge, clientVars, requestVars, responseVars, endVars, mainVars>>

(* The message bidi method collects two results. *)
Collect(a) ==
  /\ pc["main"] = "collect"
  /\ a \notin collected /\ result[a] # "none"
  /\ collected' = collected \cup {a}
  /\ Goto("main", IF result[a] = "error" /\ ~\E b \in collected : result[b] = "error"
                    THEN "cancel" ELSE "collect")
  /\ UNCHANGED <<bridge, clientVars, requestVars, responseVars, endVars, bridgeCanceled>>

(* The first error: cancelSession, cancelBridge. *)
CancelBridgeNot ==
  /\ pc["main"] = "cancel"
  /\ cancels' = IF cancels > 0 THEN cancels ELSE cancels + 1
  /\ Goto("main", "collect")
  /\ UNCHANGED <<bridge, clientVars, requestVars, responseVars, opened, finishes, mainVars>>
CancelBridge ==
  /\ pc["main"] = "cancel"
  /\ cancels' = IF cancels > 0 THEN cancels ELSE cancels + 1
  /\ bridgeCanceled' = TRUE
  /\ Goto("main", "collect")
  /\ UNCHANGED <<bridge, clientVars, requestVars, responseVars, opened, finishes, collected>>

Return ==
  /\ pc["main"] = "collect" /\ collected = {"sender", "reader"}
  /\ Over("main", IF \E a \in collected : result[a] = "error" THEN "error" ELSE "ok")
  /\ UNCHANGED <<bridge, clientVars, requestVars, responseVars, endVars, mainVars>>

-----------------------------------------------------------------------------
SenderStep ==
  RecvWaits \/ RecvRequest \/ RecvEOF \/ RecvCanceled \/ Send \/ SendFails \/ CloseSend
    \/ Finish("sender") \/ Cancel("sender")

ReaderStep ==
  \/ StopForFinish \/ StopForCancel \/ BeginRecv
  \/ AwaitResponse \/ AwaitEOF \/ AwaitError
  \/ Forward \/ ForwardFinished \/ ForwardFails \/ Offer \/ Acknowledged
  \/ Join \/ JoinLast \/ Finish("reader") \/ Cancel("reader")

MainStep ==
  Start \/ StartFails \/ CancelBridge \/ Return \/ \E a \in {"sender", "reader"} : Collect(a)

Next ==
  \/ ClientSend \/ ClientCloses \/ ClientFinishes \/ ClientCancels \/ ClientTakes
  \/ SenderStep \/ ReaderStep \/ MainStep \/ RecvReturns

Spec == Init /\ [][Next]_vars

(* Every goroutine is run; nothing is promised of C's Recv or the client. *)
FairSpec == Spec /\ WF_vars(SenderStep) /\ WF_vars(ReaderStep) /\ WF_vars(MainStep)

-----------------------------------------------------------------------------
(* When the method returns, a C stream that was started has been ended, by *)
(* Finish or by Cancel, so that C can clean up; and C is not told twice:   *)
(* only the bidi message adapter may cancel a stream it has finished.      *)
EndedOnReturn ==
  /\ opened /\ Outcome # "none" => finishes + cancels > 0
  /\ finishes <= 1 /\ cancels <= 1
  /\ bridge # "bidiMessage" => finishes + cancels <= 1

(* A stream with one loop is not used after its end: no Send and no Recv   *)
(* begins once Finish or Cancel has been called.                           *)
NothingAfterEnd ==
  [][~Bidi /\ finishes + cancels > 0
       => UNCHANGED <<received, passed>> /\ (recv' = "running" => recv = "running")]_vars

(* Success means that every request the client sent was accepted by C, and *)
(* that every response of C was forwarded, unless the client finished.     *)
SuccessIsComplete ==
  Outcome = "ok" =>
    /\ HasRequests => sendDone /\ passed = requested
    /\ HasResponses /\ ~finishRequested => forwarded = produced

(* "waits for a blocking ... Recv callback while allowing Finish or Cancel *)
(* to interrupt the wait": once the client finishes or cancels, the method *)
(* returns and its sender ends, whether or not C's Recv ever does.         *)
EndInterrupts ==
  (canceled \/ finishRequested \/ (bridge = "client" /\ sendDone))
    ~> Outcome # "none" /\ (HasRequests => result["sender"] # "none")

(* A Send or CloseSend that C refuses ends a bidi stream of the message    *)
(* adapter, even while C's Recv is blocked.                                *)
SendFailureEnds ==
  bridge = "bidiMessage" /\ result["sender"] = "error" ~> Outcome # "none"

(* What the goroutines of the method can do on their own, while C's Recv   *)
(* is blocked and the client does nothing more.                            *)
CanGo(a) ==
  CASE a = "sender" ->
         \/ pc[a] \in {"recv", "send", "closeSend", "finish", "cancel"}
         \/ pc[a] = "select" /\ (received < requested \/ sendDone \/ ContextDone)
    [] a = "reader" ->
         \/ pc[a] \in {"await", "forward", "finish", "stopFinish", "cancel", "stopCancel"}
         \/ /\ pc[a] = "awaiting"
            /\ recv \in {"response", "eof", "error"} \/ finishRequested \/ ContextDone
         \/ /\ pc[a] \in {"offer", "ack"}
            /\ responded = taken \/ finishRequested \/ ContextDone
         \/ pc[a] \in {"join", "joinOk", "joinError"} /\ result["sender"] # "none"
    [] a = "main" ->
         \/ pc[a] \in {"start", "cancel"}
         \/ /\ pc[a] = "collect"
            /\ \A b \in {"sender", "reader"} \ collected :
                 \E c \in {"sender", "reader"} \ collected : result[c] # "none"

(* Nobody waits on everybody: as long as a method that was told to end has *)
(* not returned, or its sender has not, one of its goroutines can go on.   *)
ToldToEnd == canceled \/ finishRequested \/ (bridge = "client" /\ sendDone)
Unfinished == Outcome = "none" \/ (HasRequests /\ result["sender"] = "none")
NobodyStuck ==
  /\ ToldToEnd /\ Unfinished => \E a \in Actors : CanGo(a)
  /\ bridge = "bidiMessage" /\ result["sender"] = "error" /\ Outcome = "none"
       => \E a \in Actors : CanGo(a)

=============================================================================
