-------------------------- MODULE ServerBridgeProofs --------------------------
(***************************************************************************)
(* A C stream is ended, and success means that nothing was lost, whatever  *)
(* the number of requests and responses.  The invariant places the three   *)
(* goroutines of each bridge and says what each has done by then.          *)
(***************************************************************************)
EXTENDS ServerBridge, TLAPS

(* Where the goroutines of each kind of bridge can be. *)
Placed ==
  /\ pc["sender"] \in {"off", "recv", "select", "send", "closeSend", "finish", "cancel", "over"}
  /\ pc["reader"] \in {"off", "await", "awaiting", "forward", "offer", "ack", "join", "finish",
                       "stopFinish", "cancel", "stopCancel", "joinOk", "joinError", "over"}
  /\ pc["main"] \in {"start", "collect", "cancel", "over"}
  /\ pc["sender"] \in {"finish", "cancel"} => bridge = "client"
  /\ pc["sender"] = "closeSend" => Bidi
  /\ pc["reader"] \in {"join", "joinOk", "joinError"} => bridge = "bidiNative"
  /\ pc["reader"] = "cancel" => bridge # "bidiMessage"
  /\ pc["reader"] = "ack" => bridge = "server"
  /\ finishRequested => Bidi /\ sendDone

(* What runs before, after and without a successful Start. *)
Opened ==
  /\ ~opened =>
       /\ finishes = 0 /\ cancels = 0
       /\ \/ pc["main"] = "start" /\ pc["sender"] = "off" /\ pc["reader"] = "off"
             /\ result["sender"] = "none" /\ result["reader"] = "none" /\ result["main"] = "none"
             /\ collected = {} /\ recv = "none" /\ produced = 0 /\ forwarded = 0
             /\ passed = 0 /\ received = 0 /\ responded = 0
          \/ pc["main"] = "over" /\ pc["sender"] = "over" /\ pc["reader"] = "over"
             /\ result["sender"] = "error" /\ result["reader"] = "error" /\ result["main"] = "error"
  /\ opened =>
       /\ pc["main"] # "start"
       /\ pc["sender"] = "off" <=> ~HasRequests
       /\ pc["reader"] = "off" <=> ~HasResponses
       /\ pc["main"] \in {"collect", "cancel"} => bridge = "bidiMessage"

(* A goroutine that is over has a result, one that is not has none. *)
Resulting ==
  opened =>
    /\ pc["sender"] = "over" <=> result["sender"] # "none"
    /\ pc["reader"] = "over" <=> result["reader"] # "none"
    /\ bridge # "bidiMessage" => result["main"] = "none"
    /\ bridge = "bidiMessage" => (pc["main"] = "over" <=> result["main"] # "none")

(* Who ended the C stream. *)
EndedBy ==
  /\ bridge = "client" =>
       finishes + cancels = (IF opened /\ pc["sender"] = "over" THEN 1 ELSE 0)
  /\ bridge \in {"server", "bidiNative"} =>
       finishes + cancels =
         (IF opened /\ pc["reader"] \in {"over", "joinOk", "joinError"} THEN 1 ELSE 0)
  /\ bridge = "bidiMessage" =>
       /\ finishes <= 1 /\ cancels <= 1
       /\ finishes = 1 => pc["reader"] = "over"
       /\ opened /\ result["reader"] = "ok" => finishes = 1

(* What the method of the message adapter has collected. *)
Collecting ==
  opened /\ bridge = "bidiMessage" =>
    /\ \A a \in collected : result[a] # "none"
    /\ (\E a \in collected : result[a] = "error")
         => pc["main"] = "cancel" \/ (cancels > 0 /\ bridgeCanceled)
    /\ pc["main"] = "over" => collected = {"sender", "reader"}
    /\ result["main"] = "ok" => \A a \in collected : result[a] # "error"

(* Between the requests taken and those passed on there is at most one. *)
RequestsPassed ==
  /\ pc["sender"] \in {"recv", "select", "closeSend", "finish"} => passed = received
  /\ pc["sender"] = "send" => passed + 1 = received
  /\ pc["sender"] \in {"closeSend", "finish"} => sendDone /\ received = requested
  /\ result["sender"] = "ok" => sendDone /\ passed = received /\ received = requested

(* Between C's responses and those forwarded there is at most one, and C's *)
(* Recv runs on only if the method was stopped.                            *)
ResponsesForwarded ==
  /\ pc["reader"] \in {"await", "forward", "offer", "ack", "join", "finish"} => recv # "running"
  /\ pc["reader"] = "await" => forwarded = produced
  /\ pc["reader"] = "awaiting" =>
       forwarded + (IF recv = "response" THEN 1 ELSE 0) = produced
  /\ pc["reader"] \in {"forward", "offer", "ack"} => forwarded + 1 = produced
  /\ pc["reader"] \in {"await", "awaiting", "forward", "offer"} => responded = forwarded
  /\ pc["reader"] = "ack" => responded = forwarded + 1
  /\ pc["reader"] \in {"join", "finish"} /\ ~finishRequested => forwarded = produced
  /\ pc["reader"] \in {"stopFinish", "joinOk"} => finishRequested
  /\ result["reader"] = "ok" /\ ~finishRequested => forwarded = produced /\ recv # "running"

(* The native bidi method has its sender's result. *)
Joined ==
  bridge = "bidiNative" =>
    /\ pc["reader"] = "finish" => result["sender"] = "ok"
    /\ result["reader"] = "ok" => result["sender"] = "ok"

IInv ==
  /\ TypeOK
  /\ Placed
  /\ Opened
  /\ Resulting
  /\ EndedBy
  /\ Collecting
  /\ RequestsPassed
  /\ ResponsesForwarded
  /\ Joined

-----------------------------------------------------------------------------
LEMMA InitIInv == Init => IInv
<1> SUFFICES ASSUME Init PROVE IInv
  OBVIOUS
<1> USE BridgeAssumption DEF Init, Actors
<1>1. TypeOK
  <2>1. pc["main"] = "start" /\ pc \in [Actors -> {"start", "off"}]
    OBVIOUS
  <2>2. result \in [Actors -> {"none", "ok", "error"}] /\ recv \in {"none", "running"}
    OBVIOUS
  <2>3. /\ pc \in [Actors ->
             {"start", "off", "recv", "select", "send", "closeSend", "await", "awaiting", "forward",
              "offer", "ack", "join", "finish", "stopFinish", "cancel", "stopCancel", "joinOk",
              "joinError", "collect", "over"}]
        /\ recv \in {"none", "running", "response", "eof", "error"}
    BY <2>1, <2>2
  <2>4. bridge \in {"client", "server", "bidiMessage", "bidiNative"}
    OBVIOUS
  <2>5. /\ requested \in 0 .. MaxRequests /\ passed \in 0 .. received /\ received \in 0 .. requested
        /\ produced \in 0 .. MaxResponses
        /\ taken \in 0 .. responded /\ forwarded \in 0 .. responded /\ responded \in 0 .. produced
        /\ finishes \in Nat /\ cancels \in Nat
    OBVIOUS
  <2>6. /\ sendDone \in BOOLEAN /\ finishRequested \in BOOLEAN /\ canceled \in BOOLEAN
        /\ opened \in BOOLEAN /\ bridgeCanceled \in BOOLEAN /\ collected \subseteq {"sender", "reader"}
    OBVIOUS
  <2> QED BY <2>2, <2>3, <2>4, <2>5, <2>6 DEF TypeOK
<1>2. Placed /\ Opened /\ Resulting
  BY DEF Placed, Opened, Resulting
<1>3. EndedBy /\ Collecting
  BY DEF EndedBy, Collecting
<1>4. RequestsPassed /\ ResponsesForwarded /\ Joined
  BY DEF RequestsPassed, ResponsesForwarded, Joined
<1> QED BY <1>1, <1>2, <1>3, <1>4 DEF IInv

(* Every variable keeps its type. *)
LEMMA TypeStep ==
  ASSUME IInv, [Next]_vars
  PROVE  TypeOK'
<1> USE BridgeAssumption DEF IInv, Actors, HasRequests, HasResponses, Bidi
<1>0. CASE UNCHANGED vars
  BY <1>0 DEF vars, clientVars, requestVars, responseVars, endVars, mainVars, TypeOK
<1>1. CASE ClientSend
  BY <1>1 DEF ClientSend, Goto, Over, clientVars, requestVars, responseVars, endVars, mainVars, TypeOK
<1>2. CASE ClientCloses
  BY <1>2 DEF ClientCloses, Goto, Over, clientVars, requestVars, responseVars, endVars, mainVars, TypeOK
<1>3. CASE ClientFinishes
  BY <1>3 DEF ClientFinishes, Goto, Over, clientVars, requestVars, responseVars, endVars, mainVars, TypeOK
<1>4. CASE ClientCancels
  BY <1>4 DEF ClientCancels, Goto, Over, clientVars, requestVars, responseVars, endVars, mainVars, TypeOK
<1>5. CASE ClientTakes
  BY <1>5 DEF ClientTakes, Goto, Over, clientVars, requestVars, responseVars, endVars, mainVars, TypeOK
<1>6. CASE RecvWaits
  BY <1>6 DEF RecvWaits, Goto, Over, clientVars, requestVars, responseVars, endVars, mainVars, TypeOK
<1>7. CASE RecvRequest
  BY <1>7 DEF RecvRequest, Goto, Over, clientVars, requestVars, responseVars, endVars, mainVars, TypeOK
<1>8. CASE RecvEOF
  BY <1>8 DEF RecvEOF, Goto, Over, clientVars, requestVars, responseVars, endVars, mainVars, TypeOK
<1>9. CASE RecvCanceled
  BY <1>9 DEF RecvCanceled, SenderFails, Goto, Over, clientVars, requestVars, responseVars, endVars, mainVars, TypeOK
<1>10. CASE Send
  <2>1. passed + 1 = received /\ received \in Nat
    BY <1>10 DEF Send, RequestsPassed, TypeOK
  <2>2. passed' \in 0 .. received
    BY <1>10, <2>1 DEF Send, TypeOK
  <2> QED BY <1>10, <2>2 DEF Send, Goto, clientVars, responseVars, endVars, mainVars, TypeOK
<1>11. CASE SendFails
  BY <1>11 DEF SendFails, SenderFails, Goto, Over, clientVars, requestVars, responseVars, endVars, mainVars, TypeOK
<1>12. CASE CloseSend
  BY <1>12 DEF CloseSend, Goto, Over, clientVars, requestVars, responseVars, endVars, mainVars, TypeOK
<1>13. CASE Finish("sender")
  BY <1>13 DEF Finish, Ended, Goto, Over, clientVars, requestVars, responseVars, endVars, mainVars, TypeOK
<1>14. CASE Cancel("sender")
  BY <1>14 DEF Cancel, Ended, Goto, Over, clientVars, requestVars, responseVars, endVars, mainVars, TypeOK
<1>15. CASE StopForFinish
  BY <1>15 DEF StopForFinish, Goto, Over, clientVars, requestVars, responseVars, endVars, mainVars, TypeOK
<1>16. CASE StopForCancel
  BY <1>16 DEF StopForCancel, Goto, Over, clientVars, requestVars, responseVars, endVars, mainVars, TypeOK
<1>17. CASE BeginRecv
  BY <1>17 DEF BeginRecv, Goto, Over, clientVars, requestVars, responseVars, endVars, mainVars, TypeOK
<1>18. CASE AwaitResponse
  BY <1>18 DEF AwaitResponse, Goto, Over, clientVars, requestVars, responseVars, endVars, mainVars, TypeOK
<1>19. CASE AwaitEOF
  BY <1>19 DEF AwaitEOF, ResponsesOver, Goto, Over, clientVars, requestVars, responseVars, endVars, mainVars, TypeOK
<1>20. CASE AwaitError
  BY <1>20 DEF AwaitError, ReaderFails, Goto, Over, clientVars, requestVars, responseVars, endVars, mainVars, TypeOK
<1>21. CASE Forward
  BY <1>21 DEF Forward, Goto, Over, clientVars, requestVars, responseVars, endVars, mainVars, TypeOK
<1>22. CASE ForwardFinished
  BY <1>22 DEF ForwardFinished, ResponsesOver, Goto, Over, clientVars, requestVars, responseVars, endVars, mainVars, TypeOK
<1>23. CASE ForwardFails
  BY <1>23 DEF ForwardFails, ReaderFails, Goto, Over, clientVars, requestVars, responseVars, endVars, mainVars, TypeOK
<1>24. CASE Offer
  <2>1. responded' \in 0 .. produced /\ forwarded' \in 0 .. responded' /\ taken \in 0 .. responded'
    BY <1>24 DEF Offer, ResponsesForwarded, TypeOK
  <2>2. pc' \in [Actors -> {"start", "off", "recv", "select", "send", "closeSend", "await",
          "awaiting", "forward", "offer", "ack", "join", "finish", "stopFinish", "cancel",
          "stopCancel", "joinOk", "joinError", "collect", "over"}]
    BY <1>24 DEF Offer, Goto, TypeOK
  <2>3. UNCHANGED <<bridge, clientVars, requestVars, produced, recv, endVars, mainVars, result>>
    BY <1>24 DEF Offer, Goto
  <2> QED BY <2>1, <2>2, <2>3 DEF TypeOK, clientVars, requestVars, endVars, mainVars
<1>25. CASE Acknowledged
  <2>1. responded' \in 0 .. produced /\ forwarded' \in 0 .. responded' /\ taken \in 0 .. responded'
    BY <1>25 DEF Acknowledged, ResponsesForwarded, TypeOK
  <2>2. pc' \in [Actors -> {"start", "off", "recv", "select", "send", "closeSend", "await",
          "awaiting", "forward", "offer", "ack", "join", "finish", "stopFinish", "cancel",
          "stopCancel", "joinOk", "joinError", "collect", "over"}]
    BY <1>25 DEF Acknowledged, Goto, TypeOK
  <2>3. UNCHANGED <<bridge, clientVars, requestVars, produced, recv, endVars, mainVars, result>>
    BY <1>25 DEF Acknowledged, Goto
  <2> QED BY <2>1, <2>2, <2>3 DEF TypeOK, clientVars, requestVars, endVars, mainVars
<1>26. CASE Join
  BY <1>26 DEF Join, Goto, Over, clientVars, requestVars, responseVars, endVars, mainVars, TypeOK
<1>27. CASE JoinLast
  BY <1>27 DEF JoinLast, Goto, Over, clientVars, requestVars, responseVars, endVars, mainVars, TypeOK
<1>28. CASE Finish("reader")
  BY <1>28 DEF Finish, Ended, Goto, Over, clientVars, requestVars, responseVars, endVars, mainVars, TypeOK
<1>29. CASE Cancel("reader")
  BY <1>29 DEF Cancel, Ended, Goto, Over, clientVars, requestVars, responseVars, endVars, mainVars, TypeOK
<1>30. CASE Start
  BY <1>30 DEF Start, Goto, Over, clientVars, requestVars, responseVars, endVars, mainVars, TypeOK
<1>31. CASE StartFails
  BY <1>31 DEF StartFails, Goto, Over, clientVars, requestVars, responseVars, endVars, mainVars, TypeOK
<1>32. CASE CancelBridge
  BY <1>32 DEF CancelBridge, Goto, Over, clientVars, requestVars, responseVars, endVars, mainVars, TypeOK
<1>33. CASE Return
  BY <1>33 DEF Return, Goto, Over, clientVars, requestVars, responseVars, endVars, mainVars, TypeOK
<1>34. CASE Collect("sender")
  BY <1>34 DEF Collect, Goto, Over, clientVars, requestVars, responseVars, endVars, mainVars, TypeOK
<1>35. CASE Collect("reader")
  BY <1>35 DEF Collect, Goto, Over, clientVars, requestVars, responseVars, endVars, mainVars, TypeOK
<1>36. CASE RecvReturns
  BY <1>36 DEF RecvReturns, Goto, Over, clientVars, requestVars, responseVars, endVars, mainVars, TypeOK
<1> QED BY <1>0, <1>1, <1>2, <1>3, <1>4, <1>5, <1>6, <1>7, <1>8, <1>9, <1>10, <1>11, <1>12, <1>13, <1>14, <1>15, <1>16, <1>17, <1>18, <1>19, <1>20, <1>21, <1>22, <1>23, <1>24, <1>25, <1>26, <1>27, <1>28, <1>29, <1>30, <1>31, <1>32, <1>33, <1>34, <1>35, <1>36
  DEF Next, SenderStep, ReaderStep, MainStep

(* Goroutines stay on their paths. *)
LEMMA PlacedStep ==
  ASSUME IInv, [Next]_vars
  PROVE  Placed'
<1> USE BridgeAssumption DEF IInv, Actors, HasRequests, HasResponses, Bidi
<1>0. CASE UNCHANGED vars
  BY <1>0 DEF vars, clientVars, requestVars, responseVars, endVars, mainVars, Placed, TypeOK
<1>1. CASE ClientSend
  BY <1>1 DEF ClientSend, Goto, Over, clientVars, requestVars, responseVars, endVars, mainVars, Placed, TypeOK
<1>2. CASE ClientCloses
  BY <1>2 DEF ClientCloses, Goto, Over, clientVars, requestVars, responseVars, endVars, mainVars, Placed, TypeOK
<1>3. CASE ClientFinishes
  BY <1>3 DEF ClientFinishes, Goto, Over, clientVars, requestVars, responseVars, endVars, mainVars, Placed, TypeOK
<1>4. CASE ClientCancels
  BY <1>4 DEF ClientCancels, Goto, Over, clientVars, requestVars, responseVars, endVars, mainVars, Placed, TypeOK
<1>5. CASE ClientTakes
  BY <1>5 DEF ClientTakes, Goto, Over, clientVars, requestVars, responseVars, endVars, mainVars, Placed, TypeOK
<1>6. CASE RecvWaits
  BY <1>6 DEF RecvWaits, Goto, Over, clientVars, requestVars, responseVars, endVars, mainVars, Placed, TypeOK
<1>7. CASE RecvRequest
  BY <1>7 DEF RecvRequest, Goto, Over, clientVars, requestVars, responseVars, endVars, mainVars, Placed, TypeOK
<1>8. CASE RecvEOF
  BY <1>8 DEF RecvEOF, Goto, clientVars, requestVars, responseVars, endVars, mainVars, Opened, Placed, TypeOK
<1>9. CASE RecvCanceled
  BY <1>9 DEF RecvCanceled, SenderFails, Goto, Over, clientVars, requestVars, responseVars, endVars, mainVars, Placed, TypeOK
<1>10. CASE Send
  BY <1>10 DEF Send, Goto, Over, clientVars, requestVars, responseVars, endVars, mainVars, Placed, TypeOK
<1>11. CASE SendFails
  BY <1>11 DEF SendFails, SenderFails, Goto, Over, clientVars, requestVars, responseVars, endVars, mainVars, Placed, TypeOK
<1>12. CASE CloseSend
  BY <1>12 DEF CloseSend, Goto, Over, clientVars, requestVars, responseVars, endVars, mainVars, Placed, TypeOK
<1>13. CASE Finish("sender")
  BY <1>13 DEF Finish, Ended, Goto, Over, clientVars, requestVars, responseVars, endVars, mainVars, Placed, TypeOK
<1>14. CASE Cancel("sender")
  BY <1>14 DEF Cancel, Ended, Goto, Over, clientVars, requestVars, responseVars, endVars, mainVars, Placed, TypeOK
<1>15. CASE StopForFinish
  BY <1>15 DEF StopForFinish, Goto, Over, clientVars, requestVars, responseVars, endVars, mainVars, Placed, TypeOK
<1>16. CASE StopForCancel
  BY <1>16 DEF StopForCancel, Goto, Over, clientVars, requestVars, responseVars, endVars, mainVars, Placed, TypeOK
<1>17. CASE BeginRecv
  BY <1>17 DEF BeginRecv, Goto, Over, clientVars, requestVars, responseVars, endVars, mainVars, Placed, TypeOK
<1>18. CASE AwaitResponse
  BY <1>18 DEF AwaitResponse, Goto, Over, clientVars, requestVars, responseVars, endVars, mainVars, Placed, TypeOK
<1>19. CASE AwaitEOF
  BY <1>19 DEF AwaitEOF, ResponsesOver, Goto, Over, clientVars, requestVars, responseVars, endVars, mainVars, Placed, TypeOK
<1>20. CASE AwaitError
  BY <1>20 DEF AwaitError, ReaderFails, Goto, Over, clientVars, requestVars, responseVars, endVars, mainVars, Placed, TypeOK
<1>21. CASE Forward
  BY <1>21 DEF Forward, Goto, Over, clientVars, requestVars, responseVars, endVars, mainVars, Placed, TypeOK
<1>22. CASE ForwardFinished
  BY <1>22 DEF ForwardFinished, ResponsesOver, Goto, Over, clientVars, requestVars, responseVars, endVars, mainVars, Placed, TypeOK
<1>23. CASE ForwardFails
  BY <1>23 DEF ForwardFails, ReaderFails, Goto, Over, clientVars, requestVars, responseVars, endVars, mainVars, Placed, TypeOK
<1>24. CASE Offer
  BY <1>24 DEF Offer, Goto, clientVars, requestVars, responseVars, endVars, mainVars, Opened, Placed, TypeOK
<1>25. CASE Acknowledged
  BY <1>25 DEF Acknowledged, Goto, Over, clientVars, requestVars, responseVars, endVars, mainVars, Placed, TypeOK
<1>26. CASE Join
  BY <1>26 DEF Join, Goto, Over, clientVars, requestVars, responseVars, endVars, mainVars, Placed, TypeOK
<1>27. CASE JoinLast
  BY <1>27 DEF JoinLast, Goto, Over, clientVars, requestVars, responseVars, endVars, mainVars, Placed, TypeOK
<1>28. CASE Finish("reader")
  BY <1>28 DEF Finish, Ended, Goto, Over, clientVars, requestVars, responseVars, endVars, mainVars, Placed, TypeOK
<1>29. CASE Cancel("reader")
  BY <1>29 DEF Cancel, Ended, Goto, Over, clientVars, requestVars, responseVars, endVars, mainVars, Placed, TypeOK
<1>30. CASE Start
  BY <1>30 DEF Start, Goto, Over, clientVars, requestVars, responseVars, endVars, mainVars, Placed, TypeOK
<1>31. CASE StartFails
  BY <1>31 DEF StartFails, Goto, Over, clientVars, requestVars, responseVars, endVars, mainVars, Placed, TypeOK
<1>32. CASE CancelBridge
  BY <1>32 DEF CancelBridge, Goto, Over, clientVars, requestVars, responseVars, endVars, mainVars, Placed, TypeOK
<1>33. CASE Return
  BY <1>33 DEF Return, Goto, Over, clientVars, requestVars, responseVars, endVars, mainVars, Placed, TypeOK
<1>34. CASE Collect("sender")
  BY <1>34 DEF Collect, Goto, Over, clientVars, requestVars, responseVars, endVars, mainVars, Placed, TypeOK
<1>35. CASE Collect("reader")
  BY <1>35 DEF Collect, Goto, Over, clientVars, requestVars, responseVars, endVars, mainVars, Placed, TypeOK
<1>36. CASE RecvReturns
  BY <1>36 DEF RecvReturns, Goto, Over, clientVars, requestVars, responseVars, endVars, mainVars, Placed, TypeOK
<1> QED BY <1>0, <1>1, <1>2, <1>3, <1>4, <1>5, <1>6, <1>7, <1>8, <1>9, <1>10, <1>11, <1>12, <1>13, <1>14, <1>15, <1>16, <1>17, <1>18, <1>19, <1>20, <1>21, <1>22, <1>23, <1>24, <1>25, <1>26, <1>27, <1>28, <1>29, <1>30, <1>31, <1>32, <1>33, <1>34, <1>35, <1>36
  DEF Next, SenderStep, ReaderStep, MainStep

(* Nothing runs before Start or without it. *)
LEMMA OpenedStep ==
  ASSUME IInv, [Next]_vars
  PROVE  Opened'
<1> USE BridgeAssumption DEF IInv, Actors, HasRequests, HasResponses, Bidi
<1>0. CASE UNCHANGED vars
  BY <1>0 DEF vars, clientVars, requestVars, responseVars, endVars, mainVars, Opened, Placed, TypeOK
<1>1. CASE ClientSend
  BY <1>1 DEF ClientSend, Goto, Over, clientVars, requestVars, responseVars, endVars, mainVars, Opened, Placed, TypeOK
<1>2. CASE ClientCloses
  BY <1>2 DEF ClientCloses, Goto, Over, clientVars, requestVars, responseVars, endVars, mainVars, Opened, Placed, TypeOK
<1>3. CASE ClientFinishes
  BY <1>3 DEF ClientFinishes, Goto, Over, clientVars, requestVars, responseVars, endVars, mainVars, Opened, Placed, TypeOK
<1>4. CASE ClientCancels
  BY <1>4 DEF ClientCancels, Goto, Over, clientVars, requestVars, responseVars, endVars, mainVars, Opened, Placed, TypeOK
<1>5. CASE ClientTakes
  BY <1>5 DEF ClientTakes, Goto, Over, clientVars, requestVars, responseVars, endVars, mainVars, Opened, Placed, TypeOK
<1>6. CASE RecvWaits
  BY <1>6 DEF RecvWaits, Goto, Over, clientVars, requestVars, responseVars, endVars, mainVars, Opened, Placed, TypeOK
<1>7. CASE RecvRequest
  BY <1>7 DEF RecvRequest, Goto, Over, clientVars, requestVars, responseVars, endVars, mainVars, Opened, Placed, TypeOK
<1>8. CASE RecvEOF
  BY <1>8 DEF RecvEOF, Goto, Over, clientVars, requestVars, responseVars, endVars, mainVars, Opened, Placed, TypeOK
<1>9. CASE RecvCanceled
  BY <1>9 DEF RecvCanceled, SenderFails, Goto, Over, clientVars, requestVars, responseVars, endVars, mainVars, Opened, Placed, TypeOK
<1>10. CASE Send
  BY <1>10 DEF Send, Goto, Over, clientVars, requestVars, responseVars, endVars, mainVars, Opened, Placed, TypeOK
<1>11. CASE SendFails
  BY <1>11 DEF SendFails, SenderFails, Goto, Over, clientVars, requestVars, responseVars, endVars, mainVars, Opened, Placed, TypeOK
<1>12. CASE CloseSend
  BY <1>12 DEF CloseSend, Goto, Over, clientVars, requestVars, responseVars, endVars, mainVars, Opened, Placed, TypeOK
<1>13. CASE Finish("sender")
  BY <1>13 DEF Finish, Ended, Goto, Over, clientVars, requestVars, responseVars, endVars, mainVars, Opened, Placed, TypeOK
<1>14. CASE Cancel("sender")
  BY <1>14 DEF Cancel, Ended, Goto, Over, clientVars, requestVars, responseVars, endVars, mainVars, Opened, Placed, TypeOK
<1>15. CASE StopForFinish
  BY <1>15 DEF StopForFinish, Goto, Over, clientVars, requestVars, responseVars, endVars, mainVars, Opened, Placed, TypeOK
<1>16. CASE StopForCancel
  BY <1>16 DEF StopForCancel, Goto, Over, clientVars, requestVars, responseVars, endVars, mainVars, Opened, Placed, TypeOK
<1>17. CASE BeginRecv
  BY <1>17 DEF BeginRecv, Goto, Over, clientVars, requestVars, responseVars, endVars, mainVars, Opened, Placed, TypeOK
<1>18. CASE AwaitResponse
  BY <1>18 DEF AwaitResponse, Goto, Over, clientVars, requestVars, responseVars, endVars, mainVars, Opened, Placed, TypeOK
<1>19. CASE AwaitEOF
  BY <1>19 DEF AwaitEOF, ResponsesOver, Goto, Over, clientVars, requestVars, responseVars, endVars, mainVars, Opened, Placed, TypeOK
<1>20. CASE AwaitError
  BY <1>20 DEF AwaitError, ReaderFails, Goto, Over, clientVars, requestVars, responseVars, endVars, mainVars, Opened, Placed, TypeOK
<1>21. CASE Forward
  BY <1>21 DEF Forward, Goto, Over, clientVars, requestVars, responseVars, endVars, mainVars, Opened, Placed, TypeOK
<1>22. CASE ForwardFinished
  BY <1>22 DEF ForwardFinished, ResponsesOver, Goto, Over, clientVars, requestVars, responseVars, endVars, mainVars, Opened, Placed, TypeOK
<1>23. CASE ForwardFails
  BY <1>23 DEF ForwardFails, ReaderFails, Goto, Over, clientVars, requestVars, responseVars, endVars, mainVars, Opened, Placed, TypeOK
<1>24. CASE Offer
  BY <1>24 DEF Offer, Goto, Over, clientVars, requestVars, responseVars, endVars, mainVars, Opened, Placed, TypeOK
<1>25. CASE Acknowledged
  BY <1>25 DEF Acknowledged, Goto, Over, clientVars, requestVars, responseVars, endVars, mainVars, Opened, Placed, TypeOK
<1>26. CASE Join
  BY <1>26 DEF Join, Goto, Over, clientVars, requestVars, responseVars, endVars, mainVars, Opened, Placed, TypeOK
<1>27. CASE JoinLast
  BY <1>27 DEF JoinLast, Goto, Over, clientVars, requestVars, responseVars, endVars, mainVars, Opened, Placed, TypeOK
<1>28. CASE Finish("reader")
  BY <1>28 DEF Finish, Ended, Goto, Over, clientVars, requestVars, responseVars, endVars, mainVars, Opened, Placed, TypeOK
<1>29. CASE Cancel("reader")
  BY <1>29 DEF Cancel, Ended, Goto, Over, clientVars, requestVars, responseVars, endVars, mainVars, Opened, Placed, TypeOK
<1>30. CASE Start
  BY <1>30 DEF Start, Goto, Over, clientVars, requestVars, responseVars, endVars, mainVars, Opened, Placed, TypeOK
<1>31. CASE StartFails
  BY <1>31 DEF StartFails, Goto, Over, clientVars, requestVars, responseVars, endVars, mainVars, Opened, Placed, TypeOK
<1>32. CASE CancelBridge
  BY <1>32 DEF CancelBridge, Goto, Over, clientVars, requestVars, responseVars, endVars, mainVars, Opened, Placed, TypeOK
<1>33. CASE Return
  BY <1>33 DEF Return, Goto, Over, clientVars, requestVars, responseVars, endVars, mainVars, Opened, Placed, TypeOK
<1>34. CASE Collect("sender")
  BY <1>34 DEF Collect, Goto, Over, clientVars, requestVars, responseVars, endVars, mainVars, Opened, Placed, TypeOK
<1>35. CASE Collect("reader")
  BY <1>35 DEF Collect, Goto, Over, clientVars, requestVars, responseVars, endVars, mainVars, Opened, Placed, TypeOK
<1>36. CASE RecvReturns
  BY <1>36 DEF RecvReturns, Goto, Over, clientVars, requestVars, responseVars, endVars, mainVars, Opened, Placed, TypeOK
<1> QED BY <1>0, <1>1, <1>2, <1>3, <1>4, <1>5, <1>6, <1>7, <1>8, <1>9, <1>10, <1>11, <1>12, <1>13, <1>14, <1>15, <1>16, <1>17, <1>18, <1>19, <1>20, <1>21, <1>22, <1>23, <1>24, <1>25, <1>26, <1>27, <1>28, <1>29, <1>30, <1>31, <1>32, <1>33, <1>34, <1>35, <1>36
  DEF Next, SenderStep, ReaderStep, MainStep

(* A result is the end of a goroutine. *)
LEMMA ResultingStep ==
  ASSUME IInv, [Next]_vars
  PROVE  Resulting'
<1> USE BridgeAssumption DEF IInv, Actors, HasRequests, HasResponses, Bidi
<1>0. CASE UNCHANGED vars
  BY <1>0 DEF vars, clientVars, requestVars, responseVars, endVars, mainVars, Resulting, Opened, Placed, TypeOK
<1>1. CASE ClientSend
  BY <1>1 DEF ClientSend, Goto, Over, clientVars, requestVars, responseVars, endVars, mainVars, Resulting, Opened, Placed, TypeOK
<1>2. CASE ClientCloses
  BY <1>2 DEF ClientCloses, Goto, Over, clientVars, requestVars, responseVars, endVars, mainVars, Resulting, Opened, Placed, TypeOK
<1>3. CASE ClientFinishes
  BY <1>3 DEF ClientFinishes, Goto, Over, clientVars, requestVars, responseVars, endVars, mainVars, Resulting, Opened, Placed, TypeOK
<1>4. CASE ClientCancels
  BY <1>4 DEF ClientCancels, Goto, Over, clientVars, requestVars, responseVars, endVars, mainVars, Resulting, Opened, Placed, TypeOK
<1>5. CASE ClientTakes
  BY <1>5 DEF ClientTakes, Goto, Over, clientVars, requestVars, responseVars, endVars, mainVars, Resulting, Opened, Placed, TypeOK
<1>6. CASE RecvWaits
  BY <1>6 DEF RecvWaits, Goto, Over, clientVars, requestVars, responseVars, endVars, mainVars, Resulting, Opened, Placed, TypeOK
<1>7. CASE RecvRequest
  BY <1>7 DEF RecvRequest, Goto, Over, clientVars, requestVars, responseVars, endVars, mainVars, Resulting, Opened, Placed, TypeOK
<1>8. CASE RecvEOF
  BY <1>8 DEF RecvEOF, Goto, Over, clientVars, requestVars, responseVars, endVars, mainVars, Resulting, Opened, Placed, TypeOK
<1>9. CASE RecvCanceled
  BY <1>9 DEF RecvCanceled, SenderFails, Goto, Over, clientVars, requestVars, responseVars, endVars, mainVars, Resulting, Opened, Placed, TypeOK
<1>10. CASE Send
  BY <1>10 DEF Send, Goto, Over, clientVars, requestVars, responseVars, endVars, mainVars, Resulting, Opened, Placed, TypeOK
<1>11. CASE SendFails
  BY <1>11 DEF SendFails, SenderFails, Goto, Over, clientVars, requestVars, responseVars, endVars, mainVars, Resulting, Opened, Placed, TypeOK
<1>12. CASE CloseSend
  BY <1>12 DEF CloseSend, Goto, Over, clientVars, requestVars, responseVars, endVars, mainVars, Resulting, Opened, Placed, TypeOK
<1>13. CASE Finish("sender")
  BY <1>13 DEF Finish, Ended, Goto, Over, clientVars, requestVars, responseVars, endVars, mainVars, Resulting, Opened, Placed, TypeOK
<1>14. CASE Cancel("sender")
  BY <1>14 DEF Cancel, Ended, Goto, Over, clientVars, requestVars, responseVars, endVars, mainVars, Resulting, Opened, Placed, TypeOK
<1>15. CASE StopForFinish
  BY <1>15 DEF StopForFinish, Goto, Over, clientVars, requestVars, responseVars, endVars, mainVars, Resulting, Opened, Placed, TypeOK
<1>16. CASE StopForCancel
  BY <1>16 DEF StopForCancel, Goto, Over, clientVars, requestVars, responseVars, endVars, mainVars, Resulting, Opened, Placed, TypeOK
<1>17. CASE BeginRecv
  BY <1>17 DEF BeginRecv, Goto, Over, clientVars, requestVars, responseVars, endVars, mainVars, Resulting, Opened, Placed, TypeOK
<1>18. CASE AwaitResponse
  BY <1>18 DEF AwaitResponse, Goto, Over, clientVars, requestVars, responseVars, endVars, mainVars, Resulting, Opened, Placed, TypeOK
<1>19. CASE AwaitEOF
  BY <1>19 DEF AwaitEOF, ResponsesOver, Goto, Over, clientVars, requestVars, responseVars, endVars, mainVars, Resulting, Opened, Placed, TypeOK
<1>20. CASE AwaitError
  BY <1>20 DEF AwaitError, ReaderFails, Goto, Over, clientVars, requestVars, responseVars, endVars, mainVars, Resulting, Opened, Placed, TypeOK
<1>21. CASE Forward
  BY <1>21 DEF Forward, Goto, Over, clientVars, requestVars, responseVars, endVars, mainVars, Resulting, Opened, Placed, TypeOK
<1>22. CASE ForwardFinished
  BY <1>22 DEF ForwardFinished, ResponsesOver, Goto, Over, clientVars, requestVars, responseVars, endVars, mainVars, Resulting, Opened, Placed, TypeOK
<1>23. CASE ForwardFails
  BY <1>23 DEF ForwardFails, ReaderFails, Goto, Over, clientVars, requestVars, responseVars, endVars, mainVars, Resulting, Opened, Placed, TypeOK
<1>24. CASE Offer
  BY <1>24 DEF Offer, Goto, Over, clientVars, requestVars, responseVars, endVars, mainVars, Resulting, Opened, Placed, TypeOK
<1>25. CASE Acknowledged
  BY <1>25 DEF Acknowledged, Goto, Over, clientVars, requestVars, responseVars, endVars, mainVars, Resulting, Opened, Placed, TypeOK
<1>26. CASE Join
  BY <1>26 DEF Join, Goto, Over, clientVars, requestVars, responseVars, endVars, mainVars, Resulting, Opened, Placed, TypeOK
<1>27. CASE JoinLast
  BY <1>27 DEF JoinLast, Goto, Over, clientVars, requestVars, responseVars, endVars, mainVars, Resulting, Opened, Placed, TypeOK
<1>28. CASE Finish("reader")
  BY <1>28 DEF Finish, Ended, Goto, Over, clientVars, requestVars, responseVars, endVars, mainVars, Resulting, Opened, Placed, TypeOK
<1>29. CASE Cancel("reader")
  BY <1>29 DEF Cancel, Ended, Goto, Over, clientVars, requestVars, responseVars, endVars, mainVars, Resulting, Opened, Placed, TypeOK
<1>30. CASE Start
  BY <1>30 DEF Start, Goto, Over, clientVars, requestVars, responseVars, endVars, mainVars, Resulting, Opened, Placed, TypeOK
<1>31. CASE StartFails
  BY <1>31 DEF StartFails, Goto, Over, clientVars, requestVars, responseVars, endVars, mainVars, Resulting, Opened, Placed, TypeOK
<1>32. CASE CancelBridge
  BY <1>32 DEF CancelBridge, Goto, Over, clientVars, requestVars, responseVars, endVars, mainVars, Resulting, Opened, Placed, TypeOK
<1>33. CASE Return
  BY <1>33 DEF Return, Goto, Over, clientVars, requestVars, responseVars, endVars, mainVars, Resulting, Opened, Placed, TypeOK
<1>34. CASE Collect("sender")
  BY <1>34 DEF Collect, Goto, Over, clientVars, requestVars, responseVars, endVars, mainVars, Resulting, Opened, Placed, TypeOK
<1>35. CASE Collect("reader")
  BY <1>35 DEF Collect, Goto, Over, clientVars, requestVars, responseVars, endVars, mainVars, Resulting, Opened, Placed, TypeOK
<1>36. CASE RecvReturns
  BY <1>36 DEF RecvReturns, Goto, Over, clientVars, requestVars, responseVars, endVars, mainVars, Resulting, Opened, Placed, TypeOK
<1> QED BY <1>0, <1>1, <1>2, <1>3, <1>4, <1>5, <1>6, <1>7, <1>8, <1>9, <1>10, <1>11, <1>12, <1>13, <1>14, <1>15, <1>16, <1>17, <1>18, <1>19, <1>20, <1>21, <1>22, <1>23, <1>24, <1>25, <1>26, <1>27, <1>28, <1>29, <1>30, <1>31, <1>32, <1>33, <1>34, <1>35, <1>36
  DEF Next, SenderStep, ReaderStep, MainStep

(* The C stream is ended by whom it should be. *)
LEMMA EndedByStep ==
  ASSUME IInv, [Next]_vars
  PROVE  EndedBy'
<1> USE BridgeAssumption DEF IInv, Actors, HasRequests, HasResponses, Bidi
<1>0. CASE UNCHANGED vars
  BY <1>0 DEF vars, clientVars, requestVars, responseVars, endVars, mainVars, EndedBy, Resulting, Opened, Placed, TypeOK
<1>1. CASE ClientSend
  BY <1>1 DEF ClientSend, Goto, Over, clientVars, requestVars, responseVars, endVars, mainVars, EndedBy, Resulting, Opened, Placed, TypeOK
<1>2. CASE ClientCloses
  BY <1>2 DEF ClientCloses, Goto, Over, clientVars, requestVars, responseVars, endVars, mainVars, EndedBy, Resulting, Opened, Placed, TypeOK
<1>3. CASE ClientFinishes
  BY <1>3 DEF ClientFinishes, Goto, Over, clientVars, requestVars, responseVars, endVars, mainVars, EndedBy, Resulting, Opened, Placed, TypeOK
<1>4. CASE ClientCancels
  BY <1>4 DEF ClientCancels, Goto, Over, clientVars, requestVars, responseVars, endVars, mainVars, EndedBy, Resulting, Opened, Placed, TypeOK
<1>5. CASE ClientTakes
  BY <1>5 DEF ClientTakes, Goto, Over, clientVars, requestVars, responseVars, endVars, mainVars, EndedBy, Resulting, Opened, Placed, TypeOK
<1>6. CASE RecvWaits
  BY <1>6 DEF RecvWaits, Goto, Over, clientVars, requestVars, responseVars, endVars, mainVars, EndedBy, Resulting, Opened, Placed, TypeOK
<1>7. CASE RecvRequest
  BY <1>7 DEF RecvRequest, Goto, Over, clientVars, requestVars, responseVars, endVars, mainVars, EndedBy, Resulting, Opened, Placed, TypeOK
<1>8. CASE RecvEOF
  BY <1>8 DEF RecvEOF, Goto, Over, clientVars, requestVars, responseVars, endVars, mainVars, EndedBy, Resulting, Opened, Placed, TypeOK
<1>9. CASE RecvCanceled
  BY <1>9 DEF RecvCanceled, SenderFails, Goto, Over, clientVars, requestVars, responseVars, endVars, mainVars, EndedBy, Resulting, Opened, Placed, TypeOK
<1>10. CASE Send
  BY <1>10 DEF Send, Goto, Over, clientVars, requestVars, responseVars, endVars, mainVars, EndedBy, Resulting, Opened, Placed, TypeOK
<1>11. CASE SendFails
  BY <1>11 DEF SendFails, SenderFails, Goto, Over, clientVars, requestVars, responseVars, endVars, mainVars, EndedBy, Resulting, Opened, Placed, TypeOK
<1>12. CASE CloseSend
  BY <1>12 DEF CloseSend, Goto, Over, clientVars, requestVars, responseVars, endVars, mainVars, EndedBy, Resulting, Opened, Placed, TypeOK
<1>13. CASE Finish("sender")
  BY <1>13 DEF Finish, Ended, Goto, Over, clientVars, requestVars, responseVars, endVars, mainVars, EndedBy, Resulting, Opened, Placed, TypeOK
<1>14. CASE Cancel("sender")
  BY <1>14 DEF Cancel, Ended, Goto, Over, clientVars, requestVars, responseVars, endVars, mainVars, EndedBy, Resulting, Opened, Placed, TypeOK
<1>15. CASE StopForFinish
  BY <1>15 DEF StopForFinish, Goto, Over, clientVars, requestVars, responseVars, endVars, mainVars, EndedBy, Resulting, Opened, Placed, TypeOK
<1>16. CASE StopForCancel
  BY <1>16 DEF StopForCancel, Goto, Over, clientVars, requestVars, responseVars, endVars, mainVars, EndedBy, Resulting, Opened, Placed, TypeOK
<1>17. CASE BeginRecv
  BY <1>17 DEF BeginRecv, Goto, Over, clientVars, requestVars, responseVars, endVars, mainVars, EndedBy, Resulting, Opened, Placed, TypeOK
<1>18. CASE AwaitResponse
  BY <1>18 DEF AwaitResponse, Goto, Over, clientVars, requestVars, responseVars, endVars, mainVars, EndedBy, Resulting, Opened, Placed, TypeOK
<1>19. CASE AwaitEOF
  BY <1>19 DEF AwaitEOF, ResponsesOver, Goto, Over, clientVars, requestVars, responseVars, endVars, mainVars, EndedBy, Resulting, Opened, Placed, TypeOK
<1>20. CASE AwaitError
  BY <1>20 DEF AwaitError, ReaderFails, Goto, Over, clientVars, requestVars, responseVars, endVars, mainVars, EndedBy, Resulting, Opened, Placed, TypeOK
<1>21. CASE Forward
  BY <1>21 DEF Forward, Goto, Over, clientVars, requestVars, responseVars, endVars, mainVars, EndedBy, Resulting, Opened, Placed, TypeOK
<1>22. CASE ForwardFinished
  BY <1>22 DEF ForwardFinished, ResponsesOver, Goto, Over, clientVars, requestVars, responseVars, endVars, mainVars, EndedBy, Resulting, Opened, Placed, TypeOK
<1>23. CASE ForwardFails
  BY <1>23 DEF ForwardFails, ReaderFails, Goto, Over, clientVars, requestVars, responseVars, endVars, mainVars, EndedBy, Resulting, Opened, Placed, TypeOK
<1>24. CASE Offer
  BY <1>24 DEF Offer, Goto, Over, clientVars, requestVars, responseVars, endVars, mainVars, EndedBy, Resulting, Opened, Placed, TypeOK
<1>25. CASE Acknowledged
  BY <1>25 DEF Acknowledged, Goto, Over, clientVars, requestVars, responseVars, endVars, mainVars, EndedBy, Resulting, Opened, Placed, TypeOK
<1>26. CASE Join
  BY <1>26 DEF Join, Goto, Over, clientVars, requestVars, responseVars, endVars, mainVars, EndedBy, Resulting, Opened, Placed, TypeOK
<1>27. CASE JoinLast
  BY <1>27 DEF JoinLast, Goto, Over, clientVars, requestVars, responseVars, endVars, mainVars, EndedBy, Resulting, Opened, Placed, TypeOK
<1>28. CASE Finish("reader")
  BY <1>28 DEF Finish, Ended, Goto, Over, clientVars, requestVars, responseVars, endVars, mainVars, EndedBy, Resulting, Opened, Placed, TypeOK
<1>29. CASE Cancel("reader")
  BY <1>29 DEF Cancel, Ended, Goto, Over, clientVars, requestVars, responseVars, endVars, mainVars, EndedBy, Resulting, Opened, Placed, TypeOK
<1>30. CASE Start
  BY <1>30 DEF Start, Goto, Over, clientVars, requestVars, responseVars, endVars, mainVars, EndedBy, Resulting, Opened, Placed, TypeOK
<1>31. CASE StartFails
  BY <1>31 DEF StartFails, Goto, Over, clientVars, requestVars, responseVars, endVars, mainVars, EndedBy, Resulting, Opened, Placed, TypeOK
<1>32. CASE CancelBridge
  BY <1>32 DEF CancelBridge, Goto, Over, clientVars, requestVars, responseVars, endVars, mainVars, EndedBy, Resulting, Opened, Placed, TypeOK
<1>33. CASE Return
  BY <1>33 DEF Return, Goto, Over, clientVars, requestVars, responseVars, endVars, mainVars, EndedBy, Resulting, Opened, Placed, TypeOK
<1>34. CASE Collect("sender")
  BY <1>34 DEF Collect, Goto, Over, clientVars, requestVars, responseVars, endVars, mainVars, EndedBy, Resulting, Opened, Placed, TypeOK
<1>35. CASE Collect("reader")
  BY <1>35 DEF Collect, Goto, Over, clientVars, requestVars, responseVars, endVars, mainVars, EndedBy, Resulting, Opened, Placed, TypeOK
<1>36. CASE RecvReturns
  BY <1>36 DEF RecvReturns, Goto, Over, clientVars, requestVars, responseVars, endVars, mainVars, EndedBy, Resulting, Opened, Placed, TypeOK
<1> QED BY <1>0, <1>1, <1>2, <1>3, <1>4, <1>5, <1>6, <1>7, <1>8, <1>9, <1>10, <1>11, <1>12, <1>13, <1>14, <1>15, <1>16, <1>17, <1>18, <1>19, <1>20, <1>21, <1>22, <1>23, <1>24, <1>25, <1>26, <1>27, <1>28, <1>29, <1>30, <1>31, <1>32, <1>33, <1>34, <1>35, <1>36
  DEF Next, SenderStep, ReaderStep, MainStep

(* An error that was collected cancels the C stream. *)
LEMMA CollectingStep ==
  ASSUME IInv, [Next]_vars
  PROVE  Collecting'
<1> USE BridgeAssumption DEF IInv, Actors, HasRequests, HasResponses, Bidi
<1>0. CASE UNCHANGED vars
  BY <1>0 DEF vars, clientVars, requestVars, responseVars, endVars, mainVars, Collecting, Resulting, Opened, Placed, TypeOK
<1>1. CASE ClientSend
  BY <1>1 DEF ClientSend, Goto, Over, clientVars, requestVars, responseVars, endVars, mainVars, Collecting, Resulting, Opened, Placed, TypeOK
<1>2. CASE ClientCloses
  BY <1>2 DEF ClientCloses, Goto, Over, clientVars, requestVars, responseVars, endVars, mainVars, Collecting, Resulting, Opened, Placed, TypeOK
<1>3. CASE ClientFinishes
  BY <1>3 DEF ClientFinishes, Goto, Over, clientVars, requestVars, responseVars, endVars, mainVars, Collecting, Resulting, Opened, Placed, TypeOK
<1>4. CASE ClientCancels
  BY <1>4 DEF ClientCancels, Goto, Over, clientVars, requestVars, responseVars, endVars, mainVars, Collecting, Resulting, Opened, Placed, TypeOK
<1>5. CASE ClientTakes
  BY <1>5 DEF ClientTakes, Goto, Over, clientVars, requestVars, responseVars, endVars, mainVars, Collecting, Resulting, Opened, Placed, TypeOK
<1>6. CASE RecvWaits
  BY <1>6 DEF RecvWaits, Goto, Over, clientVars, requestVars, responseVars, endVars, mainVars, Collecting, Resulting, Opened, Placed, TypeOK
<1>7. CASE RecvRequest
  BY <1>7 DEF RecvRequest, Goto, Over, clientVars, requestVars, responseVars, endVars, mainVars, Collecting, Resulting, Opened, Placed, TypeOK
<1>8. CASE RecvEOF
  BY <1>8 DEF RecvEOF, Goto, Over, clientVars, requestVars, responseVars, endVars, mainVars, Collecting, Resulting, Opened, Placed, TypeOK
<1>9. CASE RecvCanceled
  BY <1>9 DEF RecvCanceled, SenderFails, Goto, Over, clientVars, requestVars, responseVars, endVars, mainVars, Collecting, Resulting, Opened, Placed, TypeOK
<1>10. CASE Send
  BY <1>10 DEF Send, Goto, Over, clientVars, requestVars, responseVars, endVars, mainVars, Collecting, Resulting, Opened, Placed, TypeOK
<1>11. CASE SendFails
  BY <1>11 DEF SendFails, SenderFails, Goto, Over, clientVars, requestVars, responseVars, endVars, mainVars, Collecting, Resulting, Opened, Placed, TypeOK
<1>12. CASE CloseSend
  BY <1>12 DEF CloseSend, Goto, Over, clientVars, requestVars, responseVars, endVars, mainVars, Collecting, Resulting, Opened, Placed, TypeOK
<1>13. CASE Finish("sender")
  BY <1>13 DEF Finish, Ended, Goto, Over, clientVars, requestVars, responseVars, endVars, mainVars, Collecting, Resulting, Opened, Placed, TypeOK
<1>14. CASE Cancel("sender")
  BY <1>14 DEF Cancel, Ended, Goto, Over, clientVars, requestVars, responseVars, endVars, mainVars, Collecting, Resulting, Opened, Placed, TypeOK
<1>15. CASE StopForFinish
  BY <1>15 DEF StopForFinish, Goto, Over, clientVars, requestVars, responseVars, endVars, mainVars, Collecting, Resulting, Opened, Placed, TypeOK
<1>16. CASE StopForCancel
  BY <1>16 DEF StopForCancel, Goto, Over, clientVars, requestVars, responseVars, endVars, mainVars, Collecting, Resulting, Opened, Placed, TypeOK
<1>17. CASE BeginRecv
  BY <1>17 DEF BeginRecv, Goto, Over, clientVars, requestVars, responseVars, endVars, mainVars, Collecting, Resulting, Opened, Placed, TypeOK
<1>18. CASE AwaitResponse
  BY <1>18 DEF AwaitResponse, Goto, Over, clientVars, requestVars, responseVars, endVars, mainVars, Collecting, Resulting, Opened, Placed, TypeOK
<1>19. CASE AwaitEOF
  BY <1>19 DEF AwaitEOF, ResponsesOver, Goto, Over, clientVars, requestVars, responseVars, endVars, mainVars, Collecting, Resulting, Opened, Placed, TypeOK
<1>20. CASE AwaitError
  BY <1>20 DEF AwaitError, ReaderFails, Goto, Over, clientVars, requestVars, responseVars, endVars, mainVars, Collecting, Resulting, Opened, Placed, TypeOK
<1>21. CASE Forward
  BY <1>21 DEF Forward, Goto, Over, clientVars, requestVars, responseVars, endVars, mainVars, Collecting, Resulting, Opened, Placed, TypeOK
<1>22. CASE ForwardFinished
  BY <1>22 DEF ForwardFinished, ResponsesOver, Goto, Over, clientVars, requestVars, responseVars, endVars, mainVars, Collecting, Resulting, Opened, Placed, TypeOK
<1>23. CASE ForwardFails
  BY <1>23 DEF ForwardFails, ReaderFails, Goto, Over, clientVars, requestVars, responseVars, endVars, mainVars, Collecting, Resulting, Opened, Placed, TypeOK
<1>24. CASE Offer
  BY <1>24 DEF Offer, Goto, Over, clientVars, requestVars, responseVars, endVars, mainVars, Collecting, Resulting, Opened, Placed, TypeOK
<1>25. CASE Acknowledged
  BY <1>25 DEF Acknowledged, Goto, Over, clientVars, requestVars, responseVars, endVars, mainVars, Collecting, Resulting, Opened, Placed, TypeOK
<1>26. CASE Join
  BY <1>26 DEF Join, Goto, Over, clientVars, requestVars, responseVars, endVars, mainVars, Collecting, Resulting, Opened, Placed, TypeOK
<1>27. CASE JoinLast
  BY <1>27 DEF JoinLast, Goto, Over, clientVars, requestVars, responseVars, endVars, mainVars, Collecting, Resulting, Opened, Placed, TypeOK
<1>28. CASE Finish("reader")
  BY <1>28 DEF Finish, Ended, Goto, Over, clientVars, requestVars, responseVars, endVars, mainVars, Collecting, Resulting, Opened, Placed, TypeOK
<1>29. CASE Cancel("reader")
  BY <1>29 DEF Cancel, Ended, Goto, Over, clientVars, requestVars, responseVars, endVars, mainVars, Collecting, Resulting, Opened, Placed, TypeOK
<1>30. CASE Start
  BY <1>30 DEF Start, Goto, Over, clientVars, requestVars, responseVars, endVars, mainVars, Collecting, Resulting, Opened, Placed, TypeOK
<1>31. CASE StartFails
  BY <1>31 DEF StartFails, Goto, Over, clientVars, requestVars, responseVars, endVars, mainVars, Collecting, Resulting, Opened, Placed, TypeOK
<1>32. CASE CancelBridge
  BY <1>32 DEF CancelBridge, Goto, Over, clientVars, requestVars, responseVars, endVars, mainVars, Collecting, Resulting, Opened, Placed, TypeOK
<1>33. CASE Return
  BY <1>33 DEF Return, Goto, Over, clientVars, requestVars, responseVars, endVars, mainVars, Collecting, Resulting, Opened, Placed, TypeOK
<1>34. CASE Collect("sender")
  BY <1>34 DEF Collect, Goto, Over, clientVars, requestVars, responseVars, endVars, mainVars, Collecting, Resulting, Opened, Placed, TypeOK
<1>35. CASE Collect("reader")
  BY <1>35 DEF Collect, Goto, Over, clientVars, requestVars, responseVars, endVars, mainVars, Collecting, Resulting, Opened, Placed, TypeOK
<1>36. CASE RecvReturns
  BY <1>36 DEF RecvReturns, Goto, Over, clientVars, requestVars, responseVars, endVars, mainVars, Collecting, Resulting, Opened, Placed, TypeOK
<1> QED BY <1>0, <1>1, <1>2, <1>3, <1>4, <1>5, <1>6, <1>7, <1>8, <1>9, <1>10, <1>11, <1>12, <1>13, <1>14, <1>15, <1>16, <1>17, <1>18, <1>19, <1>20, <1>21, <1>22, <1>23, <1>24, <1>25, <1>26, <1>27, <1>28, <1>29, <1>30, <1>31, <1>32, <1>33, <1>34, <1>35, <1>36
  DEF Next, SenderStep, ReaderStep, MainStep

(* No request is skipped. *)
LEMMA RequestsStep ==
  ASSUME IInv, [Next]_vars
  PROVE  RequestsPassed'
<1> USE BridgeAssumption DEF IInv, Actors, HasRequests, HasResponses, Bidi
<1>0. CASE UNCHANGED vars
  BY <1>0 DEF vars, clientVars, requestVars, responseVars, endVars, mainVars, RequestsPassed, Opened, Placed, TypeOK
<1>1. CASE ClientSend
  BY <1>1 DEF ClientSend, Goto, Over, clientVars, requestVars, responseVars, endVars, mainVars, RequestsPassed, Opened, Placed, TypeOK
<1>2. CASE ClientCloses
  BY <1>2 DEF ClientCloses, Goto, Over, clientVars, requestVars, responseVars, endVars, mainVars, RequestsPassed, Opened, Placed, TypeOK
<1>3. CASE ClientFinishes
  BY <1>3 DEF ClientFinishes, Goto, Over, clientVars, requestVars, responseVars, endVars, mainVars, RequestsPassed, Opened, Placed, TypeOK
<1>4. CASE ClientCancels
  BY <1>4 DEF ClientCancels, Goto, Over, clientVars, requestVars, responseVars, endVars, mainVars, RequestsPassed, Opened, Placed, TypeOK
<1>5. CASE ClientTakes
  BY <1>5 DEF ClientTakes, Goto, Over, clientVars, requestVars, responseVars, endVars, mainVars, RequestsPassed, Opened, Placed, TypeOK
<1>6. CASE RecvWaits
  BY <1>6 DEF RecvWaits, Goto, Over, clientVars, requestVars, responseVars, endVars, mainVars, RequestsPassed, Opened, Placed, TypeOK
<1>7. CASE RecvRequest
  BY <1>7 DEF RecvRequest, Goto, Over, clientVars, requestVars, responseVars, endVars, mainVars, RequestsPassed, Opened, Placed, TypeOK
<1>8. CASE RecvEOF
  BY <1>8 DEF RecvEOF, Goto, Over, clientVars, requestVars, responseVars, endVars, mainVars, RequestsPassed, Opened, Placed, TypeOK
<1>9. CASE RecvCanceled
  BY <1>9 DEF RecvCanceled, SenderFails, Goto, Over, clientVars, requestVars, responseVars, endVars, mainVars, RequestsPassed, Opened, Placed, TypeOK
<1>10. CASE Send
  BY <1>10 DEF Send, Goto, Over, clientVars, requestVars, responseVars, endVars, mainVars, RequestsPassed, Opened, Placed, TypeOK
<1>11. CASE SendFails
  BY <1>11 DEF SendFails, SenderFails, Goto, Over, clientVars, requestVars, responseVars, endVars, mainVars, RequestsPassed, Opened, Placed, TypeOK
<1>12. CASE CloseSend
  BY <1>12 DEF CloseSend, Goto, Over, clientVars, requestVars, responseVars, endVars, mainVars, RequestsPassed, Opened, Placed, TypeOK
<1>13. CASE Finish("sender")
  BY <1>13 DEF Finish, Ended, Goto, Over, clientVars, requestVars, responseVars, endVars, mainVars, RequestsPassed, Opened, Placed, TypeOK
<1>14. CASE Cancel("sender")
  BY <1>14 DEF Cancel, Ended, Goto, Over, clientVars, requestVars, responseVars, endVars, mainVars, RequestsPassed, Opened, Placed, TypeOK
<1>15. CASE StopForFinish
  BY <1>15 DEF StopForFinish, Goto, Over, clientVars, requestVars, responseVars, endVars, mainVars, RequestsPassed, Opened, Placed, TypeOK
<1>16. CASE StopForCancel
  BY <1>16 DEF StopForCancel, Goto, Over, clientVars, requestVars, responseVars, endVars, mainVars, RequestsPassed, Opened, Placed, TypeOK
<1>17. CASE BeginRecv
  BY <1>17 DEF BeginRecv, Goto, Over, clientVars, requestVars, responseVars, endVars, mainVars, RequestsPassed, Opened, Placed, TypeOK
<1>18. CASE AwaitResponse
  BY <1>18 DEF AwaitResponse, Goto, Over, clientVars, requestVars, responseVars, endVars, mainVars, RequestsPassed, Opened, Placed, TypeOK
<1>19. CASE AwaitEOF
  BY <1>19 DEF AwaitEOF, ResponsesOver, Goto, Over, clientVars, requestVars, responseVars, endVars, mainVars, RequestsPassed, Opened, Placed, TypeOK
<1>20. CASE AwaitError
  BY <1>20 DEF AwaitError, ReaderFails, Goto, Over, clientVars, requestVars, responseVars, endVars, mainVars, RequestsPassed, Opened, Placed, TypeOK
<1>21. CASE Forward
  BY <1>21 DEF Forward, Goto, Over, clientVars, requestVars, responseVars, endVars, mainVars, RequestsPassed, Opened, Placed, TypeOK
<1>22. CASE ForwardFinished
  BY <1>22 DEF ForwardFinished, ResponsesOver, Goto, Over, clientVars, requestVars, responseVars, endVars, mainVars, RequestsPassed, Opened, Placed, TypeOK
<1>23. CASE ForwardFails
  BY <1>23 DEF ForwardFails, ReaderFails, Goto, Over, clientVars, requestVars, responseVars, endVars, mainVars, RequestsPassed, Opened, Placed, TypeOK
<1>24. CASE Offer
  BY <1>24 DEF Offer, Goto, Over, clientVars, requestVars, responseVars, endVars, mainVars, RequestsPassed, Opened, Placed, TypeOK
<1>25. CASE Acknowledged
  BY <1>25 DEF Acknowledged, Goto, Over, clientVars, requestVars, responseVars, endVars, mainVars, RequestsPassed, Opened, Placed, TypeOK
<1>26. CASE Join
  BY <1>26 DEF Join, Goto, Over, clientVars, requestVars, responseVars, endVars, mainVars, RequestsPassed, Opened, Placed, TypeOK
<1>27. CASE JoinLast
  BY <1>27 DEF JoinLast, Goto, Over, clientVars, requestVars, responseVars, endVars, mainVars, RequestsPassed, Opened, Placed, TypeOK
<1>28. CASE Finish("reader")
  BY <1>28 DEF Finish, Ended, Goto, Over, clientVars, requestVars, responseVars, endVars, mainVars, RequestsPassed, Opened, Placed, TypeOK
<1>29. CASE Cancel("reader")
  BY <1>29 DEF Cancel, Ended, Goto, Over, clientVars, requestVars, responseVars, endVars, mainVars, RequestsPassed, Opened, Placed, TypeOK
<1>30. CASE Start
  BY <1>30 DEF Start, Goto, Over, clientVars, requestVars, responseVars, endVars, mainVars, RequestsPassed, Opened, Placed, TypeOK
<1>31. CASE StartFails
  BY <1>31 DEF StartFails, Goto, Over, clientVars, requestVars, responseVars, endVars, mainVars, RequestsPassed, Opened, Placed, TypeOK
<1>32. CASE CancelBridge
  BY <1>32 DEF CancelBridge, Goto, Over, clientVars, requestVars, responseVars, endVars, mainVars, RequestsPassed, Opened, Placed, TypeOK
<1>33. CASE Return
  BY <1>33 DEF Return, Goto, Over, clientVars, requestVars, responseVars, endVars, mainVars, RequestsPassed, Opened, Placed, TypeOK
<1>34. CASE Collect("sender")
  BY <1>34 DEF Collect, Goto, Over, clientVars, requestVars, responseVars, endVars, mainVars, RequestsPassed, Opened, Placed, TypeOK
<1>35. CASE Collect("reader")
  BY <1>35 DEF Collect, Goto, Over, clientVars, requestVars, responseVars, endVars, mainVars, RequestsPassed, Opened, Placed, TypeOK
<1>36. CASE RecvReturns
  BY <1>36 DEF RecvReturns, Goto, Over, clientVars, requestVars, responseVars, endVars, mainVars, RequestsPassed, Opened, Placed, TypeOK
<1> QED BY <1>0, <1>1, <1>2, <1>3, <1>4, <1>5, <1>6, <1>7, <1>8, <1>9, <1>10, <1>11, <1>12, <1>13, <1>14, <1>15, <1>16, <1>17, <1>18, <1>19, <1>20, <1>21, <1>22, <1>23, <1>24, <1>25, <1>26, <1>27, <1>28, <1>29, <1>30, <1>31, <1>32, <1>33, <1>34, <1>35, <1>36
  DEF Next, SenderStep, ReaderStep, MainStep

(* No response is skipped. *)
LEMMA ResponsesStep ==
  ASSUME IInv, [Next]_vars
  PROVE  ResponsesForwarded'
<1> USE BridgeAssumption DEF IInv, Actors, HasRequests, HasResponses, Bidi
<1>0. CASE UNCHANGED vars
  BY <1>0 DEF vars, clientVars, requestVars, responseVars, endVars, mainVars, ResponsesForwarded, Opened, Placed, TypeOK
<1>1. CASE ClientSend
  BY <1>1 DEF ClientSend, Goto, Over, clientVars, requestVars, responseVars, endVars, mainVars, ResponsesForwarded, Opened, Placed, TypeOK
<1>2. CASE ClientCloses
  BY <1>2 DEF ClientCloses, Goto, Over, clientVars, requestVars, responseVars, endVars, mainVars, ResponsesForwarded, Opened, Placed, TypeOK
<1>3. CASE ClientFinishes
  BY <1>3 DEF ClientFinishes, Goto, Over, clientVars, requestVars, responseVars, endVars, mainVars, ResponsesForwarded, Opened, Placed, TypeOK
<1>4. CASE ClientCancels
  BY <1>4 DEF ClientCancels, Goto, Over, clientVars, requestVars, responseVars, endVars, mainVars, ResponsesForwarded, Opened, Placed, TypeOK
<1>5. CASE ClientTakes
  BY <1>5 DEF ClientTakes, Goto, Over, clientVars, requestVars, responseVars, endVars, mainVars, ResponsesForwarded, Opened, Placed, TypeOK
<1>6. CASE RecvWaits
  BY <1>6 DEF RecvWaits, Goto, Over, clientVars, requestVars, responseVars, endVars, mainVars, ResponsesForwarded, Opened, Placed, TypeOK
<1>7. CASE RecvRequest
  BY <1>7 DEF RecvRequest, Goto, Over, clientVars, requestVars, responseVars, endVars, mainVars, ResponsesForwarded, Opened, Placed, TypeOK
<1>8. CASE RecvEOF
  BY <1>8 DEF RecvEOF, Goto, Over, clientVars, requestVars, responseVars, endVars, mainVars, ResponsesForwarded, Opened, Placed, TypeOK
<1>9. CASE RecvCanceled
  BY <1>9 DEF RecvCanceled, SenderFails, Goto, Over, clientVars, requestVars, responseVars, endVars, mainVars, ResponsesForwarded, Opened, Placed, TypeOK
<1>10. CASE Send
  BY <1>10 DEF Send, Goto, Over, clientVars, requestVars, responseVars, endVars, mainVars, ResponsesForwarded, Opened, Placed, TypeOK
<1>11. CASE SendFails
  BY <1>11 DEF SendFails, SenderFails, Goto, Over, clientVars, requestVars, responseVars, endVars, mainVars, ResponsesForwarded, Opened, Placed, TypeOK
<1>12. CASE CloseSend
  BY <1>12 DEF CloseSend, Goto, Over, clientVars, requestVars, responseVars, endVars, mainVars, ResponsesForwarded, Opened, Placed, TypeOK
<1>13. CASE Finish("sender")
  BY <1>13 DEF Finish, Ended, Goto, Over, clientVars, requestVars, responseVars, endVars, mainVars, ResponsesForwarded, Opened, Placed, TypeOK
<1>14. CASE Cancel("sender")
  BY <1>14 DEF Cancel, Ended, Goto, Over, clientVars, requestVars, responseVars, endVars, mainVars, ResponsesForwarded, Opened, Placed, TypeOK
<1>15. CASE StopForFinish
  BY <1>15 DEF StopForFinish, Goto, Over, clientVars, requestVars, responseVars, endVars, mainVars, ResponsesForwarded, Opened, Placed, TypeOK
<1>16. CASE StopForCancel
  BY <1>16 DEF StopForCancel, Goto, Over, clientVars, requestVars, responseVars, endVars, mainVars, ResponsesForwarded, Opened, Placed, TypeOK
<1>17. CASE BeginRecv
  <2>1. pc["reader"] = "await" /\ pc' = [pc EXCEPT !["reader"] = "awaiting"] /\ recv' = "running"
    BY <1>17 DEF BeginRecv, Goto
  <2>2. UNCHANGED <<finishRequested, responded, produced, forwarded, result>>
    BY <1>17 DEF BeginRecv, Goto, clientVars
  <2>3. pc'["reader"] = "awaiting" /\ result["reader"] # "ok"
    BY <1>17, <2>1 DEF BeginRecv, TypeOK, Opened, Resulting
  <2>4. forwarded = produced /\ responded = forwarded
    BY <2>1 DEF ResponsesForwarded
  <2>5. forwarded \in Nat
    BY DEF TypeOK
  <2>6. forwarded' + (IF recv' = "response" THEN 1 ELSE 0) = produced'
    BY <2>1, <2>2, <2>4, <2>5
  <2>7. responded' = forwarded' /\ result'["reader"] # "ok"
    BY <2>2, <2>3, <2>4
  <2> QED BY <2>3, <2>6, <2>7 DEF ResponsesForwarded
<1>18. CASE AwaitResponse
  BY <1>18 DEF AwaitResponse, Goto, Over, clientVars, requestVars, responseVars, endVars, mainVars, ResponsesForwarded, Opened, Placed, TypeOK
<1>19. CASE AwaitEOF
  BY <1>19 DEF AwaitEOF, ResponsesOver, Goto, Over, clientVars, requestVars, responseVars, endVars, mainVars, ResponsesForwarded, Opened, Placed, TypeOK
<1>20. CASE AwaitError
  BY <1>20 DEF AwaitError, ReaderFails, Goto, Over, clientVars, requestVars, responseVars, endVars, mainVars, ResponsesForwarded, Opened, Placed, TypeOK
<1>21. CASE Forward
  BY <1>21 DEF Forward, Goto, Over, clientVars, requestVars, responseVars, endVars, mainVars, ResponsesForwarded, Opened, Placed, TypeOK
<1>22. CASE ForwardFinished
  BY <1>22 DEF ForwardFinished, ResponsesOver, Goto, Over, clientVars, requestVars, responseVars, endVars, mainVars, ResponsesForwarded, Opened, Placed, TypeOK
<1>23. CASE ForwardFails
  BY <1>23 DEF ForwardFails, ReaderFails, Goto, Over, clientVars, requestVars, responseVars, endVars, mainVars, ResponsesForwarded, Opened, Placed, TypeOK
<1>24. CASE Offer
  BY <1>24 DEF Offer, Goto, Over, clientVars, requestVars, responseVars, endVars, mainVars, ResponsesForwarded, Opened, Placed, TypeOK
<1>25. CASE Acknowledged
  BY <1>25 DEF Acknowledged, Goto, Over, clientVars, requestVars, responseVars, endVars, mainVars, ResponsesForwarded, Opened, Placed, TypeOK
<1>26. CASE Join
  BY <1>26 DEF Join, Goto, Over, clientVars, requestVars, responseVars, endVars, mainVars, ResponsesForwarded, Opened, Placed, TypeOK
<1>27. CASE JoinLast
  BY <1>27 DEF JoinLast, Goto, Over, clientVars, requestVars, responseVars, endVars, mainVars, ResponsesForwarded, Opened, Placed, TypeOK
<1>28. CASE Finish("reader")
  BY <1>28 DEF Finish, Ended, Goto, Over, clientVars, requestVars, responseVars, endVars, mainVars, ResponsesForwarded, Opened, Placed, TypeOK
<1>29. CASE Cancel("reader")
  BY <1>29 DEF Cancel, Ended, Goto, Over, clientVars, requestVars, responseVars, endVars, mainVars, ResponsesForwarded, Opened, Placed, TypeOK
<1>30. CASE Start
  BY <1>30 DEF Start, Goto, Over, clientVars, requestVars, responseVars, endVars, mainVars, ResponsesForwarded, Opened, Placed, TypeOK
<1>31. CASE StartFails
  BY <1>31 DEF StartFails, Goto, Over, clientVars, requestVars, responseVars, endVars, mainVars, ResponsesForwarded, Opened, Placed, TypeOK
<1>32. CASE CancelBridge
  BY <1>32 DEF CancelBridge, Goto, Over, clientVars, requestVars, responseVars, endVars, mainVars, ResponsesForwarded, Opened, Placed, TypeOK
<1>33. CASE Return
  BY <1>33 DEF Return, Goto, Over, clientVars, requestVars, responseVars, endVars, mainVars, ResponsesForwarded, Opened, Placed, TypeOK
<1>34. CASE Collect("sender")
  BY <1>34 DEF Collect, Goto, Over, clientVars, requestVars, responseVars, endVars, mainVars, ResponsesForwarded, Opened, Placed, TypeOK
<1>35. CASE Collect("reader")
  BY <1>35 DEF Collect, Goto, Over, clientVars, requestVars, responseVars, endVars, mainVars, ResponsesForwarded, Opened, Placed, TypeOK
<1>36. CASE RecvReturns
  BY <1>36 DEF RecvReturns, Goto, Over, clientVars, requestVars, responseVars, endVars, mainVars, ResponsesForwarded, Opened, Placed, TypeOK
<1> QED BY <1>0, <1>1, <1>2, <1>3, <1>4, <1>5, <1>6, <1>7, <1>8, <1>9, <1>10, <1>11, <1>12, <1>13, <1>14, <1>15, <1>16, <1>17, <1>18, <1>19, <1>20, <1>21, <1>22, <1>23, <1>24, <1>25, <1>26, <1>27, <1>28, <1>29, <1>30, <1>31, <1>32, <1>33, <1>34, <1>35, <1>36
  DEF Next, SenderStep, ReaderStep, MainStep

(* The sender's result decides. *)
LEMMA JoinedStep ==
  ASSUME IInv, [Next]_vars
  PROVE  Joined'
<1> USE BridgeAssumption DEF IInv, Actors, HasRequests, HasResponses, Bidi
<1>0. CASE UNCHANGED vars
  BY <1>0 DEF vars, clientVars, requestVars, responseVars, endVars, mainVars, Joined, Resulting, Opened, Placed, TypeOK
<1>1. CASE ClientSend
  BY <1>1 DEF ClientSend, Goto, Over, clientVars, requestVars, responseVars, endVars, mainVars, Joined, Resulting, Opened, Placed, TypeOK
<1>2. CASE ClientCloses
  BY <1>2 DEF ClientCloses, Goto, Over, clientVars, requestVars, responseVars, endVars, mainVars, Joined, Resulting, Opened, Placed, TypeOK
<1>3. CASE ClientFinishes
  BY <1>3 DEF ClientFinishes, Goto, Over, clientVars, requestVars, responseVars, endVars, mainVars, Joined, Resulting, Opened, Placed, TypeOK
<1>4. CASE ClientCancels
  BY <1>4 DEF ClientCancels, Goto, Over, clientVars, requestVars, responseVars, endVars, mainVars, Joined, Resulting, Opened, Placed, TypeOK
<1>5. CASE ClientTakes
  BY <1>5 DEF ClientTakes, Goto, Over, clientVars, requestVars, responseVars, endVars, mainVars, Joined, Resulting, Opened, Placed, TypeOK
<1>6. CASE RecvWaits
  BY <1>6 DEF RecvWaits, Goto, Over, clientVars, requestVars, responseVars, endVars, mainVars, Joined, Resulting, Opened, Placed, TypeOK
<1>7. CASE RecvRequest
  BY <1>7 DEF RecvRequest, Goto, Over, clientVars, requestVars, responseVars, endVars, mainVars, Joined, Resulting, Opened, Placed, TypeOK
<1>8. CASE RecvEOF
  BY <1>8 DEF RecvEOF, Goto, Over, clientVars, requestVars, responseVars, endVars, mainVars, Joined, Resulting, Opened, Placed, TypeOK
<1>9. CASE RecvCanceled
  BY <1>9 DEF RecvCanceled, SenderFails, Goto, Over, clientVars, requestVars, responseVars, endVars, mainVars, Joined, Resulting, Opened, Placed, TypeOK
<1>10. CASE Send
  BY <1>10 DEF Send, Goto, Over, clientVars, requestVars, responseVars, endVars, mainVars, Joined, Resulting, Opened, Placed, TypeOK
<1>11. CASE SendFails
  BY <1>11 DEF SendFails, SenderFails, Goto, Over, clientVars, requestVars, responseVars, endVars, mainVars, Joined, Resulting, Opened, Placed, TypeOK
<1>12. CASE CloseSend
  BY <1>12 DEF CloseSend, Goto, Over, clientVars, requestVars, responseVars, endVars, mainVars, Joined, Resulting, Opened, Placed, TypeOK
<1>13. CASE Finish("sender")
  BY <1>13 DEF Finish, Ended, Goto, Over, clientVars, requestVars, responseVars, endVars, mainVars, Joined, Resulting, Opened, Placed, TypeOK
<1>14. CASE Cancel("sender")
  BY <1>14 DEF Cancel, Ended, Goto, Over, clientVars, requestVars, responseVars, endVars, mainVars, Joined, Resulting, Opened, Placed, TypeOK
<1>15. CASE StopForFinish
  BY <1>15 DEF StopForFinish, Goto, Over, clientVars, requestVars, responseVars, endVars, mainVars, Joined, Resulting, Opened, Placed, TypeOK
<1>16. CASE StopForCancel
  BY <1>16 DEF StopForCancel, Goto, Over, clientVars, requestVars, responseVars, endVars, mainVars, Joined, Resulting, Opened, Placed, TypeOK
<1>17. CASE BeginRecv
  BY <1>17 DEF BeginRecv, Goto, Over, clientVars, requestVars, responseVars, endVars, mainVars, Joined, Resulting, Opened, Placed, TypeOK
<1>18. CASE AwaitResponse
  BY <1>18 DEF AwaitResponse, Goto, Over, clientVars, requestVars, responseVars, endVars, mainVars, Joined, Resulting, Opened, Placed, TypeOK
<1>19. CASE AwaitEOF
  BY <1>19 DEF AwaitEOF, ResponsesOver, Goto, Over, clientVars, requestVars, responseVars, endVars, mainVars, Joined, Resulting, Opened, Placed, TypeOK
<1>20. CASE AwaitError
  BY <1>20 DEF AwaitError, ReaderFails, Goto, Over, clientVars, requestVars, responseVars, endVars, mainVars, Joined, Resulting, Opened, Placed, TypeOK
<1>21. CASE Forward
  BY <1>21 DEF Forward, Goto, Over, clientVars, requestVars, responseVars, endVars, mainVars, Joined, Resulting, Opened, Placed, TypeOK
<1>22. CASE ForwardFinished
  BY <1>22 DEF ForwardFinished, ResponsesOver, Goto, Over, clientVars, requestVars, responseVars, endVars, mainVars, Joined, Resulting, Opened, Placed, TypeOK
<1>23. CASE ForwardFails
  BY <1>23 DEF ForwardFails, ReaderFails, Goto, Over, clientVars, requestVars, responseVars, endVars, mainVars, Joined, Resulting, Opened, Placed, TypeOK
<1>24. CASE Offer
  BY <1>24 DEF Offer, Goto, Over, clientVars, requestVars, responseVars, endVars, mainVars, Joined, Resulting, Opened, Placed, TypeOK
<1>25. CASE Acknowledged
  BY <1>25 DEF Acknowledged, Goto, Over, clientVars, requestVars, responseVars, endVars, mainVars, Joined, Resulting, Opened, Placed, TypeOK
<1>26. CASE Join
  BY <1>26 DEF Join, Goto, Over, clientVars, requestVars, responseVars, endVars, mainVars, Joined, Resulting, Opened, Placed, TypeOK
<1>27. CASE JoinLast
  BY <1>27 DEF JoinLast, Goto, Over, clientVars, requestVars, responseVars, endVars, mainVars, Joined, Resulting, Opened, Placed, TypeOK
<1>28. CASE Finish("reader")
  BY <1>28 DEF Finish, Ended, Goto, Over, clientVars, requestVars, responseVars, endVars, mainVars, Joined, Resulting, Opened, Placed, TypeOK
<1>29. CASE Cancel("reader")
  BY <1>29 DEF Cancel, Ended, Goto, Over, clientVars, requestVars, responseVars, endVars, mainVars, Joined, Resulting, Opened, Placed, TypeOK
<1>30. CASE Start
  BY <1>30 DEF Start, Goto, Over, clientVars, requestVars, responseVars, endVars, mainVars, Joined, Resulting, Opened, Placed, TypeOK
<1>31. CASE StartFails
  BY <1>31 DEF StartFails, Goto, Over, clientVars, requestVars, responseVars, endVars, mainVars, Joined, Resulting, Opened, Placed, TypeOK
<1>32. CASE CancelBridge
  BY <1>32 DEF CancelBridge, Goto, Over, clientVars, requestVars, responseVars, endVars, mainVars, Joined, Resulting, Opened, Placed, TypeOK
<1>33. CASE Return
  BY <1>33 DEF Return, Goto, Over, clientVars, requestVars, responseVars, endVars, mainVars, Joined, Resulting, Opened, Placed, TypeOK
<1>34. CASE Collect("sender")
  BY <1>34 DEF Collect, Goto, Over, clientVars, requestVars, responseVars, endVars, mainVars, Joined, Resulting, Opened, Placed, TypeOK
<1>35. CASE Collect("reader")
  BY <1>35 DEF Collect, Goto, Over, clientVars, requestVars, responseVars, endVars, mainVars, Joined, Resulting, Opened, Placed, TypeOK
<1>36. CASE RecvReturns
  BY <1>36 DEF RecvReturns, Goto, Over, clientVars, requestVars, responseVars, endVars, mainVars, Joined, Resulting, Opened, Placed, TypeOK
<1> QED BY <1>0, <1>1, <1>2, <1>3, <1>4, <1>5, <1>6, <1>7, <1>8, <1>9, <1>10, <1>11, <1>12, <1>13, <1>14, <1>15, <1>16, <1>17, <1>18, <1>19, <1>20, <1>21, <1>22, <1>23, <1>24, <1>25, <1>26, <1>27, <1>28, <1>29, <1>30, <1>31, <1>32, <1>33, <1>34, <1>35, <1>36
  DEF Next, SenderStep, ReaderStep, MainStep

-----------------------------------------------------------------------------
LEMMA NextIInv ==
  ASSUME IInv, [Next]_vars
  PROVE  IInv'
BY TypeStep, PlacedStep, OpenedStep, ResultingStep, EndedByStep, CollectingStep, RequestsStep,
   ResponsesStep, JoinedStep DEF IInv

LEMMA AlwaysIInv == Spec => []IInv
BY InitIInv, NextIInv, PTL DEF Spec

(* Whose result is the method's. *)
LEMMA OutcomeOfKind ==
  /\ bridge = "client" => Outcome = result["sender"]
  /\ bridge = "bidiMessage" => Outcome = result["main"]
  /\ bridge \in {"server", "bidiNative"} => Outcome = result["reader"]
BY DEF Outcome

LEMMA EndedFromIInv == IInv => EndedOnReturn
<1> SUFFICES ASSUME IInv PROVE EndedOnReturn
  OBVIOUS
<1> USE OutcomeOfKind DEF IInv, HasRequests, HasResponses, Bidi
<1>0. finishes \in Nat /\ cancels \in Nat
  BY DEF TypeOK
<1>1. CASE bridge = "client"
  BY <1>0, <1>1 DEF EndedOnReturn, EndedBy, Resulting
<1>2. CASE bridge \in {"server", "bidiNative"}
  BY <1>0, <1>2 DEF EndedOnReturn, EndedBy, Resulting
<1>3. CASE bridge = "bidiMessage"
  <2>1. finishes <= 1 /\ cancels <= 1
    BY <1>3 DEF EndedBy
  <2>2. ASSUME opened, Outcome # "none"
        PROVE  finishes + cancels > 0
    <3>1. pc["main"] = "over" /\ collected = {"sender", "reader"}
      BY <1>3, <2>2 DEF Resulting, Collecting
    <3>2. result["reader"] \in {"ok", "error"}
      BY <1>3, <2>2, <3>1 DEF Collecting, TypeOK, Actors
    <3>3. CASE result["reader"] = "ok"
      BY <1>0, <1>3, <2>2, <3>3 DEF EndedBy
    <3>4. CASE result["reader"] = "error"
      BY <1>0, <1>3, <2>2, <3>1, <3>4 DEF Collecting
    <3> QED BY <3>2, <3>3, <3>4
  <2> QED BY <1>3, <2>1, <2>2 DEF EndedOnReturn
<1> QED BY <1>1, <1>2, <1>3 DEF TypeOK

LEMMA CompleteFromIInv == IInv => SuccessIsComplete
<1> SUFFICES ASSUME IInv, Outcome = "ok" PROVE SuccessIsComplete
  BY DEF SuccessIsComplete
<1> USE OutcomeOfKind DEF IInv, HasRequests, HasResponses, Bidi
<1>1. CASE bridge = "client"
  BY <1>1 DEF SuccessIsComplete, RequestsPassed
<1>2. CASE bridge = "server"
  BY <1>2 DEF SuccessIsComplete, ResponsesForwarded
<1>3. CASE bridge = "bidiNative"
  BY <1>3 DEF SuccessIsComplete, RequestsPassed, ResponsesForwarded, Joined
<1>4. CASE bridge = "bidiMessage"
  <2>1. opened
    BY <1>4 DEF Opened
  <2>2. collected = {"sender", "reader"}
    BY <1>4, <2>1 DEF Resulting, Collecting
  <2>3. result["sender"] = "ok" /\ result["reader"] = "ok"
    BY <1>4, <2>1, <2>2 DEF Collecting, TypeOK, Actors
  <2> QED BY <1>4, <2>3 DEF SuccessIsComplete, RequestsPassed, ResponsesForwarded
<1> QED BY <1>1, <1>2, <1>3, <1>4 DEF TypeOK

(* Once a stream with one loop is ended its loop is over. *)
LEMMA NothingFromIInv ==
  ASSUME IInv, [Next]_vars, ~Bidi, finishes + cancels > 0
  PROVE  UNCHANGED <<received, passed>> /\ (recv' = "running" => recv = "running")
<1> USE DEF IInv, Bidi, HasRequests, HasResponses
<1>1. CASE bridge = "client"
  <2>1. opened /\ pc["sender"] = "over" /\ pc["reader"] = "off" /\ pc["main"] = "over"
    BY <1>1 DEF EndedBy, Opened, Placed, TypeOK
  <2> QED BY <1>1, <2>1
    DEF Next, SenderStep, ReaderStep, MainStep, vars, requestVars, responseVars,
        ClientSend, ClientCloses, ClientFinishes, ClientCancels, ClientTakes, RecvWaits,
        RecvRequest, RecvEOF, RecvCanceled, Send, SendFails, CloseSend, Finish, Cancel,
        StopForFinish, StopForCancel, BeginRecv, AwaitResponse, AwaitEOF, AwaitError, Forward,
        ForwardFinished, ForwardFails, Offer, Acknowledged, Join, JoinLast, Start, StartFails,
        CancelBridge, Return, Collect, RecvReturns
<1>2. CASE bridge = "server"
  <2>1. opened /\ pc["sender"] = "off" /\ pc["reader"] = "over" /\ pc["main"] = "over"
    BY <1>2 DEF EndedBy, Opened, Placed, TypeOK
  <2> QED BY <1>2, <2>1
    DEF Next, SenderStep, ReaderStep, MainStep, vars, requestVars, responseVars,
        ClientSend, ClientCloses, ClientFinishes, ClientCancels, ClientTakes, RecvWaits,
        RecvRequest, RecvEOF, RecvCanceled, Send, SendFails, CloseSend, Finish, Cancel,
        StopForFinish, StopForCancel, BeginRecv, AwaitResponse, AwaitEOF, AwaitError, Forward,
        ForwardFinished, ForwardFails, Offer, Acknowledged, Join, JoinLast, Start, StartFails,
        CancelBridge, Return, Collect, RecvReturns
<1> QED BY <1>1, <1>2 DEF TypeOK

(* A goroutine that waits is woken by the end, by an answer of C, or by    *)
(* one that can go on: the sender never waits once the requests are over.  *)
LEMMA SenderGoes ==
  ASSUME IInv, opened, HasRequests, result["sender"] = "none", ContextDone \/ sendDone
  PROVE  CanGo("sender")
BY DEF IInv, Placed, Opened, Resulting, CanGo

LEMMA ReaderGoes ==
  ASSUME IInv, opened, HasResponses, result["reader"] = "none", ContextDone \/ finishRequested,
         pc["reader"] \in {"join", "joinOk", "joinError"} => result["sender"] # "none"
  PROVE  CanGo("reader")
BY DEF IInv, Placed, Opened, Resulting, CanGo

(* The message adapter's method collects what is there to collect.         *)
LEMMA MainGoes ==
  ASSUME IInv, opened, bridge = "bidiMessage", result["main"] = "none",
         \A a \in {"sender", "reader"} \ collected : result[a] # "none"
  PROVE  CanGo("main")
BY DEF IInv, Placed, Opened, Resulting, CanGo

LEMMA StuckFromIInv == IInv => NobodyStuck
<1> SUFFICES ASSUME IInv PROVE NobodyStuck
  OBVIOUS
<1>0. /\ bridge \in {"client", "server", "bidiMessage", "bidiNative"}
      /\ CanGo("sender") \/ CanGo("reader") \/ CanGo("main") => \E a \in Actors : CanGo(a)
  BY DEF IInv, TypeOK, Actors
<1>1. ASSUME ~opened, Outcome = "none" \/ (HasRequests /\ result["sender"] = "none")
      PROVE  CanGo("main")
  <2>1. pc["main"] = "start" BY <1>0, <1>1, OutcomeOfKind DEF IInv, Opened
  <2> QED BY <2>1 DEF CanGo
<1>2. ASSUME opened, ToldToEnd, Unfinished
      PROVE  CanGo("sender") \/ CanGo("reader") \/ CanGo("main")
  <2>1. /\ ContextDone \/ sendDone
        /\ bridge # "client" => ContextDone \/ finishRequested
    BY <1>2 DEF ToldToEnd, ContextDone, IInv, Placed
  <2>2. CASE HasRequests /\ result["sender"] = "none"
    BY <1>2, <2>1, <2>2, SenderGoes
  <2>3. CASE ~(HasRequests /\ result["sender"] = "none")
    <3>1. Outcome = "none" BY <1>2, <2>3 DEF Unfinished
    <3>2. bridge # "client" BY <2>3, <3>1, OutcomeOfKind DEF HasRequests
    <3>3. CASE result["reader"] = "none"
      <4>1. pc["reader"] \in {"join", "joinOk", "joinError"} => result["sender"] # "none"
        BY <2>3 DEF IInv, Placed, HasRequests
      <4> QED BY <1>2, <2>1, <3>2, <3>3, <4>1, ReaderGoes DEF HasResponses
    <3>4. CASE result["reader"] # "none"
      <4>1. bridge = "bidiMessage" /\ result["main"] = "none"
        BY <1>0, <3>1, <3>2, <3>4, OutcomeOfKind
      <4>2. \A a \in {"sender", "reader"} : result[a] # "none"
        BY <2>3, <3>4, <4>1 DEF HasRequests
      <4> QED BY <1>2, <4>1, <4>2, MainGoes
    <3> QED BY <3>3, <3>4
  <2> QED BY <2>2, <2>3
<1>3. ASSUME opened, bridge = "bidiMessage", result["sender"] = "error", Outcome = "none"
      PROVE  CanGo("reader") \/ CanGo("main")
  <2>1. result["main"] = "none" BY <1>3, OutcomeOfKind
  <2>2. pc["main"] \in {"collect", "cancel"}
    BY <1>3, <2>1 DEF IInv, Placed, Opened, Resulting
  <2>3. CASE pc["main"] = "cancel"
    BY <2>3 DEF CanGo
  <2>4. CASE pc["main"] = "collect" /\ "sender" \notin collected
    BY <1>3, <2>4 DEF CanGo
  <2>5. CASE pc["main"] = "collect" /\ "sender" \in collected
    <3>1. ContextDone
      BY <1>3, <2>5 DEF IInv, Collecting, ContextDone
    <3>2. CASE result["reader"] = "none"
      BY <1>3, <3>1, <3>2, ReaderGoes DEF HasResponses
    <3>3. CASE result["reader"] # "none"
      BY <1>3, <2>1, <3>3, MainGoes
    <3> QED BY <3>2, <3>3
  <2> QED BY <2>2, <2>3, <2>4, <2>5
<1>4. opened \in BOOLEAN
  BY DEF IInv, TypeOK
<1> QED BY <1>0, <1>1, <1>2, <1>3, <1>4 DEF NobodyStuck, Unfinished

(* A C stream that was started is ended when its method returns, by one    *)
(* Finish or Cancel but on the bidi streams of the message adapter.        *)
THEOREM EndedOnReturnHolds == Spec => []EndedOnReturn
BY AlwaysIInv, EndedFromIInv, PTL

(* A method that reports success passed on every request and response. *)
THEOREM SuccessIsCompleteHolds == Spec => []SuccessIsComplete
BY AlwaysIInv, CompleteFromIInv, PTL

(* A stream with one loop is not used after its end. *)
THEOREM NothingAfterEndHolds == Spec => NothingAfterEnd
<1>1. IInv /\ [Next]_vars =>
        [~Bidi /\ finishes + cancels > 0
           => UNCHANGED <<received, passed>> /\ (recv' = "running" => recv = "running")]_vars
  BY NothingFromIInv
<1> QED BY <1>1, AlwaysIInv, PTL DEF Spec, NothingAfterEnd

(* Whenever a method was told to end, or its sender failed, one of its     *)
(* goroutines can go on without C's Recv and without the client.           *)
THEOREM NobodyStuckHolds == Spec => []NobodyStuck
BY AlwaysIInv, StuckFromIInv, PTL

=============================================================================
