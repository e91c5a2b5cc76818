----------------------- MODULE ServerRegistrationProofs -----------------------
(***************************************************************************)
(* Registrations of any number of methods by any number of threads: the    *)
(* callbacks of a stream come from one of them, and none is lost.          *)
(***************************************************************************)
EXTENDS ServerRegistration, TLAPS

Registering == {"locked", "copied", "registered"}

(* A thread inside a C registration holds the mutex of its kind. *)
MutexHeld == \A t \in Threads : pc[t] \in Registering => mutex[request[t].kind] = t

(* All callbacks an adapter has for a method are of one registration. *)
Uniform(a) ==
  \A m \in Methods : \A o, p \in CallbackOperations(Streaming(m)) : a[m][o] = a[m][p]

AdaptersUniform ==
  /\ \A i \in 1 .. Len(adapters) : Uniform(adapters[i])
  /\ \A t \in Threads : Uniform(copied[t])

(* A call has a method; a stream being started has all its callbacks. *)
InPlace(t) ==
  /\ pc[t] \in {"loaded", "started"} => method[t] \in Methods
  /\ pc[t] = "started" =>
       /\ loaded[t].server # GoServer
       /\ "start" \in Bridge(t)
       /\ \A o \in Bridge(t) : Callback(t, o) # 0
       /\ used[t] = {Callback(t, "start")}
CallInPlace == \A t \in Threads : InPlace(t)

(* The current server is of a kind that is generated. *)
KindsGenerated ==
  /\ current.kind = "none" => current.server = GoServer
  /\ current.kind # "none" => current.kind \in RegistrationSources(selection)
  /\ \A t \in Threads :
       /\ pc[t] \in Registering => request[t].kind \in RegistrationSources(selection)
       /\ pc[t] = "loaded" => loaded[t].kind \in RegistrationSources(selection)

(* Something is promised only of the kind that is current. *)
KnownIsCurrent ==
  \A k \in CGOKinds :
    current.kind # k \/ current.server = GoServer => \A m \in Methods : ~latest[k][m].known

(* What a registration copied is what it will have to keep. *)
CopiedIsLatest ==
  \A t \in Threads : pc[t] = "copied" =>
    \A m \in Methods :
      latest[request[t].kind][m].known =>
        \A o \in CallbackOperations(Streaming(m)) :
          copied[t][m][o] = latest[request[t].kind][m].number

IInv ==
  /\ TypeOK
  /\ MutexHeld
  /\ AdaptersUniform
  /\ CallInPlace
  /\ OneRegistrationPerStream
  /\ KindsGenerated
  /\ KnownIsCurrent
  /\ NoLostUpdate
  /\ CopiedIsLatest

Operations == {"unary", "start", "send", "recv", "closeSend", "finish", "cancel"}
Forms == {"unary", "client_streaming", "server_streaming", "bidi_streaming"}

-----------------------------------------------------------------------------
(* A bridge of a shape takes exactly the callbacks that a registration has *)
(* to bring for the kind of method.                                        *)
LEMMA BridgeTakesWhatIsGiven ==
  ASSUME NEW s \in Forms
  PROVE  /\ BridgeOperations(Shape(Capabilities(s))) = CallbackOperations(s)
         /\ CallbackOperations(s) \subseteq Operations
<1>1. CASE s = "unary"
  BY <1>1 DEF Capabilities, Shape, BridgeOperations, CallbackOperations, Operations
<1>2. CASE s = "client_streaming"
  <2>1. Shape(Capabilities(s)) = "client"
    BY <1>2 DEF Capabilities, Shape
  <2> QED BY <1>2, <2>1 DEF BridgeOperations, CallbackOperations, Operations
<1>3. CASE s = "server_streaming"
  <2>1. Capabilities(s) = {"recv"}
    BY <1>3 DEF Capabilities
  <2>2. Shape({"recv"}) = "server"
    BY DEF Shape
  <2> QED BY <1>3, <2>1, <2>2 DEF BridgeOperations, CallbackOperations, Operations
<1>4. CASE s = "bidi_streaming"
  <2>1. Capabilities(s) = {"send", "recv", "closeSend"}
    BY <1>4 DEF Capabilities
  <2>2. Shape({"send", "recv", "closeSend"}) = "bidi"
    BY DEF Shape
  <2> QED BY <1>4, <2>1, <2>2 DEF BridgeOperations, CallbackOperations, Operations
<1> QED BY <1>1, <1>2, <1>3, <1>4 DEF Forms

LEMMA StreamingForm ==
  ASSUME NEW m
  PROVE  Streaming(m) \in Forms
BY DEF Streaming, Forms

(* The operations of a bridge, for the method of a call. *)
LEMMA BridgeOfMethod ==
  ASSUME NEW t
  PROVE  /\ Bridge(t) = CallbackOperations(Streaming(method[t]))
         /\ Bridge(t) \subseteq Operations
BY StreamingForm, BridgeTakesWhatIsGiven DEF Bridge

(* Every way to register has a case in the switch over the kind. *)
LEMMA RoutesCoverSources ==
  ASSUME NEW s \in Selections
  PROVE  RegistrationSources(s) \subseteq Routes(s)
BY DEF Selections, RegistrationSources, Routes, TransportKinds

LEMMA SourcesAreKinds ==
  ASSUME NEW s \in Selections
  PROVE  RegistrationSources(s) \subseteq Kinds
BY DEF Selections, RegistrationSources, TransportKinds, Kinds, CGOKinds

(* A comment that is not refused selects something. *)
LEMMA AcceptedSelects ==
  ASSUME NEW c, ParseOptions(c) # Rejected
  PROVE  ParseOptions(c) \in Selections
BY DEF ParseOptions, Selection, Selections


LEMMA EmptyIsUniform == Uniform(EmptyAdapter)
<1> SUFFICES ASSUME NEW m \in Methods, NEW o \in CallbackOperations(Streaming(m))
             PROVE  EmptyAdapter[m][o] = 0
  BY DEF Uniform
<1> QED BY StreamingForm, BridgeTakesWhatIsGiven DEF EmptyAdapter, Operations

-----------------------------------------------------------------------------
(* The first registration finds nothing. *)
LEMMA InitIInv == Init => IInv
<1> SUFFICES ASSUME Init PROVE IInv
  OBVIOUS
<1> USE RegistrationAssumption DEF Init
<1>1. EmptyAdapter \in Adapter
  BY DEF EmptyAdapter, Adapter
<1>2. selection \in Selections
  BY AcceptedSelects
<1>3. NoServer.kind = "none" /\ NoServer.server = GoServer /\ Len(adapters) = 0
  BY DEF NoServer
<1>4. TypeOK
  <2>1. current \in [kind : Kinds \cup {"none"}, server : 0 .. Len(adapters)]
    BY <1>3 DEF NoServer, GoServer
  <2>2. loaded \in [Threads -> [kind : Kinds \cup {"none"}, server : 0 .. Len(adapters)]]
    BY <1>3 DEF NoServer, GoServer
  <2>3. request \in [Threads -> Requests]
    BY DEF NoRequest, Requests, CGOKinds
  <2>4. latest \in [CGOKinds -> [Methods -> [number : Nat, known : BOOLEAN]]]
    BY DEF Unknown
  <2>5. adapters \in Seq(Adapter) /\ registrations \in Nat
    OBVIOUS
  <2>6. mutex \in [CGOKinds -> Threads \cup {Nobody}] /\ copied \in [Threads -> Adapter]
    BY <1>1
  <2>7. /\ pc \in [Threads -> {"idle", "locked", "copied", "registered", "clear", "loaded", "started"}]
        /\ method \in [Threads -> Methods \cup {"none"}]
        /\ used \in [Threads -> SUBSET Nat]
    OBVIOUS
  <2> QED BY <1>2, <2>1, <2>2, <2>3, <2>4, <2>5, <2>6, <2>7 DEF TypeOK
<1>5. AdaptersUniform
  BY <1>3, EmptyIsUniform DEF AdaptersUniform
<1>6. MutexHeld /\ CallInPlace /\ OneRegistrationPerStream /\ CopiedIsLatest
  BY DEF MutexHeld, CallInPlace, InPlace, OneRegistrationPerStream, CopiedIsLatest, Registering
<1>7. KindsGenerated
  BY <1>3 DEF KindsGenerated, Registering
<1>8. KnownIsCurrent /\ NoLostUpdate
  BY <1>3 DEF KnownIsCurrent, NoLostUpdate, Unknown
<1> QED BY <1>4, <1>5, <1>6, <1>7, <1>8 DEF IInv

-----------------------------------------------------------------------------
(***************************************************************************)
(* Facts about a step.                                                     *)
(***************************************************************************)
Act(t) ==
  \/ GoRegister(t) \/ GoRegisterFails(t) \/ ClearServer(t) \/ Clear(t)
  \/ CGORegister(t) \/ AdapterForRegister(t) \/ Register(t) \/ Unlock(t)
  \/ LoadServer(t) \/ Dispatch(t) \/ Serve(t) \/ Unimplemented(t) \/ StartSession(t)

(* What a C registration makes of the copy it took. *)
LEMMA AssignedAdapter ==
  ASSUME NEW r \in Requests, NEW a \in Adapter
  PROVE  /\ Assign(r, a) \in Adapter
         /\ Uniform(a) => Uniform(Assign(r, a))
         /\ \A m \in Methods : Keeps(r, m) => Assign(r, a)[m] = a[m]
         /\ \A m \in Methods : ~Keeps(r, m) =>
              \A o \in CallbackOperations(Streaming(m)) :
                Assign(r, a)[m][o] = (IF r.given[m] = "all" THEN r.number ELSE 0)
<1>1. \A m \in Methods : a[m] \in [Operations -> Nat]
  BY DEF Adapter, Operations
<1>2. \A m \in Methods : CallbackOperations(Streaming(m)) \subseteq Operations
  BY StreamingForm, BridgeTakesWhatIsGiven
<1>3. r.number \in Nat
  BY DEF Requests
<1>4. ASSUME NEW m \in Methods
      PROVE  /\ Assign(r, a)[m] \in [Operations -> Nat]
             /\ Keeps(r, m) => Assign(r, a)[m] = a[m]
             /\ ~Keeps(r, m) =>
                  \A o \in CallbackOperations(Streaming(m)) :
                    Assign(r, a)[m][o] = (IF r.given[m] = "all" THEN r.number ELSE 0)
  <2>1. CASE Keeps(r, m)
    BY <1>1, <2>1 DEF Assign
  <2>2. CASE ~Keeps(r, m)
    <3>1. Assign(r, a)[m] =
            [o \in DOMAIN a[m] |->
              IF r.given[m] = "all" /\ o \in CallbackOperations(Streaming(m)) THEN r.number ELSE 0]
      BY <2>2 DEF Assign
    <3>2. DOMAIN a[m] = Operations
      BY <1>1
    <3> QED BY <1>2, <1>3, <2>2, <3>1, <3>2
  <2> QED BY <2>1, <2>2
<1>5. Assign(r, a) \in Adapter
  <2>1. Assign(r, a) = [m \in Methods |-> Assign(r, a)[m]]
    BY DEF Assign
  <2> QED BY <1>4, <2>1 DEF Adapter, Operations
<1>6. ASSUME Uniform(a)
      PROVE  Uniform(Assign(r, a))
  <2> SUFFICES ASSUME NEW m \in Methods, NEW o \in CallbackOperations(Streaming(m)),
                      NEW q \in CallbackOperations(Streaming(m))
               PROVE  Assign(r, a)[m][o] = Assign(r, a)[m][q]
    BY DEF Uniform
  <2>1. CASE Keeps(r, m)
    BY <1>4, <1>6, <2>1 DEF Uniform
  <2>2. CASE ~Keeps(r, m)
    BY <1>4, <2>2
  <2> QED BY <2>1, <2>2
<1> QED BY <1>4, <1>5, <1>6

(* Registering appends: the adapters there were stay as they are. *)
LEMMA AdaptersGrow ==
  ASSUME TypeOK, [Next]_vars
  PROVE  /\ Len(adapters) \in Nat /\ Len(adapters') \in Nat /\ Len(adapters) <= Len(adapters')
         /\ \A i \in 1 .. Len(adapters) : adapters'[i] = adapters[i]
<1>1. adapters \in Seq(Adapter)
  BY DEF TypeOK
<1>2. CASE UNCHANGED adapters
  BY <1>1, <1>2
<1>3. ASSUME NEW t \in Threads, Register(t)
      PROVE  /\ Len(adapters') = Len(adapters) + 1
             /\ \A i \in 1 .. Len(adapters) : adapters'[i] = adapters[i]
  <2>1. Assign(request[t], copied[t]) \in Adapter
    BY AssignedAdapter DEF TypeOK
  <2> QED BY <1>1, <1>3, <2>1 DEF Register
<1>4. CASE \E t \in Threads : Register(t)
  BY <1>1, <1>3, <1>4
<1> QED BY <1>1, <1>2, <1>4
  DEF Next, vars, registryVars, GoRegister, GoRegisterFails, ClearServer, Clear, CGORegister,
      AdapterForRegister, Unlock, LoadServer, Dispatch, Serve, Unimplemented, StartSession

-----------------------------------------------------------------------------

(* Every variable keeps its type. *)
LEMMA TypeStep ==
  ASSUME IInv, [Next]_vars
  PROVE  TypeOK'
<1> USE RegistrationAssumption DEF IInv
<1>1. CASE UNCHANGED vars
  BY <1>1 DEF vars, registryVars, callVars, TypeOK
<1>2. ASSUME NEW t \in Threads, Act(t)
      PROVE  TypeOK'
  <2>1. CASE GoRegister(t)
    <3>1. latest' \in [CGOKinds -> [Methods -> [number : Nat, known : BOOLEAN]]]
      BY <2>1 DEF GoRegister, Forget, Unknown
    <3>2. current' \in [kind : Kinds \cup {"none"}, server : 0 .. Len(adapters)]
      <4>1. Len(adapters) \in Nat
        BY DEF TypeOK
      <4> QED BY <2>1, <4>1, SourcesAreKinds DEF GoRegister, TypeOK, NoServer, GoServer
    <3> QED BY <2>1, <3>1, <3>2 DEF GoRegister, Goto, TypeOK, callVars
  <2>2. CASE GoRegisterFails(t)
    BY <2>2 DEF GoRegisterFails, Goto, TypeOK, registryVars, callVars
  <2>3. CASE ClearServer(t)
    <3>1. latest' \in [CGOKinds -> [Methods -> [number : Nat, known : BOOLEAN]]]
      BY <2>3 DEF ClearServer, Forget, Unknown
    <3>2. current' \in [kind : Kinds \cup {"none"}, server : 0 .. Len(adapters)]
      <4>1. Len(adapters) \in Nat
        BY DEF TypeOK
      <4> QED BY <2>3, <4>1, SourcesAreKinds DEF ClearServer, TypeOK, NoServer, GoServer
    <3> QED BY <2>3, <3>1, <3>2 DEF ClearServer, Goto, TypeOK, callVars
  <2>4. CASE Clear(t)
    <3>1. latest' \in [CGOKinds -> [Methods -> [number : Nat, known : BOOLEAN]]]
      BY <2>4 DEF Clear, Forget, Unknown
    <3>2. current' \in [kind : Kinds \cup {"none"}, server : 0 .. Len(adapters)]
      <4>1. Len(adapters) \in Nat
        BY DEF TypeOK
      <4> QED BY <2>4, <4>1, SourcesAreKinds DEF Clear, TypeOK, NoServer, GoServer
    <3> QED BY <2>4, <3>1, <3>2 DEF Clear, Goto, TypeOK, callVars
  <2>5. CASE CGORegister(t)
    <3>1. PICK k \in CGOKinds \cap RegistrationSources(selection),
               ms \in {Methods} \cup {{m} : m \in Methods} :
            /\ Lock(t, k)
            /\ \E g \in Given(ms), whole \in BOOLEAN :
                 /\ whole <=> ms = Methods
                 /\ request' = [request EXCEPT ![t] =
                      [kind |-> k, number |-> registrations + 1, methods |-> ms,
                       wholeService |-> whole, given |-> g]]
      BY <2>5 DEF CGORegister
    <3>2. PICK g \in Given(ms), whole \in BOOLEAN :
            request' = [request EXCEPT ![t] =
              [kind |-> k, number |-> registrations + 1, methods |-> ms,
               wholeService |-> whole, given |-> g]]
      BY <3>1
    <3>3. g \in [Methods -> {"all", "none", "part"}] /\ ms \subseteq Methods
      BY DEF Given
    <3>4. registrations + 1 \in Nat
      BY DEF TypeOK
    <3>5. [kind |-> k, number |-> registrations + 1, methods |-> ms,
           wholeService |-> whole, given |-> g] \in Requests
      BY <3>3, <3>4 DEF Requests
    <3>6. request' \in [Threads -> Requests]
      BY <3>2, <3>5 DEF TypeOK
    <3>7. mutex' \in [CGOKinds -> Threads \cup {Nobody}]
      BY <3>1 DEF Lock, TypeOK
    <3> QED BY <2>5, <3>4, <3>6, <3>7 DEF CGORegister, Goto, TypeOK, registryVars, callVars
  <2>6. CASE AdapterForRegister(t)
    <3>1. EmptyAdapter \in Adapter
      BY DEF EmptyAdapter, Adapter
    <3>2. current.server # GoServer => adapters[current.server] \in Adapter
      BY DEF TypeOK, GoServer
    <3>3. copied' \in [Threads -> Adapter]
      BY <2>6, <3>1, <3>2 DEF AdapterForRegister, TypeOK
    <3> QED BY <2>6, <3>3 DEF AdapterForRegister, Goto, TypeOK, registryVars, callVars
  <2>7. CASE Register(t)
    <3>1. Assign(request[t], copied[t]) \in Adapter
      BY AssignedAdapter DEF TypeOK
    <3>2. /\ adapters' = Append(adapters, Assign(request[t], copied[t]))
          /\ current' = [kind |-> request[t].kind, server |-> Len(adapters) + 1]
      BY <2>7 DEF Register
    <3>3. adapters' \in Seq(Adapter) /\ Len(adapters') = Len(adapters) + 1 /\ Len(adapters) \in Nat
      BY <3>1, <3>2 DEF TypeOK
    <3>4. request[t].kind \in CGOKinds /\ request[t].number \in Nat
      BY DEF TypeOK, Requests
    <3>5. current' \in [kind : Kinds \cup {"none"}, server : 0 .. Len(adapters')]
      BY <3>2, <3>3, <3>4 DEF Kinds, CGOKinds
    <3>6. loaded' \in [Threads -> [kind : Kinds \cup {"none"}, server : 0 .. Len(adapters')]]
      <4>1. loaded' = loaded
        BY <2>7 DEF Register, callVars
      <4>2. ASSUME NEW x \in [kind : Kinds \cup {"none"}, server : 0 .. Len(adapters)]
            PROVE  x \in [kind : Kinds \cup {"none"}, server : 0 .. Len(adapters')]
        BY <3>3
      <4> QED BY <4>1, <4>2 DEF TypeOK
    <3>7. latest' \in [CGOKinds -> [Methods -> [number : Nat, known : BOOLEAN]]]
      <4>1. \A k \in CGOKinds : \A m \in Methods : latest[k][m] \in [number : Nat, known : BOOLEAN]
        BY DEF TypeOK
      <4> QED BY <2>7, <3>4, <4>1 DEF Register, Unknown
    <3>8. pc' = [pc EXCEPT ![t] = "registered"]
      BY <2>7 DEF Register, Goto
    <3> QED BY <2>7, <3>3, <3>5, <3>6, <3>7, <3>8 DEF Register, TypeOK, callVars
  <2>8. CASE Unlock(t)
    <3>1. EmptyAdapter \in Adapter
      BY DEF EmptyAdapter, Adapter
    <3>2. NoRequest \in Requests
      BY DEF NoRequest, Requests, CGOKinds
    <3> QED BY <2>8, <3>1, <3>2 DEF Unlock, Goto, TypeOK, registryVars, callVars
  <2>9. CASE LoadServer(t)
    BY <2>9 DEF LoadServer, Goto, TypeOK, registryVars, callVars
  <2>10. CASE Dispatch(t)
    <3>1. NoServer \in [kind : Kinds \cup {"none"}, server : 0 .. Len(adapters)]
      BY DEF NoServer, GoServer, TypeOK
    <3> QED BY <2>10, <3>1 DEF Dispatch, EndCall, Goto, TypeOK, registryVars
  <2>11. CASE Serve(t)
    <3>1. NoServer \in [kind : Kinds \cup {"none"}, server : 0 .. Len(adapters)]
      BY DEF NoServer, GoServer, TypeOK
    <3>2. ASSUME NEW o \in Bridge(t)
          PROVE  Callback(t, o) \in Nat
      <4>1. method[t] \in Methods /\ loaded[t].server \in 1 .. Len(adapters)
        BY <2>11 DEF Serve, CallInPlace, InPlace, TypeOK, GoServer
      <4>2. adapters[loaded[t].server] \in Adapter
        BY <4>1 DEF TypeOK
      <4> QED BY <4>1, <4>2, BridgeOfMethod DEF Callback, Adapter, Operations
    <3>3. used' \in [Threads -> SUBSET Nat]
      BY <2>11, <3>2 DEF Serve, TypeOK
    <3>4. CASE "start" \in Bridge(t)
      BY <2>11, <3>3, <3>4 DEF Serve, Goto, TypeOK, registryVars
    <3>5. CASE "start" \notin Bridge(t)
      <4>1. /\ pc' = [pc EXCEPT ![t] = "idle"]
            /\ loaded' = [loaded EXCEPT ![t] = NoServer]
            /\ method' = [method EXCEPT ![t] = "none"]
        BY <2>11, <3>5 DEF Serve, EndCall, Goto
      <4>2. UNCHANGED <<selection, registryVars, mutex, registrations, request, copied>>
        BY <2>11 DEF Serve
      <4> QED BY <3>1, <3>3, <4>1, <4>2 DEF TypeOK, registryVars
    <3> QED BY <3>4, <3>5
  <2>12. CASE Unimplemented(t)
    <3>1. NoServer \in [kind : Kinds \cup {"none"}, server : 0 .. Len(adapters)]
      BY DEF NoServer, GoServer, TypeOK
    <3> QED BY <2>12, <3>1 DEF Unimplemented, EndCall, Goto, TypeOK, registryVars
  <2>13. CASE StartSession(t)
    <3>1. NoServer \in [kind : Kinds \cup {"none"}, server : 0 .. Len(adapters)]
      BY DEF NoServer, GoServer, TypeOK
    <3>2. ASSUME NEW o \in Bridge(t)
          PROVE  Callback(t, o) \in Nat
      <4>1. method[t] \in Methods /\ loaded[t].server \in 1 .. Len(adapters)
        BY <2>13 DEF StartSession, CallInPlace, InPlace, TypeOK, GoServer
      <4>2. adapters[loaded[t].server] \in Adapter
        BY <4>1 DEF TypeOK
      <4> QED BY <4>1, <4>2, BridgeOfMethod DEF Callback, Adapter, Operations
    <3>3. used' \in [Threads -> SUBSET Nat]
      BY <2>13, <3>2 DEF StartSession, TypeOK
    <3> QED BY <2>13, <3>1, <3>3 DEF StartSession, EndCall, Goto, TypeOK, registryVars
  <2> QED BY <1>2, <2>1, <2>2, <2>3, <2>4, <2>5, <2>6, <2>7, <2>8, <2>9, <2>10, <2>11, <2>12, <2>13 DEF Act
<1> QED BY <1>1, <1>2 DEF Next, Act

(* The mutex of a kind has one holder. *)
LEMMA MutexStep ==
  ASSUME IInv, [Next]_vars
  PROVE  MutexHeld'
<1> USE RegistrationAssumption DEF IInv
<1>1. CASE UNCHANGED vars
  BY <1>1 DEF vars, registryVars, callVars, MutexHeld, Registering
<1>2. ASSUME NEW t \in Threads, Act(t)
      PROVE  MutexHeld'
  <2>1. CASE GoRegister(t)
    BY <2>1 DEF GoRegister, Goto, Lock, MutexHeld, Registering, TypeOK, Requests, registryVars, callVars
  <2>2. CASE GoRegisterFails(t)
    BY <2>2 DEF GoRegisterFails, Goto, Lock, MutexHeld, Registering, TypeOK, Requests, registryVars, callVars
  <2>3. CASE ClearServer(t)
    BY <2>3 DEF ClearServer, Goto, Lock, MutexHeld, Registering, TypeOK, Requests, registryVars, callVars
  <2>4. CASE Clear(t)
    BY <2>4 DEF Clear, Goto, Lock, MutexHeld, Registering, TypeOK, Requests, registryVars, callVars
  <2>5. CASE CGORegister(t)
    BY <2>5 DEF CGORegister, Goto, Lock, MutexHeld, Registering, TypeOK, Requests, registryVars, callVars
  <2>6. CASE AdapterForRegister(t)
    BY <2>6 DEF AdapterForRegister, Goto, Lock, MutexHeld, Registering, TypeOK, Requests, registryVars, callVars
  <2>7. CASE Register(t)
    BY <2>7 DEF Register, Goto, Lock, MutexHeld, Registering, TypeOK, Requests, registryVars, callVars
  <2>8. CASE Unlock(t)
    BY <2>8 DEF Unlock, Goto, Lock, MutexHeld, Registering, TypeOK, Requests, registryVars, callVars
  <2>9. CASE LoadServer(t)
    BY <2>9 DEF LoadServer, Goto, Lock, MutexHeld, Registering, TypeOK, Requests, registryVars, callVars
  <2>10. CASE Dispatch(t)
    BY <2>10 DEF Dispatch, Goto, Lock, MutexHeld, Registering, TypeOK, Requests, registryVars, callVars
  <2>11. CASE Serve(t)
    BY <2>11 DEF Serve, Goto, Lock, MutexHeld, Registering, TypeOK, Requests, registryVars, callVars
  <2>12. CASE Unimplemented(t)
    BY <2>12 DEF Unimplemented, Goto, Lock, MutexHeld, Registering, TypeOK, Requests, registryVars, callVars
  <2>13. CASE StartSession(t)
    BY <2>13 DEF StartSession, Goto, Lock, MutexHeld, Registering, TypeOK, Requests, registryVars, callVars
  <2> QED BY <1>2, <2>1, <2>2, <2>3, <2>4, <2>5, <2>6, <2>7, <2>8, <2>9, <2>10, <2>11, <2>12, <2>13 DEF Act
<1> QED BY <1>1, <1>2 DEF Next, Act

(* Adapters stay uniform: a registration gives a method all its callbacks. *)
LEMMA UniformStep ==
  ASSUME IInv, [Next]_vars
  PROVE  AdaptersUniform'
<1> USE RegistrationAssumption DEF IInv
<1>1. CASE UNCHANGED vars
  BY <1>1 DEF vars, registryVars, AdaptersUniform, Uniform
<1>2. ASSUME NEW t \in Threads, Act(t)
      PROVE  AdaptersUniform'
  <2>1. CASE GoRegister(t)
    BY <2>1 DEF GoRegister, AdaptersUniform, Uniform, registryVars
  <2>2. CASE GoRegisterFails(t)
    BY <2>2 DEF GoRegisterFails, AdaptersUniform, Uniform, registryVars
  <2>3. CASE ClearServer(t)
    BY <2>3 DEF ClearServer, AdaptersUniform, Uniform, registryVars
  <2>4. CASE Clear(t)
    BY <2>4 DEF Clear, AdaptersUniform, Uniform, registryVars
  <2>5. CASE CGORegister(t)
    BY <2>5 DEF CGORegister, AdaptersUniform, Uniform, registryVars
  <2>6. CASE AdapterForRegister(t)
    <3>1. current.server # GoServer => current.server \in 1 .. Len(adapters)
      BY DEF TypeOK, GoServer
    <3> QED BY <2>6, <3>1, EmptyIsUniform DEF AdapterForRegister, AdaptersUniform, Uniform, TypeOK, registryVars
  <2>7. CASE Register(t)
    <3>1. Assign(request[t], copied[t]) \in Adapter /\ Uniform(Assign(request[t], copied[t]))
      BY AssignedAdapter DEF TypeOK, AdaptersUniform
    <3>2. adapters' = Append(adapters, Assign(request[t], copied[t])) /\ UNCHANGED copied
      BY <2>7 DEF Register
    <3>3. ASSUME NEW i \in 1 .. Len(adapters')
          PROVE  Uniform(adapters'[i])
      <4>1. CASE i = Len(adapters) + 1
        BY <3>1, <3>2, <4>1 DEF TypeOK
      <4>2. CASE i \in 1 .. Len(adapters)
        BY <3>1, <3>2, <4>2 DEF TypeOK, AdaptersUniform
      <4>3. Len(adapters') = Len(adapters) + 1 /\ Len(adapters) \in Nat
        BY <3>1, <3>2 DEF TypeOK
      <4> QED BY <4>1, <4>2, <4>3
    <3> QED BY <3>2, <3>3 DEF AdaptersUniform, Uniform
  <2>8. CASE Unlock(t)
    BY <2>8, EmptyIsUniform DEF Unlock, AdaptersUniform, Uniform, TypeOK, registryVars
  <2>9. CASE LoadServer(t)
    BY <2>9 DEF LoadServer, AdaptersUniform, Uniform, registryVars
  <2>10. CASE Dispatch(t)
    BY <2>10 DEF Dispatch, AdaptersUniform, Uniform, registryVars
  <2>11. CASE Serve(t)
    BY <2>11 DEF Serve, AdaptersUniform, Uniform, registryVars
  <2>12. CASE Unimplemented(t)
    BY <2>12 DEF Unimplemented, AdaptersUniform, Uniform, registryVars
  <2>13. CASE StartSession(t)
    BY <2>13 DEF StartSession, AdaptersUniform, Uniform, registryVars
  <2> QED BY <1>2, <2>1, <2>2, <2>3, <2>4, <2>5, <2>6, <2>7, <2>8, <2>9, <2>10, <2>11, <2>12, <2>13 DEF Act
<1> QED BY <1>1, <1>2 DEF Next, Act

(* A call that a step leaves alone keeps its server's callbacks. *)
LEMMA CallKept ==
  ASSUME IInv, [Next]_vars, NEW u \in Threads,
         pc'[u] = pc[u], method'[u] = method[u], loaded'[u] = loaded[u], used'[u] = used[u]
  PROVE  InPlace(u)'
<1>1. InPlace(u)
  BY DEF IInv, CallInPlace
<1>2. Bridge(u)' = Bridge(u)
  BY DEF Bridge, Streaming
<1>3. CASE pc[u] = "started"
  <2>1. loaded[u].server \in 1 .. Len(adapters)
    BY <1>1, <1>3 DEF InPlace, IInv, TypeOK, GoServer
  <2>2. adapters'[loaded[u].server] = adapters[loaded[u].server]
    BY <2>1, AdaptersGrow DEF IInv
  <2>3. \A o : Callback(u, o)' = Callback(u, o)
    BY <2>2 DEF Callback
  <2> QED BY <1>1, <1>2, <1>3, <2>3 DEF InPlace
<1>4. CASE pc[u] # "started"
  BY <1>1, <1>4 DEF InPlace
<1> QED BY <1>3, <1>4


(* Calls stay in place. *)
LEMMA CallStep ==
  ASSUME IInv, [Next]_vars
  PROVE  CallInPlace'
<1> USE RegistrationAssumption DEF IInv
<1>1. CASE UNCHANGED vars
  BY <1>1, CallKept DEF vars, callVars, CallInPlace
<1>2. ASSUME NEW t \in Threads, Act(t)
      PROVE  CallInPlace'
  <2>1. CASE GoRegister(t)
    <3>1. \A u \in Threads : /\ pc'[u] = pc[u] /\ method'[u] = method[u]
                            /\ loaded'[u] = loaded[u] /\ used'[u] = used[u]
      BY <2>1 DEF GoRegister, callVars
    <3> QED BY <3>1, CallKept DEF CallInPlace
  <2>2. CASE GoRegisterFails(t)
    <3>1. \A u \in Threads \ {t} : /\ pc'[u] = pc[u] /\ method'[u] = method[u]
                                  /\ loaded'[u] = loaded[u] /\ used'[u] = used[u]
      BY <2>2 DEF GoRegisterFails, Goto, EndCall, callVars, TypeOK
    <3>2. InPlace(t)'
      BY <2>2 DEF GoRegisterFails, Goto, InPlace, callVars, TypeOK
    <3> QED BY <3>1, <3>2, CallKept DEF CallInPlace
  <2>3. CASE ClearServer(t)
    <3>1. \A u \in Threads \ {t} : /\ pc'[u] = pc[u] /\ method'[u] = method[u]
                                  /\ loaded'[u] = loaded[u] /\ used'[u] = used[u]
      BY <2>3 DEF ClearServer, Goto, EndCall, callVars, TypeOK
    <3>2. InPlace(t)'
      BY <2>3 DEF ClearServer, Goto, InPlace, callVars, TypeOK
    <3> QED BY <3>1, <3>2, CallKept DEF CallInPlace
  <2>4. CASE Clear(t)
    <3>1. \A u \in Threads : /\ pc'[u] = pc[u] /\ method'[u] = method[u]
                            /\ loaded'[u] = loaded[u] /\ used'[u] = used[u]
      BY <2>4 DEF Clear, callVars
    <3> QED BY <3>1, CallKept DEF CallInPlace
  <2>5. CASE CGORegister(t)
    <3>1. \A u \in Threads \ {t} : /\ pc'[u] = pc[u] /\ method'[u] = method[u]
                                  /\ loaded'[u] = loaded[u] /\ used'[u] = used[u]
      BY <2>5 DEF CGORegister, Goto, EndCall, callVars, TypeOK
    <3>2. InPlace(t)'
      BY <2>5 DEF CGORegister, Goto, InPlace, callVars, TypeOK
    <3> QED BY <3>1, <3>2, CallKept DEF CallInPlace
  <2>6. CASE AdapterForRegister(t)
    <3>1. \A u \in Threads \ {t} : /\ pc'[u] = pc[u] /\ method'[u] = method[u]
                                  /\ loaded'[u] = loaded[u] /\ used'[u] = used[u]
      BY <2>6 DEF AdapterForRegister, Goto, EndCall, callVars, TypeOK
    <3>2. InPlace(t)'
      BY <2>6 DEF AdapterForRegister, Goto, InPlace, callVars, TypeOK
    <3> QED BY <3>1, <3>2, CallKept DEF CallInPlace
  <2>7. CASE Register(t)
    <3>1. \A u \in Threads \ {t} : /\ pc'[u] = pc[u] /\ method'[u] = method[u]
                                  /\ loaded'[u] = loaded[u] /\ used'[u] = used[u]
      BY <2>7 DEF Register, Goto, EndCall, callVars, TypeOK
    <3>2. InPlace(t)'
      BY <2>7 DEF Register, Goto, InPlace, callVars, TypeOK
    <3> QED BY <3>1, <3>2, CallKept DEF CallInPlace
  <2>8. CASE Unlock(t)
    <3>1. \A u \in Threads \ {t} : /\ pc'[u] = pc[u] /\ method'[u] = method[u]
                                  /\ loaded'[u] = loaded[u] /\ used'[u] = used[u]
      BY <2>8 DEF Unlock, Goto, EndCall, callVars, TypeOK
    <3>2. InPlace(t)'
      BY <2>8 DEF Unlock, Goto, InPlace, callVars, TypeOK
    <3> QED BY <3>1, <3>2, CallKept DEF CallInPlace
  <2>9. CASE LoadServer(t)
    <3>1. \A u \in Threads \ {t} : /\ pc'[u] = pc[u] /\ method'[u] = method[u]
                                  /\ loaded'[u] = loaded[u] /\ used'[u] = used[u]
      BY <2>9 DEF LoadServer, Goto, EndCall, callVars, TypeOK
    <3>2. InPlace(t)'
      BY <2>9 DEF LoadServer, Goto, InPlace, callVars, TypeOK
    <3> QED BY <3>1, <3>2, CallKept DEF CallInPlace
  <2>10. CASE Dispatch(t)
    <3>1. \A u \in Threads \ {t} : /\ pc'[u] = pc[u] /\ method'[u] = method[u]
                                  /\ loaded'[u] = loaded[u] /\ used'[u] = used[u]
      BY <2>10 DEF Dispatch, Goto, EndCall, callVars, TypeOK
    <3>2. InPlace(t)'
      BY <2>10 DEF Dispatch, Goto, InPlace, callVars, TypeOK
    <3> QED BY <3>1, <3>2, CallKept DEF CallInPlace
  <2>11. CASE Serve(t)
    <3>1. \A u \in Threads \ {t} : /\ pc'[u] = pc[u] /\ method'[u] = method[u]
                                  /\ loaded'[u] = loaded[u] /\ used'[u] = used[u]
      BY <2>11 DEF Serve, Goto, EndCall, TypeOK
    <3>2. method[t] \in Methods /\ pc[t] = "loaded"
      BY <2>11 DEF Serve, CallInPlace, InPlace
    <3>3. ASSUME "start" \notin Bridge(t) PROVE InPlace(t)'
      <4>1. pc'[t] = "idle"
        BY <2>11, <3>3 DEF Serve, Goto, TypeOK
      <4> QED BY <4>1 DEF InPlace
    <3>4. ASSUME "start" \in Bridge(t) PROVE InPlace(t)'
      <4>1. pc'[t] = "started" /\ UNCHANGED <<loaded, method, adapters>>
        BY <2>11, <3>4 DEF Serve, Goto, TypeOK, registryVars
      <4>2. Bridge(t)' = Bridge(t) /\ \A o : Callback(t, o)' = Callback(t, o)
        BY <4>1 DEF Bridge, Streaming, Callback
      <4>3. Bridge(t) \cap {"unary", "start"} = {"start"}
        BY <3>4, StreamingForm, BridgeOfMethod DEF CallbackOperations, Forms
      <4>4. used'[t] = {Callback(t, "start")}
        BY <2>11, <4>3 DEF Serve, TypeOK
      <4>5. loaded[t].server # GoServer /\ \A o \in Bridge(t) : Callback(t, o) # 0
        BY <2>11 DEF Serve
      <4> QED BY <3>2, <3>4, <4>1, <4>2, <4>4, <4>5 DEF InPlace
    <3>5. InPlace(t)'
      BY <3>3, <3>4
    <3> QED BY <3>1, <3>5, CallKept DEF CallInPlace
  <2>12. CASE Unimplemented(t)
    <3>1. \A u \in Threads \ {t} : /\ pc'[u] = pc[u] /\ method'[u] = method[u]
                                  /\ loaded'[u] = loaded[u] /\ used'[u] = used[u]
      BY <2>12 DEF Unimplemented, Goto, EndCall, callVars, TypeOK
    <3>2. InPlace(t)'
      BY <2>12 DEF Unimplemented, Goto, InPlace, callVars, TypeOK
    <3> QED BY <3>1, <3>2, CallKept DEF CallInPlace
  <2>13. CASE StartSession(t)
    <3>1. \A u \in Threads \ {t} : /\ pc'[u] = pc[u] /\ method'[u] = method[u]
                                  /\ loaded'[u] = loaded[u] /\ used'[u] = used[u]
      BY <2>13 DEF StartSession, Goto, EndCall, callVars, TypeOK
    <3>2. InPlace(t)'
      BY <2>13 DEF StartSession, Goto, InPlace, callVars, TypeOK
    <3> QED BY <3>1, <3>2, CallKept DEF CallInPlace
  <2> QED BY <1>2, <2>1, <2>2, <2>3, <2>4, <2>5, <2>6, <2>7, <2>8, <2>9, <2>10, <2>11, <2>12, <2>13 DEF Act
<1> QED BY <1>1, <1>2 DEF Next, Act

(* What a stream takes is of one registration. *)
LEMMA OneRegistrationStep ==
  ASSUME IInv, [Next]_vars
  PROVE  OneRegistrationPerStream'
<1> USE RegistrationAssumption DEF IInv
<1>1. CASE UNCHANGED vars
  BY <1>1 DEF vars, callVars, OneRegistrationPerStream
<1>2. ASSUME NEW t \in Threads, Act(t)
      PROVE  OneRegistrationPerStream'
  <2>1. CASE GoRegister(t)
    BY <2>1 DEF GoRegister, OneRegistrationPerStream, callVars, TypeOK
  <2>2. CASE GoRegisterFails(t)
    BY <2>2 DEF GoRegisterFails, OneRegistrationPerStream, callVars, TypeOK
  <2>3. CASE ClearServer(t)
    BY <2>3 DEF ClearServer, OneRegistrationPerStream, callVars, TypeOK
  <2>4. CASE Clear(t)
    BY <2>4 DEF Clear, OneRegistrationPerStream, callVars, TypeOK
  <2>5. CASE CGORegister(t)
    BY <2>5 DEF CGORegister, OneRegistrationPerStream, callVars, TypeOK
  <2>6. CASE AdapterForRegister(t)
    BY <2>6 DEF AdapterForRegister, OneRegistrationPerStream, callVars, TypeOK
  <2>7. CASE Register(t)
    BY <2>7 DEF Register, OneRegistrationPerStream, callVars, TypeOK
  <2>8. CASE Unlock(t)
    BY <2>8 DEF Unlock, OneRegistrationPerStream, callVars, TypeOK
  <2>9. CASE LoadServer(t)
    BY <2>9 DEF LoadServer, OneRegistrationPerStream, callVars, TypeOK
  <2>10. CASE Dispatch(t)
    BY <2>10 DEF Dispatch, OneRegistrationPerStream, callVars, TypeOK
  <2>11. CASE Serve(t)
    <3>1. method[t] \in Methods /\ loaded[t].server \in 1 .. Len(adapters)
      BY <2>11 DEF Serve, CallInPlace, InPlace, TypeOK, GoServer
    <3>2. \A o, q \in Bridge(t) : Callback(t, o) = Callback(t, q)
      BY <3>1, BridgeOfMethod DEF AdaptersUniform, Uniform, Callback
    <3>3. \A o \in Bridge(t) : Callback(t, o) # 0
      BY <2>11 DEF Serve
    <3>4. used'[t] = {Callback(t, o) : o \in Bridge(t) \cap {"unary", "start"}}
      BY <2>11 DEF Serve, TypeOK
    <3>5. \A u \in Threads \ {t} : used'[u] = used[u]
      BY <2>11 DEF Serve, TypeOK
    <3> QED BY <3>2, <3>3, <3>4, <3>5 DEF OneRegistrationPerStream
  <2>12. CASE Unimplemented(t)
    BY <2>12 DEF Unimplemented, OneRegistrationPerStream, callVars, TypeOK
  <2>13. CASE StartSession(t)
    <3>1. method[t] \in Methods /\ loaded[t].server \in 1 .. Len(adapters) /\ "start" \in Bridge(t)
      BY <2>13 DEF StartSession, CallInPlace, InPlace, TypeOK, GoServer
    <3>2. \A o, q \in Bridge(t) : Callback(t, o) = Callback(t, q)
      BY <3>1, BridgeOfMethod DEF AdaptersUniform, Uniform, Callback
    <3>3. (\A o \in Bridge(t) : Callback(t, o) # 0) /\ used[t] = {Callback(t, "start")}
      BY <2>13 DEF StartSession, CallInPlace, InPlace
    <3>4. used'[t] = {Callback(t, "start")} \cup {Callback(t, o) : o \in Bridge(t) \ {"start"}}
      BY <2>13, <3>3 DEF StartSession, TypeOK
    <3>5. \A u \in Threads \ {t} : used'[u] = used[u]
      BY <2>13 DEF StartSession, TypeOK
    <3> QED BY <3>1, <3>2, <3>3, <3>4, <3>5 DEF OneRegistrationPerStream
  <2> QED BY <1>2, <2>1, <2>2, <2>3, <2>4, <2>5, <2>6, <2>7, <2>8, <2>9, <2>10, <2>11, <2>12, <2>13 DEF Act
<1> QED BY <1>1, <1>2 DEF Next, Act

(* Only what is generated is registered, and only that is loaded. *)
LEMMA KindsStep ==
  ASSUME IInv, [Next]_vars
  PROVE  KindsGenerated'
<1> USE RegistrationAssumption DEF IInv
<1>1. CASE UNCHANGED vars
  BY <1>1 DEF vars, registryVars, callVars, KindsGenerated
<1>2. ASSUME NEW t \in Threads, Act(t)
      PROVE  KindsGenerated'
  <2>1. CASE GoRegister(t)
    <3>1. current'.kind \in RegistrationSources(selection)
      BY <2>1 DEF GoRegister
    <3>2. "none" \notin Kinds /\ RegistrationSources(selection) \subseteq Kinds
      BY SourcesAreKinds DEF Kinds, CGOKinds, TypeOK
    <3> QED BY <2>1, <3>1, <3>2 DEF GoRegister, KindsGenerated, callVars
  <2>2. CASE GoRegisterFails(t)
    BY <2>2 DEF GoRegisterFails, Goto, KindsGenerated, Registering, NoServer, registryVars, callVars, TypeOK
  <2>3. CASE ClearServer(t)
    BY <2>3 DEF ClearServer, Goto, KindsGenerated, Registering, NoServer, registryVars, callVars, TypeOK
  <2>4. CASE Clear(t)
    BY <2>4 DEF Clear, Goto, KindsGenerated, Registering, NoServer, registryVars, callVars, TypeOK
  <2>5. CASE CGORegister(t)
    <3>1. request'[t].kind \in RegistrationSources(selection)
      BY <2>5 DEF CGORegister, TypeOK
    <3>2. \A u \in Threads \ {t} : request'[u] = request[u] /\ pc'[u] = pc[u]
      BY <2>5 DEF CGORegister, Goto, TypeOK
    <3>3. pc'[t] = "locked" /\ UNCHANGED <<selection, current, loaded>>
      BY <2>5 DEF CGORegister, Goto, TypeOK, registryVars, callVars
    <3> QED BY <3>1, <3>2, <3>3 DEF KindsGenerated, Registering
  <2>6. CASE AdapterForRegister(t)
    BY <2>6 DEF AdapterForRegister, Goto, KindsGenerated, Registering, NoServer, registryVars, callVars, TypeOK
  <2>7. CASE Register(t)
    <3>1. current' = [kind |-> request[t].kind, server |-> Len(adapters) + 1]
      BY <2>7 DEF Register
    <3>2. request[t].kind \in RegistrationSources(selection) /\ request[t].kind # "none"
      BY <2>7 DEF Register, KindsGenerated, Registering, TypeOK, Requests, CGOKinds
    <3>3. \A u \in Threads : pc'[u] \in Registering => pc[u] \in Registering
      BY <2>7 DEF Register, Goto, TypeOK, Registering
    <3>4. \A u \in Threads : pc'[u] = "loaded" => pc[u] = "loaded"
      BY <2>7 DEF Register, Goto, TypeOK
    <3>5. UNCHANGED <<selection, request, loaded>>
      BY <2>7 DEF Register, callVars
    <3> QED BY <3>1, <3>2, <3>3, <3>4, <3>5 DEF KindsGenerated
  <2>8. CASE Unlock(t)
    <3>1. \A u \in Threads : pc'[u] \in Registering \cup {"loaded"} => u # t /\ pc'[u] = pc[u]
      BY <2>8 DEF Unlock, Goto, TypeOK, Registering
    <3>2. \A u \in Threads \ {t} : request'[u] = request[u] /\ loaded'[u] = loaded[u]
      BY <2>8 DEF Unlock, EndCall, callVars, TypeOK
    <3>3. UNCHANGED <<selection, current>>
      BY <2>8 DEF Unlock, registryVars
    <3> QED BY <3>1, <3>2, <3>3 DEF KindsGenerated
  <2>9. CASE LoadServer(t)
    <3>1. current.kind \in RegistrationSources(selection)
      BY <2>9 DEF LoadServer, KindsGenerated, NoServer, TypeOK
    <3>2. loaded'[t] = current /\ \A u \in Threads \ {t} : loaded'[u] = loaded[u] /\ pc'[u] = pc[u]
      BY <2>9 DEF LoadServer, Goto, TypeOK
    <3>3. pc'[t] = "loaded" /\ UNCHANGED <<selection, current, request>>
      BY <2>9 DEF LoadServer, Goto, TypeOK, registryVars
    <3> QED BY <3>1, <3>2, <3>3 DEF KindsGenerated, Registering
  <2>10. CASE Dispatch(t)
    <3>1. \A u \in Threads : pc'[u] \in Registering \cup {"loaded"} => u # t /\ pc'[u] = pc[u]
      BY <2>10 DEF Dispatch, Goto, TypeOK, Registering
    <3>2. \A u \in Threads \ {t} : request'[u] = request[u] /\ loaded'[u] = loaded[u]
      BY <2>10 DEF Dispatch, EndCall, callVars, TypeOK
    <3>3. UNCHANGED <<selection, current>>
      BY <2>10 DEF Dispatch, registryVars
    <3> QED BY <3>1, <3>2, <3>3 DEF KindsGenerated
  <2>11. CASE Serve(t)
    <3>1. \A u \in Threads : pc'[u] \in Registering \cup {"loaded"} => u # t /\ pc'[u] = pc[u]
      BY <2>11 DEF Serve, Goto, TypeOK, Registering
    <3>2. \A u \in Threads \ {t} : request'[u] = request[u] /\ loaded'[u] = loaded[u]
      BY <2>11 DEF Serve, EndCall, callVars, TypeOK
    <3>3. UNCHANGED <<selection, current>>
      BY <2>11 DEF Serve, registryVars
    <3> QED BY <3>1, <3>2, <3>3 DEF KindsGenerated
  <2>12. CASE Unimplemented(t)
    <3>1. \A u \in Threads : pc'[u] \in Registering \cup {"loaded"} => u # t /\ pc'[u] = pc[u]
      BY <2>12 DEF Unimplemented, Goto, TypeOK, Registering
    <3>2. \A u \in Threads \ {t} : request'[u] = request[u] /\ loaded'[u] = loaded[u]
      BY <2>12 DEF Unimplemented, EndCall, callVars, TypeOK
    <3>3. UNCHANGED <<selection, current>>
      BY <2>12 DEF Unimplemented, registryVars
    <3> QED BY <3>1, <3>2, <3>3 DEF KindsGenerated
  <2>13. CASE StartSession(t)
    <3>1. \A u \in Threads : pc'[u] \in Registering \cup {"loaded"} => u # t /\ pc'[u] = pc[u]
      BY <2>13 DEF StartSession, Goto, TypeOK, Registering
    <3>2. \A u \in Threads \ {t} : request'[u] = request[u] /\ loaded'[u] = loaded[u]
      BY <2>13 DEF StartSession, EndCall, callVars, TypeOK
    <3>3. UNCHANGED <<selection, current>>
      BY <2>13 DEF StartSession, registryVars
    <3> QED BY <3>1, <3>2, <3>3 DEF KindsGenerated
  <2> QED BY <1>2, <2>1, <2>2, <2>3, <2>4, <2>5, <2>6, <2>7, <2>8, <2>9, <2>10, <2>11, <2>12, <2>13 DEF Act
<1> QED BY <1>1, <1>2 DEF Next, Act

(* What a registration replaces is forgotten. *)
LEMMA KnownStep ==
  ASSUME IInv, [Next]_vars
  PROVE  KnownIsCurrent'
<1> USE RegistrationAssumption DEF IInv
<1>1. CASE UNCHANGED vars
  BY <1>1 DEF vars, registryVars, KnownIsCurrent
<1>2. ASSUME NEW t \in Threads, Act(t)
      PROVE  KnownIsCurrent'
  <2>1. CASE GoRegister(t)
    BY <2>1 DEF GoRegister, KnownIsCurrent, Forget, Unknown, registryVars
  <2>2. CASE GoRegisterFails(t)
    BY <2>2 DEF GoRegisterFails, KnownIsCurrent, Forget, Unknown, registryVars
  <2>3. CASE ClearServer(t)
    BY <2>3 DEF ClearServer, KnownIsCurrent, Forget, Unknown, registryVars
  <2>4. CASE Clear(t)
    BY <2>4 DEF Clear, KnownIsCurrent, Forget, Unknown, registryVars
  <2>5. CASE CGORegister(t)
    BY <2>5 DEF CGORegister, KnownIsCurrent, Forget, Unknown, registryVars
  <2>6. CASE AdapterForRegister(t)
    BY <2>6 DEF AdapterForRegister, KnownIsCurrent, Forget, Unknown, registryVars
  <2>7. CASE Register(t)
    <3>1. current' = [kind |-> request[t].kind, server |-> Len(adapters) + 1] /\ Len(adapters) \in Nat
      BY <2>7 DEF Register, TypeOK
    <3>2. \A k \in CGOKinds \ {request[t].kind} : \A m \in Methods : latest'[k][m] = Unknown
      BY <2>7 DEF Register
    <3> QED BY <3>1, <3>2 DEF KnownIsCurrent, GoServer, Unknown
  <2>8. CASE Unlock(t)
    BY <2>8 DEF Unlock, KnownIsCurrent, Forget, Unknown, registryVars
  <2>9. CASE LoadServer(t)
    BY <2>9 DEF LoadServer, KnownIsCurrent, Forget, Unknown, registryVars
  <2>10. CASE Dispatch(t)
    BY <2>10 DEF Dispatch, KnownIsCurrent, Forget, Unknown, registryVars
  <2>11. CASE Serve(t)
    BY <2>11 DEF Serve, KnownIsCurrent, Forget, Unknown, registryVars
  <2>12. CASE Unimplemented(t)
    BY <2>12 DEF Unimplemented, KnownIsCurrent, Forget, Unknown, registryVars
  <2>13. CASE StartSession(t)
    BY <2>13 DEF StartSession, KnownIsCurrent, Forget, Unknown, registryVars
  <2> QED BY <1>2, <2>1, <2>2, <2>3, <2>4, <2>5, <2>6, <2>7, <2>8, <2>9, <2>10, <2>11, <2>12, <2>13 DEF Act
<1> QED BY <1>1, <1>2 DEF Next, Act

(* A registration keeps what it does not replace. *)
LEMMA NoLostStep ==
  ASSUME IInv, [Next]_vars
  PROVE  NoLostUpdate'
<1> USE RegistrationAssumption DEF IInv
<1>1. CASE UNCHANGED vars
  BY <1>1 DEF vars, registryVars, NoLostUpdate
<1>2. ASSUME NEW t \in Threads, Act(t)
      PROVE  NoLostUpdate'
  <2>1. CASE GoRegister(t)
    BY <2>1 DEF GoRegister, NoLostUpdate, Forget, NoServer, Unknown, registryVars
  <2>2. CASE GoRegisterFails(t)
    BY <2>2 DEF GoRegisterFails, NoLostUpdate, Forget, NoServer, Unknown, registryVars
  <2>3. CASE ClearServer(t)
    BY <2>3 DEF ClearServer, NoLostUpdate, Forget, NoServer, Unknown, registryVars
  <2>4. CASE Clear(t)
    BY <2>4 DEF Clear, NoLostUpdate, Forget, NoServer, Unknown, registryVars
  <2>5. CASE CGORegister(t)
    BY <2>5 DEF CGORegister, NoLostUpdate, Forget, NoServer, Unknown, registryVars
  <2>6. CASE AdapterForRegister(t)
    BY <2>6 DEF AdapterForRegister, NoLostUpdate, Forget, NoServer, Unknown, registryVars
  <2>7. CASE Register(t)
    <3> DEFINE r == request[t]
    <3>1. /\ current' = [kind |-> r.kind, server |-> Len(adapters) + 1]
          /\ adapters' = Append(adapters, Assign(r, copied[t]))
          /\ r \in Requests /\ copied[t] \in Adapter
      BY <2>7 DEF Register, TypeOK
    <3>2. r.kind \in CGOKinds /\ Assign(r, copied[t]) \in Adapter
      BY <3>1, AssignedAdapter DEF Requests
    <3>3. adapters'[Len(adapters) + 1] = Assign(r, copied[t])
      BY <3>1, <3>2 DEF TypeOK
    <3> SUFFICES ASSUME NEW m \in Methods, latest'[r.kind][m].known,
                        NEW o \in CallbackOperations(Streaming(m))
                 PROVE  Assign(r, copied[t])[m][o] = latest'[r.kind][m].number
      BY <3>1, <3>3 DEF NoLostUpdate
    <3>4. CASE Keeps(r, m)
      <4>1. latest'[r.kind][m] = latest[r.kind][m]
        BY <2>7, <3>2, <3>4 DEF Register
      <4>2. copied[t][m][o] = latest[r.kind][m].number
        BY <2>7, <4>1 DEF Register, CopiedIsLatest
      <4> QED BY <3>1, <3>4, <4>1, <4>2, AssignedAdapter
    <3>5. CASE ~Keeps(r, m)
      <4>1. latest'[r.kind][m].number = (IF r.given[m] = "all" THEN r.number ELSE 0)
        BY <2>7, <3>2, <3>5 DEF Register
      <4> QED BY <3>1, <3>5, <4>1, AssignedAdapter
    <3> QED BY <3>4, <3>5
  <2>8. CASE Unlock(t)
    BY <2>8 DEF Unlock, NoLostUpdate, Forget, NoServer, Unknown, registryVars
  <2>9. CASE LoadServer(t)
    BY <2>9 DEF LoadServer, NoLostUpdate, Forget, NoServer, Unknown, registryVars
  <2>10. CASE Dispatch(t)
    BY <2>10 DEF Dispatch, NoLostUpdate, Forget, NoServer, Unknown, registryVars
  <2>11. CASE Serve(t)
    BY <2>11 DEF Serve, NoLostUpdate, Forget, NoServer, Unknown, registryVars
  <2>12. CASE Unimplemented(t)
    BY <2>12 DEF Unimplemented, NoLostUpdate, Forget, NoServer, Unknown, registryVars
  <2>13. CASE StartSession(t)
    BY <2>13 DEF StartSession, NoLostUpdate, Forget, NoServer, Unknown, registryVars
  <2> QED BY <1>2, <2>1, <2>2, <2>3, <2>4, <2>5, <2>6, <2>7, <2>8, <2>9, <2>10, <2>11, <2>12, <2>13 DEF Act
<1> QED BY <1>1, <1>2 DEF Next, Act

(* The mutex keeps the promises to its kind still while one registers. *)
LEMMA CopiedStep ==
  ASSUME IInv, [Next]_vars
  PROVE  CopiedIsLatest'
<1> USE RegistrationAssumption DEF IInv
<1>1. CASE UNCHANGED vars
  BY <1>1 DEF vars, registryVars, CopiedIsLatest
<1>2. ASSUME NEW t \in Threads, Act(t)
      PROVE  CopiedIsLatest'
  <2>1. CASE GoRegister(t)
    <3>1. \A u \in Threads : pc'[u] = "copied" =>
            /\ pc[u] = "copied" /\ request'[u] = request[u] /\ copied'[u] = copied[u]
      BY <2>1 DEF GoRegister, Goto, callVars, TypeOK
    <3>2. \A u \in Threads : \A m \in Methods : ~latest'[request[u].kind][m].known
      BY <2>1 DEF GoRegister, Forget, Unknown, TypeOK, Requests
    <3> QED BY <3>1, <3>2 DEF CopiedIsLatest
  <2>2. CASE GoRegisterFails(t)
    <3>1. \A u \in Threads : pc'[u] = "copied" =>
            /\ pc[u] = "copied" /\ request'[u] = request[u] /\ copied'[u] = copied[u]
      BY <2>2 DEF GoRegisterFails, Goto, callVars, TypeOK
    <3>2. UNCHANGED latest
      BY <2>2 DEF GoRegisterFails, registryVars
    <3> QED BY <3>1, <3>2 DEF CopiedIsLatest
  <2>3. CASE ClearServer(t)
    <3>1. \A u \in Threads : pc'[u] = "copied" =>
            /\ pc[u] = "copied" /\ request'[u] = request[u] /\ copied'[u] = copied[u]
      BY <2>3 DEF ClearServer, Goto, callVars, TypeOK
    <3>2. \A u \in Threads : \A m \in Methods : ~latest'[request[u].kind][m].known
      BY <2>3 DEF ClearServer, Forget, Unknown, TypeOK, Requests
    <3> QED BY <3>1, <3>2 DEF CopiedIsLatest
  <2>4. CASE Clear(t)
    <3>1. \A u \in Threads : pc'[u] = "copied" =>
            /\ pc[u] = "copied" /\ request'[u] = request[u] /\ copied'[u] = copied[u]
      BY <2>4 DEF Clear, Goto, callVars, TypeOK
    <3>2. \A u \in Threads : \A m \in Methods : ~latest'[request[u].kind][m].known
      BY <2>4 DEF Clear, Forget, Unknown, TypeOK, Requests
    <3> QED BY <3>1, <3>2 DEF CopiedIsLatest
  <2>5. CASE CGORegister(t)
    <3>1. \A u \in Threads : pc'[u] = "copied" =>
            /\ pc[u] = "copied" /\ request'[u] = request[u] /\ copied'[u] = copied[u]
      BY <2>5 DEF CGORegister, Goto, callVars, TypeOK
    <3>2. UNCHANGED latest
      BY <2>5 DEF CGORegister, registryVars
    <3> QED BY <3>1, <3>2 DEF CopiedIsLatest
  <2>6. CASE AdapterForRegister(t)
    <3>1. request[t].kind \in CGOKinds /\ pc[t] = "locked"
      BY <2>6 DEF AdapterForRegister, TypeOK, Requests
    <3>2. ASSUME NEW m \in Methods, latest[request[t].kind][m].known,
                 NEW o \in CallbackOperations(Streaming(m))
          PROVE  copied'[t][m][o] = latest[request[t].kind][m].number
      <4>1. current.kind = request[t].kind /\ current.server # GoServer
        BY <3>1, <3>2 DEF KnownIsCurrent
      <4>2. copied'[t] = adapters[current.server]
        BY <2>6, <4>1 DEF AdapterForRegister, TypeOK
      <4> QED BY <3>1, <3>2, <4>1, <4>2 DEF NoLostUpdate
    <3>3. \A u \in Threads \ {t} : copied'[u] = copied[u] /\ pc'[u] = pc[u]
      BY <2>6 DEF AdapterForRegister, Goto, TypeOK
    <3>4. UNCHANGED <<request, latest>>
      BY <2>6 DEF AdapterForRegister, registryVars
    <3> QED BY <3>2, <3>3, <3>4 DEF CopiedIsLatest
  <2>7. CASE Register(t)
    <3>1. ASSUME NEW u \in Threads, pc'[u] = "copied"
          PROVE  /\ pc[u] = "copied" /\ request[u].kind \in CGOKinds
                 /\ request[u].kind # request[t].kind
      <4>1. pc[u] = "copied" /\ u # t /\ pc[t] = "copied"
        BY <2>7, <3>1 DEF Register, Goto, TypeOK
      <4>2. mutex[request[u].kind] = u /\ mutex[request[t].kind] = t
        BY <4>1 DEF MutexHeld, Registering
      <4> QED BY <4>1, <4>2 DEF TypeOK, Requests
    <3>2. \A k \in CGOKinds \ {request[t].kind} : \A m \in Methods : latest'[k][m] = Unknown
      BY <2>7 DEF Register
    <3>3. UNCHANGED request
      BY <2>7 DEF Register
    <3> QED BY <3>1, <3>2, <3>3 DEF CopiedIsLatest, Unknown
  <2>8. CASE Unlock(t)
    <3>1. \A u \in Threads : pc'[u] = "copied" =>
            /\ pc[u] = "copied" /\ request'[u] = request[u] /\ copied'[u] = copied[u]
      BY <2>8 DEF Unlock, Goto, callVars, TypeOK
    <3>2. UNCHANGED latest
      BY <2>8 DEF Unlock, registryVars
    <3> QED BY <3>1, <3>2 DEF CopiedIsLatest
  <2>9. CASE LoadServer(t)
    <3>1. \A u \in Threads : pc'[u] = "copied" =>
            /\ pc[u] = "copied" /\ request'[u] = request[u] /\ copied'[u] = copied[u]
      BY <2>9 DEF LoadServer, Goto, callVars, TypeOK
    <3>2. UNCHANGED latest
      BY <2>9 DEF LoadServer, registryVars
    <3> QED BY <3>1, <3>2 DEF CopiedIsLatest
  <2>10. CASE Dispatch(t)
    <3>1. \A u \in Threads : pc'[u] = "copied" =>
            /\ pc[u] = "copied" /\ request'[u] = request[u] /\ copied'[u] = copied[u]
      BY <2>10 DEF Dispatch, Goto, callVars, TypeOK
    <3>2. UNCHANGED latest
      BY <2>10 DEF Dispatch, registryVars
    <3> QED BY <3>1, <3>2 DEF CopiedIsLatest
  <2>11. CASE Serve(t)
    <3>1. \A u \in Threads : pc'[u] = "copied" =>
            /\ pc[u] = "copied" /\ request'[u] = request[u] /\ copied'[u] = copied[u]
      BY <2>11 DEF Serve, Goto, callVars, TypeOK
    <3>2. UNCHANGED latest
      BY <2>11 DEF Serve, registryVars
    <3> QED BY <3>1, <3>2 DEF CopiedIsLatest
  <2>12. CASE Unimplemented(t)
    <3>1. \A u \in Threads : pc'[u] = "copied" =>
            /\ pc[u] = "copied" /\ request'[u] = request[u] /\ copied'[u] = copied[u]
      BY <2>12 DEF Unimplemented, Goto, callVars, TypeOK
    <3>2. UNCHANGED latest
      BY <2>12 DEF Unimplemented, registryVars
    <3> QED BY <3>1, <3>2 DEF CopiedIsLatest
  <2>13. CASE StartSession(t)
    <3>1. \A u \in Threads : pc'[u] = "copied" =>
            /\ pc[u] = "copied" /\ request'[u] = request[u] /\ copied'[u] = copied[u]
      BY <2>13 DEF StartSession, Goto, callVars, TypeOK
    <3>2. UNCHANGED latest
      BY <2>13 DEF StartSession, registryVars
    <3> QED BY <3>1, <3>2 DEF CopiedIsLatest
  <2> QED BY <1>2, <2>1, <2>2, <2>3, <2>4, <2>5, <2>6, <2>7, <2>8, <2>9, <2>10, <2>11, <2>12, <2>13 DEF Act
<1> QED BY <1>1, <1>2 DEF Next, Act

-----------------------------------------------------------------------------
LEMMA NextIInv ==
  ASSUME IInv, [Next]_vars
  PROVE  IInv'
BY TypeStep, MutexStep, UniformStep, CallStep, OneRegistrationStep, KindsStep, KnownStep,
   NoLostStep, CopiedStep DEF IInv

LEMMA AlwaysIInv == Spec => []IInv
BY InitIInv, NextIInv, PTL DEF Spec

(* The callbacks of a C stream come from one registration and none is nil, *)
(* for every number of methods, threads and registrations.                 *)
THEOREM OneRegistrationPerStreamHolds == Spec => []OneRegistrationPerStream
<1>1. IInv => OneRegistrationPerStream
  BY DEF IInv
<1> QED BY <1>1, AlwaysIInv, PTL

(* No C registration is lost to another one that ran at the same time. *)
THEOREM NoLostUpdateHolds == Spec => []NoLostUpdate
<1>1. IInv => NoLostUpdate
  BY DEF IInv
<1> QED BY <1>1, AlwaysIInv, PTL

(* What a call loads is of a kind its entry point has a case for, whatever *)
(* the service's comment selects.                                          *)
THEOREM RoutesCoverHolds == Spec => []RoutesCover
<1>1. IInv => RoutesCover
  BY RoutesCoverSources DEF IInv, TypeOK, KindsGenerated, RoutesCover
<1> QED BY <1>1, AlwaysIInv, PTL

=============================================================================
