-------------------------- MODULE ServerRegistration --------------------------
(***************************************************************************)
(* The current server of one service: the generated registration helpers   *)
(* that replace or clear it, the C registration exports that accumulate    *)
(* callbacks into it, and the calls that read it.                          *)
(*                                                                         *)
(* The registry's Register, Load and Clear hold its lock and are one       *)
(* action each.  A C registration is not atomic: under the mutex of its    *)
(* kind it loads the current adapter, fills a copy of it and registers the *)
(* copy, and only the mutex keeps another one of its kind out; nothing     *)
(* keeps out the Go helpers.  An adapter is never written once it is       *)
(* registered, so a stream reads its callbacks one by one without a lock.  *)
(*                                                                         *)
(* C registrations are numbered.  A callback is known by the number of the *)
(* registration that brought it; 0 is a nil callback.                      *)
(***************************************************************************)
EXTENDS ServicePlan

CONSTANTS
  Threads,
  Comments,          \* the option comments the service may have
  UnaryMethods, ClientStreamMethods, ServerStreamMethods, BidiStreamMethods,
  MaxRegistrations   \* bound on the C registrations

Methods == UnaryMethods \cup ClientStreamMethods \cup ServerStreamMethods \cup BidiStreamMethods

Nobody == "nobody"     \* holds the mutex when no thread does
ASSUME RegistrationAssumption == Nobody \notin Threads /\ MaxRegistrations \in Nat

Streaming(m) ==
  CASE m \in UnaryMethods -> "unary"
    [] m \in ClientStreamMethods -> "client_streaming"
    [] m \in ServerStreamMethods -> "server_streaming"
    [] OTHER -> "bidi_streaming"

Adapter == [Methods -> [{"unary", "start", "send", "recv", "closeSend", "finish", "cancel"} -> Nat]]
EmptyAdapter ==
  [m \in Methods |->
    [o \in {"unary", "start", "send", "recv", "closeSend", "finish", "cancel"} |-> 0]]

(* Servers are pointers: adapters are numbered as they are registered, and *)
(* a server written in Go is opaque.                                       *)
GoServer == 0
NoServer == [kind |-> "none", server |-> GoServer]

VARIABLES
  selection,            \* what the service's comment selects
  current,              \* the registry's entry: kind and server
  adapters,             \* the adapters registered so far, by number
  mutex,                \* of each C kind, who is registering
  registrations,        \* how many C registrations were begun
  pc, request, copied,  \* of every thread: its C registration and its copy of the adapter
  loaded, method, used, \* its call: the server it loaded, the callbacks' registrations
  latest                \* history: the callbacks each method should have, by C kind

callVars == <<loaded, method, used>>
registryVars == <<current, adapters, latest>>
vars == <<selection, registryVars, mutex, registrations, pc, request, copied, callVars>>

Requests ==
  [kind : CGOKinds, number : Nat, methods : SUBSET Methods, wholeService : BOOLEAN,
   given : [Methods -> {"all", "none", "part"}]]
NoRequest ==
  [kind |-> "cgo_message", number |-> 0, methods |-> {}, wholeService |-> TRUE,
   given |-> [m \in Methods |-> "none"]]

Unknown == [number |-> 0, known |-> FALSE]   \* nothing is promised for the method

TypeOK ==
  /\ selection \in Selections
  /\ current \in [kind : Kinds \cup {"none"}, server : 0 .. Len(adapters)]
  /\ adapters \in Seq(Adapter)
  /\ mutex \in [CGOKinds -> Threads \cup {Nobody}]
  /\ registrations \in Nat
  /\ pc \in [Threads -> {"idle", "locked", "copied", "registered", "clear", "loaded", "started"}]
  /\ request \in [Threads -> Requests]
  /\ copied \in [Threads -> Adapter]
  /\ loaded \in [Threads -> [kind : Kinds \cup {"none"}, server : 0 .. Len(adapters)]]
  /\ method \in [Threads -> Methods \cup {"none"}]
  /\ used \in [Threads -> SUBSET Nat]
  /\ latest \in [CGOKinds -> [Methods -> [number : Nat, known : BOOLEAN]]]

Init ==
  /\ \E c \in Comments : ParseOptions(c) # Rejected /\ selection = ParseOptions(c)
  /\ current = NoServer
  /\ adapters = <<>>
  /\ mutex = [k \in CGOKinds |-> Nobody]
  /\ registrations = 0
  /\ pc = [t \in Threads |-> "idle"]
  /\ request = [t \in Threads |-> NoRequest]
  /\ copied = [t \in Threads |-> EmptyAdapter]
  /\ loaded = [t \in Threads |-> NoServer]
  /\ method = [t \in Threads |-> "none"]
  /\ used = [t \in Threads |-> {}]
  /\ latest = [k \in CGOKinds |-> [m \in Methods |-> Unknown]]

Goto(t, to) == pc' = [pc EXCEPT ![t] = to]

-----------------------------------------------------------------------------
(***************************************************************************)
(* The helpers that register a server written in Go, a handler or a remote *)
(* client; Register...CGOMessageServer and Register...CGONativeServer take *)
(* a Go server too.                                                        *)
(***************************************************************************)
Forget == latest' = [k \in CGOKinds |-> [m \in Methods |-> Unknown]]

GoRegister(t) ==
  /\ pc[t] = "idle"
  /\ \E k \in RegistrationSources(selection) : current' = [kind |-> k, server |-> GoServer]
  /\ Forget
  /\ UNCHANGED <<selection, adapters, mutex, registrations, pc, request, copied, callVars>>

(* A nil server, or a typed nil that the registry's validation refuses:    *)
(* the helper clears the current server, in a step of its own.             *)
GoRegisterFails(t) ==
  /\ pc[t] = "idle"
  /\ Goto(t, "clear")
  /\ UNCHANGED <<selection, registryVars, mutex, registrations, request, copied, callVars>>

ClearServer(t) ==
  /\ pc[t] = "clear"
  /\ current' = NoServer
  /\ Forget
  /\ Goto(t, "idle")
  /\ UNCHANGED <<selection, adapters, mutex, registrations, request, copied, callVars>>

(* Clear...Server. *)
Clear(t) ==
  /\ pc[t] = "idle"
  /\ current' = NoServer
  /\ Forget
  /\ UNCHANGED <<selection, adapters, mutex, registrations, pc, request, copied, callVars>>

-----------------------------------------------------------------------------
(***************************************************************************)
(* The C registration exports: of the whole service, or of one method.     *)
(***************************************************************************)
(* A unary method has one callback and cannot be given in part. *)
Given(ms) ==
  {g \in [Methods -> {"all", "none", "part"}] :
    \A m \in Methods : (m \in UnaryMethods => g[m] # "part") /\ (m \notin ms => g[m] = "none")}

LockWithoutWaiting(t, k) ==
  mutex' = [mutex EXCEPT ![k] = t]
Lock(t, k) ==
  /\ mutex[k] = Nobody
  /\ mutex' = [mutex EXCEPT ![k] = t]

CGORegister(t) ==
  /\ pc[t] = "idle"
  /\ registrations < MaxRegistrations
  /\ registrations' = registrations + 1
  /\ \E k \in CGOKinds \cap RegistrationSources(selection), ms \in {Methods} \cup {{m} : m \in Methods} :
       /\ Lock(t, k)
       /\ \E g \in Given(ms), whole \in BOOLEAN :
            /\ whole <=> ms = Methods
            /\ request' = [request EXCEPT ![t] =
                 [kind |-> k, number |-> registrations + 1, methods |-> ms,
                  wholeService |-> whole, given |-> g]]
  /\ Goto(t, "locked")
  /\ UNCHANGED <<selection, registryVars, copied, callVars>>

(* ...AdapterForRegister: a copy of the current adapter if it is of this   *)
(* kind and was made by a C registration.                                  *)
AdapterForRegister(t) ==
  /\ pc[t] = "locked"
  /\ copied' = [copied EXCEPT ![t] =
       IF current.kind = request[t].kind /\ current.server # GoServer
         THEN adapters[current.server]
         ELSE EmptyAdapter]
  /\ Goto(t, "copied")
  /\ UNCHANGED <<selection, registryVars, mutex, registrations, request, callVars>>

(* A service-level registration leaves a method without callbacks alone, a *)
(* registration of the method itself takes its callbacks away.  A stream   *)
(* method with some of its callbacks loses them all.                       *)
Keeps(r, m) == m \notin r.methods \/ (r.wholeService /\ r.given[m] = "none")

Assign(r, adapter) ==
  [m \in Methods |->
    IF Keeps(r, m) THEN adapter[m]
    ELSE [o \in DOMAIN adapter[m] |->
           IF r.given[m] = "all" /\ o \in CallbackOperations(Streaming(m)) THEN r.number ELSE 0]]

(* Register and the assignments before it, which nobody else can see. *)
RegisterInPlace(t) ==
  LET r == request[t] IN
  /\ pc[t] = "copied"
  /\ IF current.kind = r.kind /\ current.server # GoServer
       THEN /\ adapters' = [adapters EXCEPT ![current.server] = Assign(r, copied[t])]
            /\ UNCHANGED current
       ELSE /\ adapters' = Append(adapters, Assign(r, copied[t]))
            /\ current' = [kind |-> r.kind, server |-> Len(adapters) + 1]
  /\ latest' = [k \in CGOKinds |-> [m \in Methods |->
       IF k # r.kind THEN Unknown
       ELSE IF Keeps(r, m) THEN latest[k][m]
       ELSE [number |-> IF r.given[m] = "all" THEN r.number ELSE 0, known |-> TRUE]]]
  /\ Goto(t, "registered")
  /\ UNCHANGED <<selection, mutex, registrations, request, copied, callVars>>
Register(t) ==
  LET r == request[t] IN
  /\ pc[t] = "copied"
  /\ adapters' = Append(adapters, Assign(r, copied[t]))
  /\ current' = [kind |-> r.kind, server |-> Len(adapters) + 1]
  /\ latest' = [k \in CGOKinds |-> [m \in Methods |->
       IF k # r.kind THEN Unknown
       ELSE IF Keeps(r, m) THEN latest[k][m]
       ELSE [number |-> IF r.given[m] = "all" THEN r.number ELSE 0, known |-> TRUE]]]
  /\ Goto(t, "registered")
  /\ UNCHANGED <<selection, mutex, registrations, request, copied, callVars>>

Unlock(t) ==
  /\ pc[t] = "registered"
  /\ mutex' = [mutex EXCEPT ![request[t].kind] = Nobody]
  /\ Goto(t, "idle")
  /\ request' = [request EXCEPT ![t] = NoRequest]
  /\ copied' = [copied EXCEPT ![t] = EmptyAdapter]
  /\ UNCHANGED <<selection, registryVars, registrations, callVars>>

-----------------------------------------------------------------------------
(***************************************************************************)
(* Calls: a unary call, or the Start of a stream.  The server is loaded    *)
(* once; what follows uses it whatever becomes of the registration.  With  *)
(* no server the call fails and changes nothing.                           *)
(***************************************************************************)
LoadServer(t) ==
  /\ pc[t] = "idle"
  /\ current # NoServer
  /\ \E m \in Methods : method' = [method EXCEPT ![t] = m]
  /\ used' = [used EXCEPT ![t] = {}]
  /\ loaded' = [loaded EXCEPT ![t] = current]
  /\ Goto(t, "loaded")
  /\ UNCHANGED <<selection, registryVars, mutex, registrations, request, copied>>

Callback(t, o) == adapters[loaded[t].server][method[t]][o]
Bridge(t) == BridgeOperations(Shape(Capabilities(Streaming(method[t]))))

EndCall(t) ==
  /\ loaded' = [loaded EXCEPT ![t] = NoServer]
  /\ method' = [method EXCEPT ![t] = "none"]

(* The switch over the kind, and a server that is not a C adapter. *)
Dispatch(t) ==
  /\ pc[t] = "loaded"
  /\ loaded[t].kind \notin Routes(selection) \/ loaded[t].server = GoServer
  /\ Goto(t, "idle")
  /\ EndCall(t)
  /\ UNCHANGED <<selection, registryVars, mutex, registrations, request, copied, used>>

(* The adapter's method.  For a stream it calls C's Start and takes the    *)
(* other callbacks for the session afterwards.                             *)
Serve(t) ==
  /\ pc[t] = "loaded"
  /\ loaded[t].kind \in Routes(selection) /\ loaded[t].server # GoServer
  /\ \A o \in Bridge(t) : Callback(t, o) # 0
  /\ used' = [used EXCEPT ![t] = {Callback(t, o) : o \in Bridge(t) \cap {"unary", "start"}}]
  /\ IF "start" \in Bridge(t)
       THEN Goto(t, "started") /\ UNCHANGED <<loaded, method>>
       ELSE Goto(t, "idle") /\ EndCall(t)
  /\ UNCHANGED <<selection, registryVars, mutex, registrations, request, copied>>

Unimplemented(t) ==
  /\ pc[t] = "loaded"
  /\ loaded[t].kind \in Routes(selection) /\ loaded[t].server # GoServer
  /\ \E o \in Bridge(t) : Callback(t, o) = 0
  /\ Goto(t, "idle")
  /\ EndCall(t)
  /\ UNCHANGED <<selection, registryVars, mutex, registrations, request, copied, used>>

StartSession(t) ==
  /\ pc[t] = "started"
  /\ used' = [used EXCEPT ![t] = @ \cup {Callback(t, o) : o \in Bridge(t) \ {"start"}}]
  /\ Goto(t, "idle")
  /\ EndCall(t)
  /\ UNCHANGED <<selection, registryVars, mutex, registrations, request, copied>>

Next ==
  \E t \in Threads :
    \/ GoRegister(t) \/ GoRegisterFails(t) \/ ClearServer(t) \/ Clear(t)
    \/ CGORegister(t) \/ AdapterForRegister(t) \/ Register(t) \/ Unlock(t)
    \/ LoadServer(t) \/ Dispatch(t) \/ Serve(t) \/ Unimplemented(t) \/ StartSession(t)

Spec == Init /\ [][Next]_vars

-----------------------------------------------------------------------------
(* All callbacks of one stream come from one registration and none is nil, *)
(* however many registrations run between the steps of its start.          *)
OneRegistrationPerStream ==
  \A t \in Threads : 0 \notin used[t] /\ \A i, j \in used[t] : i = j

(* No C registration is lost: between two clears the current adapter has,  *)
(* for every method, what the last registration that named it left.        *)
NoLostUpdate ==
  current.kind \in CGOKinds /\ current.server # GoServer =>
    \A m \in Methods :
      latest[current.kind][m].known =>
        \A o \in CallbackOperations(Streaming(m)) :
          adapters[current.server][m][o] = latest[current.kind][m].number

(* Every kind of server the generated helpers can register is one the      *)
(* generated entry points know.                                            *)
RoutesCover == \A t \in Threads : pc[t] = "loaded" => loaded[t].kind \in Routes(selection)

=============================================================================
