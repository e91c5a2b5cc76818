---------------------------- MODULE StreamHandles ----------------------------
(***************************************************************************)
(* The stream registry and the generated stream facade over it: client     *)
(* threads start streams, get int32 handles, and end streams by handle     *)
(* while other threads use the same handle.                                *)
(*                                                                         *)
(* The registry's operations hold its mutex and are one action each.  A    *)
(* facade operation is not atomic: it loads the session, calls the client  *)
(* endpoint of the stream, and then takes the handle out of the registry.  *)
(***************************************************************************)
EXTENDS Integers, FiniteSets

CONSTANTS
  Threads,     \* client threads
  Shapes,      \* of the streams they start; "direct" is a server stream of C
  MaxHandle,   \* the largest handle (maxHandle)
  MaxInt,      \* the largest value of StreamHandle's integer type
  MaxStreams   \* bound on the streams started

ASSUME HandlesAssumption ==
  /\ Shapes \subseteq {"client", "server", "bidi", "direct"}
  /\ MaxHandle \in Nat \ {0}
  /\ MaxInt \in Nat /\ MaxHandle <= MaxInt
  /\ MaxStreams \in Nat

Streams == 1 .. MaxStreams   \* streams are numbered as they are started
Handles == 1 .. MaxHandle
None == 0                    \* no stream; also the handle that is never issued

VARIABLES
  next, entries,         \* the registry
  started,               \* how many streams were started
  shape, handleOf,       \* of every stream: its kind, the handle its client got
  handler,               \* of every stream: its server handler
  pc, op, arg, loaded,   \* of every thread: the call it is in
  result,                \* what its last call returned
  wins                   \* of every stream: calls that ended it and took its handle

streamVars == <<started, shape, handler>>
threadVars == <<pc, op, arg, loaded, result>>
vars == <<next, entries, handleOf, streamVars, threadVars, wins>>

Registered == {entries[h] : h \in DOMAIN entries}

TypeOK ==
  /\ next \in 0 .. MaxHandle
  /\ DOMAIN entries \subseteq Handles /\ \A h \in DOMAIN entries : entries[h] \in 1 .. started
  /\ started \in 0 .. MaxStreams
  /\ shape \in [Streams -> {"client", "server", "bidi", "direct"}]
  /\ handleOf \in [Streams -> 0 .. MaxHandle]
  /\ handler \in [Streams -> {"running", "ok", "failed"}]
  /\ pc \in [Threads -> {"idle", "create", "load", "source", "remove"}]
  /\ op \in [Threads -> {"none", "start", "finish", "recv", "cancel"}]
  /\ arg \in [Threads -> 0 .. MaxHandle]
  /\ loaded \in [Threads -> 0 .. started]
  /\ result \in [Threads -> {"none", "ok", "error", "invalid", "eof", "exhausted"}]
  /\ wins \in [Streams -> Nat]

Init ==
  /\ next = 0
  /\ entries = [h \in {} |-> None]
  /\ started = 0
  /\ shape \in [Streams -> Shapes]
  /\ handleOf = [s \in Streams |-> 0]
  /\ handler = [s \in Streams |-> "running"]
  /\ pc = [t \in Threads |-> "idle"]
  /\ op = [t \in Threads |-> "none"]
  /\ arg = [t \in Threads |-> 0]
  /\ loaded = [t \in Threads |-> None]
  /\ result = [t \in Threads |-> "none"]
  /\ wins = [s \in Streams |-> 0]

-----------------------------------------------------------------------------
(***************************************************************************)
(* The registry.                                                           *)
(***************************************************************************)
(* The int32 addition, and the reset that keeps next in 1..MaxHandle. *)
Increment(n) == IF n = MaxInt THEN -MaxInt - 1 ELSE n + 1
NormalizeAboveOnly(n) == IF n > MaxHandle THEN 1 ELSE n
Normalize(n) == IF n <= 0 \/ n > MaxHandle THEN 1 ELSE n

(* The handles the scan of allocateLocked visits before it reaches h. *)
Before(h) ==
  LET first == Normalize(next)
  IN  IF first <= h THEN first .. (h - 1) ELSE (first .. MaxHandle) \cup (1 .. (h - 1))

(* What the scan may return: the first free handle at or after next. *)
AllocatedAnyway(h) == Before(h) \subseteq DOMAIN entries
AllocatedLowest(h) == h \notin DOMAIN entries /\ 1 .. (h - 1) \subseteq DOMAIN entries
Allocated(h) == h \notin DOMAIN entries /\ Before(h) \subseteq DOMAIN entries

Take(h) == entries' = [k \in DOMAIN entries \ {h} |-> entries[k]]

-----------------------------------------------------------------------------
(***************************************************************************)
(* Starting a stream: the client endpoint is made and the handler runs     *)
(* before the registry is asked for a handle.  A server stream that C      *)
(* serves for a message client has no handler in Go: the endpoint is C's   *)
(* own session, its calls are C's callbacks.                               *)
(***************************************************************************)
Start(t) ==
  /\ pc[t] = "idle"
  /\ started < MaxStreams
  /\ started' = started + 1
  /\ pc' = [pc EXCEPT ![t] = "create"]
  /\ op' = [op EXCEPT ![t] = "start"]
  /\ loaded' = [loaded EXCEPT ![t] = started + 1]
  /\ UNCHANGED <<next, entries, handleOf, shape, handler, arg, result, wins>>

Return(t, r) ==
  /\ pc' = [pc EXCEPT ![t] = "idle"]
  /\ result' = [result EXCEPT ![t] = r]

Create(t) ==
  /\ pc[t] = "create"
  /\ \E h \in Handles :
       /\ Allocated(h)
       /\ next' = Normalize(Increment(h))
       /\ entries' = [k \in DOMAIN entries \cup {h} |-> IF k = h THEN loaded[t] ELSE entries[k]]
       /\ handleOf' = [handleOf EXCEPT ![loaded[t]] = h]
  /\ Return(t, "ok")
  /\ UNCHANGED <<streamVars, op, arg, loaded, wins>>

(* The scan gives up after MaxHandle probes. *)
Full == \A h \in Handles : h \in DOMAIN entries

CreateFails(t) ==
  /\ pc[t] = "create"
  /\ Full
  /\ Return(t, "exhausted")
  /\ UNCHANGED <<next, entries, handleOf, streamVars, op, arg, loaded, wins>>

-----------------------------------------------------------------------------
(***************************************************************************)
(* The server handler: it returns when it likes.  A stream of C is over    *)
(* when C says so.                                                         *)
(***************************************************************************)
HandlerReturn(s) ==
  /\ s <= started
  /\ handler[s] = "running"
  /\ \E r \in {"ok", "failed"} : handler' = [handler EXCEPT ![s] = r]
  /\ UNCHANGED <<next, entries, handleOf, started, shape, threadVars, wins>>

-----------------------------------------------------------------------------
(***************************************************************************)
(* The facade operations.                                                  *)
(***************************************************************************)
(* A client calls with a handle it was given, whatever became of it. *)
Call(t) ==
  /\ pc[t] = "idle"
  /\ \E o \in {"finish", "recv", "cancel"}, s \in 1 .. started :
       /\ handleOf[s] # 0
       /\ op' = [op EXCEPT ![t] = o]
       /\ arg' = [arg EXCEPT ![t] = handleOf[s]]
  /\ pc' = [pc EXCEPT ![t] = "load"]
  /\ loaded' = [loaded EXCEPT ![t] = None]
  /\ UNCHANGED <<next, entries, handleOf, streamVars, result, wins>>

(* The endpoint of a stream has the operations of its shape; the facade's  *)
(* type assertion rejects the others and leaves the handle alone.          *)
Supports(s, o) ==
  /\ <<shape[s], o>> # <<"client", "recv">>
  /\ o = "finish" => shape[s] \notin {"server", "direct"}

Load(t) ==
  /\ pc[t] = "load"
  /\ arg[t] \in DOMAIN entries
  /\ Supports(entries[arg[t]], op[t])
  /\ pc' = [pc EXCEPT ![t] = "source"]
  /\ loaded' = [loaded EXCEPT ![t] = entries[arg[t]]]
  /\ UNCHANGED <<next, entries, handleOf, streamVars, op, arg, result, wins>>

LoadFails(t) ==
  /\ pc[t] = "load"
  /\ arg[t] \in DOMAIN entries => ~Supports(entries[arg[t]], op[t])
  /\ Return(t, "invalid")
  /\ UNCHANGED <<next, entries, handleOf, streamVars, op, arg, loaded, wins>>

Goto(t, to) == pc' = [pc EXCEPT ![t] = to]

(* The endpoint's call fails, and the facade returns before it comes to    *)
(* the registry.  It may at any time: the context of a call may run out,   *)
(* that of the stream may be canceled, the handler may have failed, and    *)
(* the callback of C behind a direct stream may report an error.           *)
SourceFails(t) ==
  /\ pc[t] = "source"
  /\ Return(t, "error")
  /\ UNCHANGED <<next, entries, handleOf, streamVars, op, arg, loaded, wins>>

(* Cancel cancels the stream's context and waits for the handler; C's own  *)
(* Cancel ends C's stream before it returns.                               *)
CancelSourceKeeping(t) ==
  /\ pc[t] = "source" /\ op[t] = "cancel"
  /\ handler[loaded[t]] # "running"
  /\ Return(t, "ok")
  /\ UNCHANGED <<next, entries, handleOf, streamVars, op, arg, loaded, wins>>
CancelSource(t) ==
  /\ pc[t] = "source" /\ op[t] = "cancel"
  /\ handler[loaded[t]] # "running"
  /\ Goto(t, "remove")
  /\ UNCHANGED <<next, entries, handleOf, streamVars, op, arg, loaded, result, wins>>

(* Finish waits for the handler and reports its error if the stream is a   *)
(* client stream; a bidi stream's Finish does not look.                    *)
FinishSource(t) ==
  /\ pc[t] = "source" /\ op[t] = "finish"
  /\ handler[loaded[t]] \in IF shape[loaded[t]] = "bidi" THEN {"ok", "failed"} ELSE {"ok"}
  /\ Goto(t, "remove")
  /\ UNCHANGED <<next, entries, handleOf, streamVars, op, arg, loaded, result, wins>>

(* The responses are not counted: there may be one for as long as the      *)
(* stream exists.                                                          *)
RecvResponse(t) ==
  /\ pc[t] = "source" /\ op[t] = "recv"
  /\ Return(t, "ok")
  /\ UNCHANGED <<next, entries, handleOf, streamVars, op, arg, loaded, wins>>

(* The end of a server stream ends the stream; that of the responses of a  *)
(* bidi stream does not.                                                   *)
RecvEOF(t) ==
  /\ pc[t] = "source" /\ op[t] = "recv"
  /\ handler[loaded[t]] = "ok"
  /\ IF shape[loaded[t]] \in {"server", "direct"}
       THEN Goto(t, "remove") /\ UNCHANGED result
       ELSE Return(t, "eof")
  /\ UNCHANGED <<next, entries, handleOf, streamVars, op, arg, loaded, wins>>

(* What a call that ended its stream returns.  Recv reports the end even   *)
(* when another call has taken the handle, or, of a direct stream, what    *)
(* C's Finish said, which it has called at the end.                        *)
Reported(t, r) ==
  IF op[t] # "recv" THEN {r}
  ELSE IF shape[loaded[t]] = "direct" THEN {"eof", "error"} ELSE {"eof"}

(* RemoveStreamSession. *)
RemoveLookingOnly(t) ==
  /\ pc[t] = "remove"
  /\ arg[t] \in DOMAIN entries
  /\ wins' = [wins EXCEPT ![loaded[t]] = @ + 1]
  /\ \E r \in Reported(t, "ok") : Return(t, r)
  /\ UNCHANGED <<next, entries, handleOf, streamVars, op, arg, loaded>>
Remove(t) ==
  /\ pc[t] = "remove"
  /\ arg[t] \in DOMAIN entries
  /\ Take(arg[t])
  /\ wins' = [wins EXCEPT ![loaded[t]] = @ + 1]
  /\ \E r \in Reported(t, "ok") : Return(t, r)
  /\ UNCHANGED <<next, handleOf, streamVars, op, arg, loaded>>

RemoveFailsUnnoticed(t) ==
  /\ pc[t] = "remove"
  /\ arg[t] \notin DOMAIN entries
  /\ wins' = [wins EXCEPT ![loaded[t]] = @ + 1]
  /\ \E r \in Reported(t, "ok") : Return(t, r)
  /\ UNCHANGED <<next, entries, handleOf, streamVars, op, arg, loaded>>
RemoveFails(t) ==
  /\ pc[t] = "remove"
  /\ arg[t] \notin DOMAIN entries
  /\ \E r \in Reported(t, "invalid") : Return(t, r)
  /\ UNCHANGED <<next, entries, handleOf, streamVars, op, arg, loaded, wins>>

CallStep(t) ==
  \/ Load(t) \/ LoadFails(t)
  \/ SourceFails(t) \/ CancelSource(t) \/ FinishSource(t)
  \/ RecvResponse(t) \/ RecvEOF(t)
  \/ Remove(t) \/ RemoveFails(t)

Next ==
  \/ \E t \in Threads : Start(t) \/ Create(t) \/ CreateFails(t) \/ Call(t) \/ CallStep(t)
  \/ \E s \in Streams : HandlerReturn(s)

Spec == Init /\ [][Next]_vars

-----------------------------------------------------------------------------
(* A stream that is stored gets a handle nobody holds: the entry of a      *)
(* handle stays until somebody takes it out.  A Start is refused a handle  *)
(* only when every handle is in use.                                       *)
FreeOrFull ==
  [][/\ \A h \in DOMAIN entries \cap DOMAIN entries' : entries'[h] = entries[h]
     /\ \A t \in Threads :
          pc[t] = "create" /\ pc'[t] = "idle" /\ result'[t] = "exhausted"
            => Cardinality(DOMAIN entries) = MaxHandle]_vars

(* No handle was issued twice yet: 2^31 - 1 Starts in the code. *)
Unwrapped == started <= MaxHandle

(* Until the numbering wraps, a handle names the stream it was issued for  *)
(* or nothing: no call through a stale handle reaches another stream.      *)
HandleNamesItsStream ==
  Unwrapped =>
    \A s \in 1 .. started : handleOf[s] \in DOMAIN entries => entries[handleOf[s]] = s

(* At most one of the calls that race to end a stream takes its handle. *)
OneWinner == Unwrapped => \A s \in Streams : wins[s] <= 1

(* A handle is valid from its Start to the call that ended the stream and  *)
(* took it, and never again: a Finish or a Cancel whose source failed      *)
(* leaves the stream reachable, one that succeeded does not.               *)
HeldUntilWon ==
  Unwrapped =>
    \A s \in 1 .. started :
      handleOf[s] # 0 => (handleOf[s] \in DOMAIN entries <=> wins[s] = 0)

(* A Cancel that returned has released the handle, whatever raced with it, *)
(* unless it reports an error of the stream itself.                        *)
CancelReleases ==
  Unwrapped =>
    \A t \in Threads :
      pc[t] = "idle" /\ op[t] = "cancel" /\ result[t] # "error" => arg[t] \notin DOMAIN entries

(* The handler of a stream whose Start succeeded can be reached through    *)
(* the handle for as long as it runs.                                      *)
NoOrphan ==
  Unwrapped =>
    \A s \in 1 .. started :
      \/ handler[s] # "running"
      \/ s \in Registered
      \/ handleOf[s] = 0

=============================================================================
