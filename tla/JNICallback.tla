------------------------------ MODULE JNICallback ------------------------------
(***************************************************************************)
(* The callback streams of one method as an Android app uses them: the     *)
(* Kotlin StartCallback with an owner and its RpccgoCallbackStream, the    *)
(* JNI exports below it, and the trampolines the Go receive loops call.    *)
(*                                                                         *)
(* The C++ file has ONE slot per method, the globals Listener, OnRecv,     *)
(* OnDone and Handle under the mutex Mu, for however many streams are      *)
(* started one after the other.  The listener of the n-th StartCallback,   *)
(* its global reference, its Go handle and its receive loop are all known  *)
(* as n.  What the Go exports promise the C++ code is what CallbackReceive *)
(* shows of them: the callbacks of a stream are serial, onDone is called   *)
(* once and last, and Cancel returns when onDone has returned.             *)
(***************************************************************************)
EXTENDS Naturals

CONSTANTS
  Callers,     \* app threads that start and cancel streams
  MaxStreams   \* bound on the calls of StartCallback

ASSUME JNIAssumption == MaxStreams \in Nat

Streams == 1 .. MaxStreams
Null == 0

VARIABLES
  listener, handle,     \* the slot; OnRecv and OnDone are set with Listener
  mu,                   \* the stream whose onRecv holds Mu, Null when it is free
  refs,                 \* the listeners whose global reference exists
  registered, canceled, \* Go: handles in the stream registry, sessions marked canceled
  receiver,             \* where the receive loop of each stream is
  calling,              \* the listener it calls
  open, active,         \* Kotlin: callbackOpen and active of each stream
  started,              \* how many StartCallback calls were made
  caller, subject,      \* of every caller: where it is, and the stream it starts or cancels
  starting,             \* whether the cancel it runs is the one inside StartCallback
  found,                \* the handle that cancel read
  stopped               \* history: the streams whose cancel() returned

slotVars == <<listener, handle, refs>>
goVars == <<registered, canceled>>
kotlinVars == <<open, active>>
receiverVars == <<receiver, calling>>
callerVars == <<caller, subject, starting, found, started, stopped>>
jniVars == <<slotVars, mu, goVars, receiverVars, kotlinVars, callerVars>>

JNITypeOK ==
  /\ listener \in Streams \cup {Null} /\ handle \in Streams \cup {Null}
  /\ mu \in Streams \cup {Null}
  /\ refs \subseteq Streams
  /\ registered \subseteq Streams /\ canceled \subseteq Streams
  /\ receiver \in [Streams -> {"none", "recv", "lock", "onRecv", "userRecv", "ending",
                               "onDone", "userDone", "clear", "exited", "lost"}]
  /\ calling \in [Streams -> Streams \cup {Null}]
  /\ open \subseteq Streams /\ active \subseteq Streams
  /\ started \in 0 .. MaxStreams
  /\ caller \in [Callers -> {"idle", "cancel", "clear", "cCancel", "cWait", "install",
                             "cStart", "startFailed", "storeHandle", "failed", "close"}]
  /\ subject \in [Callers -> Streams \cup {Null}]
  /\ starting \in [Callers -> BOOLEAN]
  /\ found \in [Callers -> Streams \cup {Null}]
  /\ stopped \subseteq Streams

JNIInit ==
  /\ listener = Null /\ handle = Null /\ mu = Null /\ refs = {}
  /\ registered = {} /\ canceled = {}
  /\ receiver = [s \in Streams |-> "none"]
  /\ calling = [s \in Streams |-> Null]
  /\ open = {} /\ active = {}
  /\ started = 0
  /\ caller = [c \in Callers |-> "idle"]
  /\ subject = [c \in Callers |-> Null]
  /\ starting = [c \in Callers |-> FALSE]
  /\ found = [c \in Callers |-> Null]
  /\ stopped = {}

Move(c, from, to) == caller[c] = from /\ caller' = [caller EXCEPT ![c] = to]

(* clear...Callback: deletes the reference in the slot, whosever it is. *)
ClearSlot ==
  /\ refs' = refs \ {listener}
  /\ listener' = Null /\ handle' = Null

-----------------------------------------------------------------------------
(***************************************************************************)
(* cancel...Callback, which StartCallback runs first and CancelCallback    *)
(* is.  It reads Handle under Mu and calls Go's Cancel without it.         *)
(***************************************************************************)
AfterCancel(c) == IF starting[c] THEN "install" ELSE "idle"
Canceled(c) ==
  stopped' = IF starting[c] \/ subject[c] = Null THEN stopped ELSE stopped \cup {subject[c]}

ReadHandleKeepingMu(c) ==
  /\ mu = Null
  /\ Move(c, "cancel", IF handle = Null THEN "clear" ELSE "cCancel")
  /\ found' = [found EXCEPT ![c] = handle]
  /\ mu' = handle
  /\ UNCHANGED <<slotVars, goVars, receiverVars, kotlinVars, subject, starting, started, stopped>>
ReadHandle(c) ==
  /\ mu = Null
  /\ Move(c, "cancel", IF handle = Null THEN "clear" ELSE "cCancel")
  /\ found' = [found EXCEPT ![c] = handle]
  /\ UNCHANGED <<slotVars, mu, goVars, receiverVars, kotlinVars, subject, starting, started, stopped>>

(* No handle: the slot is cleared and the call reports success. *)
ClearUnstarted(c) ==
  /\ mu = Null
  /\ Move(c, "clear", AfterCancel(c))
  /\ ClearSlot
  /\ Canceled(c)
  /\ UNCHANGED <<mu, goVars, receiverVars, kotlinVars, subject, starting, found, started>>

(* The C export marks the session canceled; a handle it does not know is   *)
(* an error, and the call reports failure.                                 *)
CCancel(c) ==
  /\ found[c] \in registered
  /\ Move(c, "cCancel", "cWait")
  /\ canceled' = canceled \cup {found[c]}
  /\ UNCHANGED <<slotVars, mu, registered, receiverVars, kotlinVars,
                 subject, starting, found, started, stopped>>

CCancelUnknown(c) ==
  /\ found[c] \notin registered
  /\ Move(c, "cCancel", AfterCancel(c))
  /\ Canceled(c)
  /\ UNCHANGED <<slotVars, mu, goVars, receiverVars, kotlinVars, subject, starting, found, started>>

(* It returns when the receive loop has delivered onDone. *)
CCancelReturnsAtOnce(c) ==
  /\ Move(c, "cWait", AfterCancel(c))
  /\ registered' = registered \ {found[c]}
  /\ Canceled(c)
  /\ UNCHANGED <<slotVars, mu, canceled, receiverVars, kotlinVars, subject, starting, found, started>>
CCancelReturns(c) ==
  /\ Move(c, "cWait", AfterCancel(c))
  /\ receiver[found[c]] \in {"exited", "lost"}
  /\ registered' = registered \ {found[c]}
  /\ Canceled(c)
  /\ UNCHANGED <<slotVars, mu, canceled, receiverVars, kotlinVars, subject, starting, found, started>>

-----------------------------------------------------------------------------
(***************************************************************************)
(* StartCallback with an owner: the Kotlin stream exists, and the owner's  *)
(* destruction cancels it, before the JNI export is called.                *)
(***************************************************************************)
StartCallback(c) ==
  /\ started < MaxStreams
  /\ Move(c, "idle", "cancel")
  /\ started' = started + 1
  /\ subject' = [subject EXCEPT ![c] = started + 1]
  /\ starting' = [starting EXCEPT ![c] = TRUE]
  /\ open' = open \cup {started + 1} /\ active' = active \cup {started + 1}
  /\ UNCHANGED <<slotVars, mu, goVars, receiverVars, found, stopped>>

(* The listener lacks a method, the request cannot be decoded, or there is *)
(* no room for a global reference.                                         *)
PrepareFails(c) ==
  /\ Move(c, "install", "failed")
  /\ UNCHANGED <<slotVars, mu, goVars, receiverVars, kotlinVars,
                 subject, starting, found, started, stopped>>

(* NewGlobalRef, and the slot filled under Mu; Handle keeps what it has. *)
StoreListener(c) ==
  /\ mu = Null
  /\ Move(c, "install", "cStart")
  /\ refs' = refs \cup {subject[c]}
  /\ listener' = subject[c]
  /\ UNCHANGED <<handle, mu, goVars, receiverVars, kotlinVars,
                 subject, starting, found, started, stopped>>

(* The C Start export: the receive loop runs before it returns. *)
CStart(c) ==
  /\ Move(c, "cStart", "storeHandle")
  /\ registered' = registered \cup {subject[c]}
  /\ receiver' = [receiver EXCEPT ![subject[c]] = "recv"]
  /\ UNCHANGED <<slotVars, mu, canceled, calling, kotlinVars,
                 subject, starting, found, started, stopped>>

CStartFails(c) ==
  /\ Move(c, "cStart", "startFailed")
  /\ UNCHANGED <<slotVars, mu, goVars, receiverVars, kotlinVars,
                 subject, starting, found, started, stopped>>

LeaveFailed(c) ==
  /\ Move(c, "startFailed", "failed")
  /\ UNCHANGED <<slotVars, mu, goVars, receiverVars, kotlinVars,
                 subject, starting, found, started, stopped>>
ClearFailed(c) ==
  /\ mu = Null
  /\ Move(c, "startFailed", "failed")
  /\ ClearSlot
  /\ UNCHANGED <<mu, goVars, receiverVars, kotlinVars, subject, starting, found, started, stopped>>

ForgetHandle(c) ==
  /\ mu = Null
  /\ Move(c, "storeHandle", "idle")
  /\ starting' = [starting EXCEPT ![c] = FALSE]
  /\ subject' = [subject EXCEPT ![c] = Null]
  /\ UNCHANGED <<slotVars, mu, goVars, receiverVars, kotlinVars, found, started, stopped>>
StoreHandle(c) ==
  /\ mu = Null
  /\ Move(c, "storeHandle", "idle")
  /\ handle' = subject[c]
  /\ starting' = [starting EXCEPT ![c] = FALSE]
  /\ subject' = [subject EXCEPT ![c] = Null]
  /\ UNCHANGED <<listener, refs, mu, goVars, receiverVars, kotlinVars, found, started, stopped>>

-----------------------------------------------------------------------------
(***************************************************************************)
(* RpccgoCallbackStream.cancel: by the app, by the destruction of the      *)
(* owner, or by StartCallback itself when the export failed.               *)
(***************************************************************************)
StreamCancel(c) ==
  \E s \in active :
    /\ Move(c, "idle", "close")
    /\ subject' = [subject EXCEPT ![c] = s]
    /\ active' = active \ {s}
    /\ UNCHANGED <<slotVars, mu, goVars, receiverVars, open, starting, found, started, stopped>>

(* Nothing is left to do when the owner was destroyed meanwhile. *)
StartFails(c) ==
  /\ Move(c, "failed", IF subject[c] \in active THEN "close" ELSE "idle")
  /\ starting' = [starting EXCEPT ![c] = FALSE]
  /\ active' = active \ {subject[c]}
  /\ UNCHANGED <<slotVars, mu, goVars, receiverVars, open, subject, found, started, stopped>>

CloseCallbacks(c) ==
  /\ Move(c, "close", "cancel")
  /\ open' = open \ {subject[c]}
  /\ UNCHANGED <<slotVars, mu, goVars, receiverVars, active,
                 subject, starting, found, started, stopped>>

(* <Method>CancelCallback called directly. *)
CancelCallback(c) ==
  /\ Move(c, "idle", "cancel")
  /\ subject' = [subject EXCEPT ![c] = Null]
  /\ UNCHANGED <<slotVars, mu, goVars, receiverVars, kotlinVars, starting, found, started, stopped>>

-----------------------------------------------------------------------------
(***************************************************************************)
(* The receive loop of a stream and the trampolines it calls.              *)
(***************************************************************************)
Step(s, from, to) == receiver[s] = from /\ receiver' = [receiver EXCEPT ![s] = to]

(* A response arrived and BeginCallback let it through. *)
Deliver(s) ==
  /\ s \notin canceled
  /\ Step(s, "recv", "lock")
  /\ UNCHANGED <<slotVars, mu, goVars, calling, kotlinVars, callerVars>>

(* on...Recv without an environment, a listener or room for the payload. *)
DropResponse(s) ==
  /\ Step(s, "lock", "recv")
  /\ UNCHANGED <<slotVars, mu, goVars, calling, kotlinVars, callerVars>>

(* on...Recv: Mu is held across the Java call. *)
EnterRecv(s) ==
  /\ mu = Null /\ listener # Null
  /\ Step(s, "lock", "onRecv")
  /\ mu' = s
  /\ calling' = [calling EXCEPT ![s] = listener]
  /\ UNCHANGED <<slotVars, goVars, kotlinVars, callerVars>>

CallUserRecv(s) ==
  /\ calling[s] \in open
  /\ Step(s, "onRecv", "userRecv")
  /\ UNCHANGED <<slotVars, mu, goVars, calling, kotlinVars, callerVars>>

LeaveRecv(s) ==
  /\ \/ Step(s, "userRecv", "recv")
     \/ Step(s, "onRecv", "recv") /\ calling[s] \notin open
  /\ mu' = Null
  /\ calling' = [calling EXCEPT ![s] = Null]
  /\ UNCHANGED <<slotVars, goVars, kotlinVars, callerVars>>

(* The source ended, by itself or because the session was canceled. *)
EndStream(s) ==
  /\ Step(s, "recv", "ending")
  /\ UNCHANGED <<slotVars, mu, goVars, calling, kotlinVars, callerVars>>

(* on...Done copies the listener under Mu and calls it without. *)
CopyListenerAndClear(s) ==
  /\ mu = Null
  /\ Step(s, "ending", IF listener = Null THEN "clear" ELSE "onDone")
  /\ calling' = [calling EXCEPT ![s] = listener]
  /\ ClearSlot
  /\ UNCHANGED <<mu, goVars, kotlinVars, callerVars>>
CopyListener(s) ==
  /\ mu = Null
  /\ Step(s, "ending", IF listener = Null THEN "clear" ELSE "onDone")
  /\ calling' = [calling EXCEPT ![s] = listener]
  /\ UNCHANGED <<slotVars, mu, goVars, kotlinVars, callerVars>>

(* The thread cannot be attached to the virtual machine: nothing is told   *)
(* to the listener and the slot keeps it.                                  *)
DoneDetached(s) ==
  /\ Step(s, "ending", "lost")
  /\ UNCHANGED <<slotVars, mu, goVars, calling, kotlinVars, callerVars>>

(* The Kotlin onDone: whoever closes callbackOpen, it or cancel(), decides *)
(* whether the app hears of the end.                                       *)
CallUserDone(s) ==
  /\ calling[s] \in open
  /\ Step(s, "onDone", "userDone")
  /\ open' = open \ {calling[s]} /\ active' = active \ {calling[s]}
  /\ UNCHANGED <<slotVars, mu, goVars, calling, callerVars>>

LeaveDone(s) ==
  /\ \/ Step(s, "userDone", "clear")
     \/ Step(s, "onDone", "clear") /\ calling[s] \notin open
  /\ calling' = [calling EXCEPT ![s] = Null]
  /\ UNCHANGED <<slotVars, mu, goVars, kotlinVars, callerVars>>

ClearDone(s) ==
  /\ mu = Null
  /\ Step(s, "clear", "exited")
  /\ ClearSlot
  /\ UNCHANGED <<mu, goVars, calling, kotlinVars, callerVars>>

-----------------------------------------------------------------------------
CancelStep(c) ==
  ClearUnstarted(c) \/ CCancel(c) \/ CCancelUnknown(c) \/ CCancelReturns(c)

StartStep(c) ==
  \/ StartCallback(c) \/ PrepareFails(c) \/ StoreListener(c) \/ CStart(c)
  \/ CStartFails(c) \/ ClearFailed(c) \/ StoreHandle(c) \/ StartFails(c)

(* What the receive loop does by itself, once it is inside a trampoline or *)
(* its stream was canceled.                                                *)
ReceiverStep(s) ==
  \/ DropResponse(s) \/ EnterRecv(s) \/ CallUserRecv(s) \/ LeaveRecv(s)
  \/ CopyListener(s) \/ DoneDetached(s) \/ CallUserDone(s) \/ LeaveDone(s) \/ ClearDone(s)

JNINext ==
  \/ \E c \in Callers :
       \/ ReadHandle(c) \/ CancelStep(c) \/ StartStep(c)
       \/ StreamCancel(c) \/ CloseCallbacks(c) \/ CancelCallback(c)
  \/ \E s \in Streams : Deliver(s) \/ EndStream(s) \/ ReceiverStep(s)

JNISpec == JNIInit /\ [][JNINext]_jniVars

(***************************************************************************)
(* Threads that can run do, the app's listener returns, a canceled source  *)
(* ends, and the mutex does not starve the one thread that waits for it    *)
(* while a busy stream takes and releases it.                              *)
(***************************************************************************)
FairSpec ==
  /\ JNISpec
  /\ \A c \in Callers : SF_jniVars(ReadHandle(c)) /\ SF_jniVars(CancelStep(c))
  /\ \A s \in Streams : WF_jniVars(ReceiverStep(s)) /\ WF_jniVars(s \in canceled /\ EndStream(s))

-----------------------------------------------------------------------------
(* A receive loop only calls the listener of its own stream, although the  *)
(* slot it finds it in has been given to other streams before and after.   *)
OwnListener == \A s \in Streams : calling[s] \in {Null, s}

(* The listener a trampoline is calling has a global reference that nobody *)
(* deletes during the call, although onDone calls it without the mutex.    *)
ListenerAlive == \A s \in Streams : calling[s] # Null => calling[s] \in refs

(* A global reference goes with its stream: between the calls of the app   *)
(* none is left of a stream that is over, unless the virtual machine could *)
(* not be reached when it ended.                                           *)
NoLeakedReference ==
  (\A c \in Callers : caller[c] = "idle") =>
    \A s \in refs : receiver[s] \notin {"none", "exited"}

(* When cancel() of a stream returns, or its owner has been destroyed, the *)
(* native stream is over and its listener is not being called.             *)
CanceledIsOver == \A s \in stopped : receiver[s] \in {"none", "exited", "lost"}

(* CancelCallback returns, and StartCallback gets past the stream it       *)
(* replaces, although both wait for trampolines that take the mutex.       *)
CancelReturns ==
  \A c \in Callers : caller[c] = "cancel" ~> caller[c] \in {"install", "idle"}

=============================================================================
