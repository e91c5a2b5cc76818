# TLA+ models of rpccgo

rpccgo generates, for every proto service, a Go runtime through which Go and C
(cgo, Dart, JNI) clients reach one *registered server* of that service, itself
written in Go, in C, or remote over gRPC or Connect. What the program keeps
between two calls lives in `rpcruntime/`; what a call does with it is mostly
generated text, produced by `internal/generator/`. The models treat the text a
renderer emits as the code it stands for: an action that models a generated
export is mapped to the lines of the renderer that write it.

This directory holds the models, their TLC configurations and machine-checked
proofs. `PROJECT.json` maps every definition to the lines it models.

- [1. The system](#1-the-system)
- [2. The modules](#2-the-modules)
- [3. What is checked](#3-what-is-checked)
- [4. What is proved](#4-what-is-proved)
- [5. Where the code and its words disagree](#5-where-the-code-and-its-words-disagree)
- [6. Not modelled](#6-not-modelled)
- [7. Running it](#7-running-it)

## 1. The system

### Components

| Component | State it keeps | Operations |
|---|---|---|
| Stream session (`rpcruntime/stream_registry_session.go`) | per stream: `canceled`, `done`, `doneCallbackStarted`, `activeCallbacks`, a wakeup channel of capacity 1 | `BeginCallback`, `EndCallback`, `BeginDoneCallback`, `EndDoneCallback`, `MarkCanceled`, `MarkCallbackReceiveClosed`, `WaitDone` |
| Stream registry (`stream_registry.go`) | map of handle to session, next handle, a mutex | `Create`, `Load`, `Take` |
| Stream facade (generated, `render_runtime_stream_facade.go`, `render_runtime_entrypoint.go`) | none; a load, a call and a removal per operation | `Start`, `Send`, `Recv`, `CloseSend`, `Finish`, `Cancel` |
| In-process stream endpoints (`local_stream.go`) | request and response channels, `sendDone`, `finish`, `done`, a context | client: `Send`, `Recv`, `CloseSend`, `Finish`, `Cancel`; server: `Recv`, `Send`, `Complete`; on three shapes |
| Callback receive (generated, `render_message_client_cgo.go`) | a goroutine per stream that receives and calls `onRecv`, `onDone` | the loop, and the exports `Cancel`, `Finish`, `Close` |
| C input ownership (`free.go`, `rpc_type.go`, `rpc_repeat.go`) | the C free callback, a release state per pointer, wrappers and their collector cleanups | constructors, `Release`, cleanup, `RegisterFreeCallback` and its retry |
| Error store (`errors.go`, `release.go`) | id sequence, records with an expiry, timers, pinned texts | `StoreError`, `TakeErrorTextForExport`, `Release` |
| Server registry and registration helpers (`server_registry.go`, `render_runtime_registration.go`) | current server and its kind per service | `Register`, `Load`, `Clear`, the generated helpers |
| cgo server adapters (`render_message_server_cgo.go`, `render_native_server_cgo.go`) | C callbacks per method under a mutex; per stream a reader goroutine | per-method and per-service registration, unary calls, the stream callbacks |
| Transport sessions (`render_runtime_transport_session.go`, `grpc_stream.go`, `connect_stream.go`) | a connection or a pair of in-process endpoints | the same client operations over gRPC and Connect |
| Pinned outputs (`release.go`, `native_release_stack.go`, `message_codec.go`) | pinned Go memory that C reads, keyed by pointer | pin, release, release stack of a failed encode |
| Generator planning and validation (`plan.go`, `streaming_plan.go`, `artifact_plan.go`, `validation.go`, ...) | none: descriptors to a plan | option parsing, streaming plan, artifacts, registration sources, the validation of a plan |
| JNI and Kotlin clients (`render_jni_cpp.go`, `render_jni_kotlin.go`) | per method one callback slot (listener, handle) under a mutex; per Kotlin stream two flags | `StartCallback`, `CancelCallback`, the trampolines `on...Recv` and `on...Done` |
| Dart renderer, headers, names; protoc plugins; examples | none | text |

### How they interact

A C export or a Go entry function of a streaming method reads the server
registry once (`Start`), lets the server side make a pair of endpoints, starts
the handler's goroutine, wraps the client endpoint in a `StreamSession` and
stores it in the registry. From then on the client holds an `int32`. Every later
operation is the facade's *load the session, call its endpoint, perhaps remove
the handle*, three steps that no lock holds together. The endpoint talks to the
handler through channels. If both callbacks were passed to `Start`, a goroutine
owns `Recv` and the client's exports coordinate with it through the session's
atomics. Errors leave as numbers into the error store; inputs arrive as pointers
that the release table owns; outputs leave as pinned memory.

### What is hard

- *Callback receive*: the loop, up to several exports and the handler share four
  atomics and one channel of capacity 1; C may free its callbacks once `Close`
  has returned.
- *Handles*: every facade operation may be overtaken between two of its steps,
  by calls with a handle that is stale or was issued again after a wrap.
- *In-process streams*: selects in which several cases are ready; a Send is
  acknowledged by the handler taking the request, and handler and client may end
  the stream at the same moment from either side.
- *C servers*: a bridge of up to three goroutines around C callbacks that block or
  fail, each of which may be the first to learn that the stream is over.
- *Inputs*: an explicit release, the collector and a retry race for one pointer,
  and the pointer may belong to a new input as soon as it is freed.
- *Errors*: a racing id sequence that wraps, timers that delete by id, and a
  take that can fail half way.
- *Registration*: a C registration loads, copies, fills and registers an adapter in
  steps while others do the same, Go helpers replace or clear it, and a stream's
  start reads the callbacks one after the other.
- *Pinned outputs*: the table is keyed by address, and so is every release; the
  same buffer may be handed out by two calls or by two fields of one.
- *JNI callbacks*: one slot serves all streams of a method one after the other;
  `cancel` waits for trampolines that take the mutex of the slot.

### What makes it correct

- Callbacks never overlap, `onDone` comes once and last, nothing is called after
  a `Close` returned, no `onRecv` after a `Cancel` or `Finish`; a `Cancel` waits
  for `onDone`, unless a `Close` has taken the end over; every response is delivered or
  unpinned; the loop ends, whichever export ends the stream.
- A handle reaches its own stream or none; one of the racing terminal calls wins
  it; it is valid until then and never after, whichever calls fail; a `Cancel` that
  reports no error of the stream leaves it released; a running handler can be
  reached.
- A `Send` that returned nil was received, and one that fails because the handler
  returned was not; an `io.EOF` means every response was;
  after a successful `Finish` or `Cancel` the handler is over; whatever waits
  is ended by a cancellation.
- Every owned input that has a release state of its own is freed by the time its
  `Release` returned nil, and eventually if it is dropped or a release of it failed;
  the callback is only called for a block that is allocated, and for the input's own
  as long as none is released again.
- Live errors have different ids, a record stays until it is taken or expires,
  its text is taken once, and a failed take leaves no pin.
- A C stream that was started is ended before its method returns, once; success
  means that every request reached C and every response the client; the client's
  Finish or Cancel gets through a Recv of C that blocks.
- All callbacks of a C stream come from one registration, no registration is lost,
  and every kind of server that can be registered is one the entry points know.
- What C holds is pinned under the entry of the call that handed it out; a call that
  is over, however it ended, left nothing pinned.
- A JNI receive loop only calls the listener of its own stream, which is alive; a
  stream whose `cancel()` returned is over; no reference is left of it.

`PROJECT.json` lists the hazards, each at the line where it bites.

## 2. The modules

| Module | Models |
|---|---|
| `CallbackDelivery` | abstract: what a callback stream promises to the owner of its callbacks (CONTEXT.md:52 and 147-151) |
| `CallbackReceive` | session, receive loop, in-process source, and the three exports that end a stream; implements `CallbackDelivery` |
| `StreamHandles` | registry, handle numbering, and the facade operations that create, read or remove a handle |
| `HandleProbe` | `allocateLocked` as the loop it is, against the declarative `Allocated` |
| `LocalStream` | both endpoints of an in-process stream, of any shape |
| `InputRelease` | release states, wrappers, cleanups and the late free callback |
| `ErrorTexts` | abstract: what an ErrorID promises to the clients that take the text |
| `ErrorStore` | ids, records, expiry, timers, pinned texts; implements `ErrorTexts` |
| `ServerBridge` | the generated methods that pass an in-process stream on to a server written in C |
| `ServicePlan` | pure: option directives, registration sources, routes, and the operations of a method, as the generator derives them from a service |
| `ServerRegistration` | current server of one such service: Go helpers, C registrations, and the calls that read it; EXTENDS `ServicePlan` |
| `PinnedOutputs` | the table of pins and the three kinds of generated code that hand Go memory to C |
| `JNICallback` | the JNI callback slot of a method, its Kotlin client and its receive loops |
| `MC...` | symmetry, a constraint, and the option comments tried, for TLC |
| `...Proofs` | the theorems about the module they extend; `BoundaryProofs` extends the two that say what C and Java get from a call, `PinnedOutputs` and `JNICallback` |

Conventions. A definition keeps the name of the Go function where it can. A
thread's program counter `pc` (`call`, `loop`) names the operation it is about
to execute. Definitions such as `RecheckNothing` or `DrainNothing` that stand
just above the definition they vary, and that no action uses, are deliberately
wrong variants of it; `PROJECT.json` pairs each with the property it breaks.

### CallbackReceive

One action per atomic operation. The loop (`LoopStep`) goes
`RecvResponse`/`RecvEnd`/`RecvCanceled`, `BeginCallback`, `EnterCallback`,
`CallOnRecv` (or the give-up path `AbandonRecv`, `SignalRejected`, `Reject`),
`EndCallback`, `SignalEnded`, and, when the source ends, through
`BeginDoneCallback`, the compare-and-swap `ClaimDone`, `EnterDone`, `CallOnDone`
and `EndDoneCallback` to `exited`. Each caller runs one export:
`MarkCanceled` and `Drain` on `activeCallbacks`; for a Close first
`MarkDoneStarted`, `MarkDone`, `SignalMarked`; then the facade call and its
source (`FacadeLoad`, `SourceRequest`, `SourceReturn`, `Remove`); a Cancel and
a Finish end in `WaitDone`. `BeginCallback` reads `canceled` and `done` in one
action: both only go from false to true and the second read is the one whose
outcome decides. The result of a Cancel that meets the stream's natural end is
not distinguished, nor is the text of an error. The source is the bidi one of
`LocalStream`, reduced to its response side; a nil response and an encode
failure are one action, `EncodeFailed`.

### StreamHandles

`entries` is the registry's map, `next` its counter, which wraps at `MaxHandle`
and starts again at 1; `Allocated(h)` says which handle the scan finds, and
`HandleProbe` shows that the loop of the code finds it. A facade call is `Call`,
`Load`, the call of the source and `Remove`, with any thread in between. Calls
use the methods of the stream's own shape (`Supports`). A source call may fail at any
time, and the facade then returns without a look at the registry (`SourceFails`): its
context may have a deadline, the handler may have failed, and a server stream of a C
message server, which is started without an endpoint (shape `direct`), reports what
C's callbacks return. For such a stream `HandlerReturn` stands for C's part being over,
on its own or through its Cancel.
Send and CloseSend of the facade only load the session; they change
neither the registry nor a handle and are left out. A handle that has wrapped may be
issued again, and a thread that still holds the old number then means another
stream: no code prevents that, so the properties about handles speak of the states
before it (`Unwrapped`).

### LocalStream

A select is one action per case that may be ready, so every choice of the Go
runtime is a behaviour. A channel of numbered items is two counters; the
per-item `received` channel that acknowledges a request is `item <= received`.
`completed` is the handler's return and the closing of `done`, which the code
does together under the handler's single Complete. The look that bidi and client
streams take at the result of `CloseSend` is the same and is modelled once. On
a bidi stream a Send whose request was queued when the handler returned
successfully returns nil (local_stream.go:374), on a client stream it is an
error; `Unanswered` keeps that difference. `lost` is history: the requests of Sends that
failed because the handler had returned. A Send that fails because the request side was
closed or a context is done says nothing about its request. Buffers are at least 1: the generated
code uses 16 and 1.

### InputRelease

A release state is named after the input that created it, so that a state found
by address can be the wrong one. The mutex of a state is a flag; load of the
state and the look at `released` before the lock are one action, because a
released state never becomes unreleased. The C allocator is any allocator: `Pass` takes
whatever address is free, also one that a release freed a moment ago. `EarlyCallback`
says whether the free callback is registered before the first input. The wrapper of an
input is `live`, `stopped` (released), `dropped` (unreachable) or `collected` (its
cleanup ran). Two variables are history: `joined`, the inputs whose constructor found a
state at their address, and `begun`, how often each input was to be released, by
whomever.

### ErrorStore

Errors are numbered in the order of the compare-and-swaps that gave them their
ids; `MaxErrors` bounds them. Time is relative: `left` and `due` are ticks until an error's record expires
and its timer fires, and `Tick` lets time pass for all. Taking a text holds the
mutex over pin, length check and deletion, as `takePrepared` does, so a failing
take is a path of its own. An assumption of the environment, `NoCatchUp`: fewer
errors than there are ids are stored while one of them is live, which takes about
three seconds and 2^31-1 errors to break. An empty text pins nothing in the
code; texts here are not empty. `TakeErrorText`, the Go variant, is the same take
without the length check.

`ErrorTexts` sees of this a map from ids to errors. An error is *opened* when the
mutex has stored its record, also while the storing thread has yet to start the timer;
it has *expired* once no time is left; its text is *held* if it is pinned and no take is
under way that has yet to check its length. A pin that a failed take left behind would
count as held without a take, which `ErrorTexts` does not allow.

### ServerBridge

`bridge` is the kind of generated method: `client` and `server` are one loop,
`bidiMessage` (render_message_server_cgo.go) is two goroutines and a collector,
`bidiNative` (render_native_server_cgo.go) is a goroutine and the method itself.
Each has a program counter, under the actors `sender`, `reader`, `main`, and a
result. The message adapter's server streams are started without an endpoint
(`direct` in render_runtime_message_server_adapter.go), so `server` is the native
method. `await` and `awaiting` are the two selects of `AwaitCGO...Recv`, and
`RecvReturns` is C's Recv, which runs in a goroutine of its own and need not
return; C's other callbacks are one action each and may fail. `OnceValue` is the
guard of `Cancel` on `cancels`. The endpoint is `LocalStream`'s, seen from the
server, under a client of one thread that closes or finishes between its Sends and
cancels at any time. A server stream's client has no Finish, so `finishRequested`
is only ever set on bidi streams.

### ServicePlan and ServerRegistration

A comment is a sequence of directives and a directive a sequence of tokens; three
tokens are known and any other string stands for the ones that are not.
`RegistrationSources` and `Routes` are computed separately in the code, and so are
`CallbackOperations` (what a C registration must bring) and `BridgeOperations` of the
method's `Shape` (what a stream takes); the module translates each from its own place.
In `ServerRegistration` the registry's operations hold its lock and are one action
each. A C registration is `CGORegister` (takes the mutex of its kind),
`AdapterForRegister` (load and copy), `Register` and `Unlock`. Adapters are numbered
as they are registered and never written afterwards; a callback is known by the number
of the registration that brought it. A call is `LoadServer`, then `Serve`, `Dispatch`
(an unknown kind, or a server that is no C adapter, which this module follows no
further) or `Unimplemented`; a stream takes the rest of its callbacks in `StartSession`. `latest` is
history: what each method should have, as far as anything is promised. A Go helper or
a clear ends all promises.

### PinnedOutputs

A message is a function from fields to addresses, 0 for an empty or scalar value.
`registerPinned` is `Pin` (the Pinner) and `LoadOrStore` or `AlreadyPinned` (the table);
a release is `LoadAndDelete` by address and `Unpin` of whatever entry was there. A
`response` is checked for length before it is staged, a `request` of a native C server
field by field, and a `callback` may be refused by `BeginCallback` after it was staged.

### JNICallback

The slot is `listener` and `handle`; the callbacks' function pointers are set with the
listener. The n-th stream, its listener, its reference and its Go handle are all n.
`mu` is only kept across actions by `on...Recv`, which calls Java under it. What lies
below the C exports is reduced to what `CallbackReceive` shows of them: serial
callbacks, `onDone` once and last, a `Cancel` that returns after it. `Callers` are
app threads, and `caller` is where each of them is; the destruction of an owner is
`StreamCancel`. The definitions that every module has are called `JNIInit`, `JNINext`,
`JNISpec` here, so that one module of proofs can extend this one beside another.
`stopped` is history: the streams whose `cancel()` returned.

## 3. What is checked

| Run | Bounds | Shows |
|---|---|---|
| `callback_two_callers` | 2 threads with any of the 3 exports, 2 responses, fairness | `CloseSilences`, `CancelWaitsForDone`, `CleanDone`, `NoPinnedResponseLeft`, `SoleCallReturns`, `LoopExits`, and `DeliverySpec`: the atomics implement `CallbackDelivery` |
| `callback_concurrent_cancels` | 2 threads, Cancel only, 1 response | **violated**: `CallsReturn` |
| `handles_two_threads` | 2 threads over 2 streams of any shape whose sources may fail, then one thread over 4 server streams; 3 handles, the largest handle is the largest integer | `HandleNamesItsStream`, `OneWinner`, `HeldUntilWon`, `CancelReleases`, `ProbeAgrees`, `FreeOrFull` |
| `local_streams` | 2 threads, one with a deadline and receiving on, 3 shapes, buffers of 1, 3 requests, 2 responses, fairness | `SendTellsTruth`, `ResponsesComplete`, `TerminalMeansOver`, `CallsReturn`, `CancelEndsAll` |
| `inputs_released_once` | 2 goroutines, 2 inputs, each released up to twice, a late callback, 2 addresses that are handed out again, fairness | `FreesItsOwn`, `OwnStateFrees`, `FailedIsRetried`, `DroppedIsFreed` |
| `inputs_stale_entry` | the same, one release each, callback registered early | **violated**: `ReleaseFrees` |
| `server_bridge` | 4 kinds of bridge, 2 requests, 2 responses, fairness | `EndedOnReturn`, `SuccessIsComplete`, `NothingAfterEnd`, `EndInterrupts`, `SendFailureEnds` |
| `errors_taken_once` | 2 threads, 4 errors, 2 ids, fairness | `LiveIdsDiffer`, `Reclaimed`, and `TextsSpec`: ids, records and timers implement `ErrorTexts` |
| `server_registration` | 2 threads, 8 option comments, a unary and a client stream method, 2 C registrations, any number of Go ones | `OneRegistrationPerStream`, `NoLostUpdate`, `RoutesCover` |
| `pinned_outputs` | 2 calls one after the other without end, 2 addresses, messages of 3 fields | `HeldIsPinned`, `NothingLeftPinned` |
| `jni_callback_slot` | 1 app thread, 3 streams, fairness | `OwnListener`, `ListenerAlive`, `NoLeakedReference`, `CanceledIsOver`, `CancelReturns` |
| `jni_destroyed_during_start` | 2 app threads, 1 stream | **violated**: `CanceledIsOver` |

No run checks a type invariant: each is proved, for any value of the constants, as the
first part of the inductive invariant of its module (section 4).

**Why the bounds are enough.** Two callers are what every race of the session
needs: the loop is a third process, and two waiters already exhaust the one
token of `stateChanged`. Two responses let one be delivered, one rejected, and a
delivery race the end. Two streams and three handles show every stale use
that does not depend on a wrap; the wrap takes a single thread and four streams, and
`Bounded` allows these two regions of the state space, in the second of which the next
handle is computed at the integer limit and the map fills up. With
buffers of 1, three requests are one taken, one queued and one blocked, and two
responses fill and block the other direction, so the mutual wait of a client and a
handler that both send is reached. Two ids for four errors make the sequence wrap
twice under compare-and-swaps that fail. Two requests and two responses let each
side of a bridge succeed once and then fail, end, or be stopped. Two C registrations
are the two that overwrite each other, or the one a stream's start has begun with and
the one that replaces it; methods are independent of each other except for the
difference between a registration of one and of all, for which two are enough. Three
fields over two addresses let a message hold two buffers and repeat one, so that a
conflict comes from its own message or from the other call's. One app thread and three
streams give the slot to a stream before and after another; two app threads break
`CanceledIsOver` and have the run that says so. `CHECK_DEADLOCK FALSE` is set because
clients may stop calling at any time and every bounded behaviour ends; the calls of
`PinnedOutputs` never stop, and its run checks deadlock.

**Fairness.** Every goroutine inside the runtime's code is weakly fair: the Go
scheduler is preemptive. No client has to begin a call. Handlers and callbacks are
user code and are trusted with little: a callback returns; a handler that has been
told that its requests are over, that its stream is canceled or that a
finish was requested returns rather than receiving or sending for ever
(`HandlerObeys`, strong fairness because each receive or send disables
the return for a moment). `Receivers` are client threads that go on receiving on a
bidi stream, without which a Send may wait for ever by design. In `InputRelease`
the collector's cleanups run eventually, which is what `runtime.AddCleanup`
promises for a program that goes on collecting. In `ServerBridge` the goroutines of
the method are fair; C's Recv and the client are not. In `ErrorStore` time passes and
timers fire. In `JNICallback` the listener returns, a canceled source ends
(`LoopExits`), and the steps of a cancel are strongly fair, because a busy stream takes
and gives back the mutex of the slot while the cancel waits for it; a pthread mutex
does not starve its one waiter for ever.

## 4. What is proved

TLAPS checks these for every value of the constants: any number of threads,
responses, streams, handles, buffers, inputs, errors, methods, fields. The type
invariant of a module is the first part of its inductive invariant, and the
properties follow from that. The only assumptions besides the column below are the named
ASSUMEs of the modules, which give the constants their types.

| Module | Theorems | Assuming |
|---|---|---|
| `CallbackReceiveProofs` | `TypeCorrect`, `CloseSilencesHolds`, `CancelStopsRecvHolds`, `CancelWaitsForDoneHolds`, `NoPinnedResponseLeftHolds`, `CleanDoneHolds`, `DeliveryRefinement` | |
| | `NoLostWakeupHolds` | one caller (`SoleCaller`) |
| `StreamHandlesProofs` | `HandleTypesHold`, `FreeOrFullHolds`, `ProbeAgreesHolds` | |
| | `HandleNamesItsStreamHolds`, `OneWinnerHolds`, `HeldUntilWonHolds`, `CancelReleasesHolds`, `NoOrphanHolds` | (the properties themselves are guarded by `Unwrapped`) |
| `LocalStreamProofs` | `StreamTypeCorrect`, `SendTellsTruthHolds`, `ResponsesCompleteHolds`, `TerminalMeansOverHolds`, `EndWakesHandlerHolds` | |
| `InputReleaseProofs` | `TypesHold`, `FreesItsOwnHolds`, `OwnStateFreesHolds`, `NoInputForgottenHolds` | |
| `ServerRegistrationProofs` | `OneRegistrationPerStreamHolds`, `NoLostUpdateHolds`, `RoutesCoverHolds` | |
| `ServerBridgeProofs` | `EndedOnReturnHolds`, `SuccessIsCompleteHolds`, `NothingAfterEndHolds`, `NobodyStuckHolds` | |
| `ErrorStoreProofs` | `LiveIdsDifferHolds`, `KeptUntilExpiryHolds`, `NoRecordForgotten`, `TextsRefinement` | `NoCatchUp`, a guard of the model |
| `BoundaryProofs` | pins: `HeldIsPinnedHolds`, `NothingLeftPinnedHolds` | |
| | JNI: `JNITypesHold`, `RecvsExclude`, `WaitersAreAnswered` | |
| | JNI: `OwnListenerHolds`, `ListenerAliveHolds`, `NoLeakedReferenceHolds`, `CanceledIsOverHolds` | at most one app thread (`OneApp`) |

The strengthenings, and why each is needed:

- *CallbackReceive.* `CloseSilences` is not inductive: that no callback
  starts once the drain is over depends on the loop being *counted* before it
  looks at `canceled` a second time. The invariant ties `activeCallbacks` to the
  loop's position (1 between its add and its subtract, 0 elsewhere), says
  that a caller past its mark has set its flags, and that a
  caller past its drain finds the loop either not counted or bound to fail its
  second look. The refinement uses the same invariant; each loop step is a step of
  `CallbackDelivery` or a stutter, and passing the drain is `Stop` or `Close`. For
  `CancelWaitsForDone` it adds that `done` was set by an `onDone` that returned or by a
  Close (`OnDoneOver`); if by a Close, `CloseSilences` says that it has not got past its
  drain while the `onDone` runs.
- *StreamHandles.* Handles below `next` are the ones issued, `handleOf` is
  injective on them, and an entry names the stream its handle was issued for.
  A thread at its removal still holds the handle of the stream it
  loaded; a handle taken stays out. That is only so without a wrap, so the invariant
  is `Unwrapped => HInv`. The numbering itself is sound also beyond the wrap, where
  handles are issued again: `FreeOrFull`, a counting argument (`Full` means as many
  entries as handles), and `ProbeAgrees`. The latter says that the loop and the
  declarative `Allocated` agree for any `MaxHandle` and any `next`. It needs the closed
  form of the n-th probe, which goes once around the handles, and the first unused one
  of them; both are inductions, done as arguments by least counterexample over a set of
  numbers, because the induction theorems of the library cannot be instantiated.
- *LocalStream.* The counters bound each other (`item[t]` was offered, what the
  handler accepted was put into the channel), `eof` was seen only after `completed`
  with an empty channel, and a terminal call's "ok" implies `completed`. That a
  client that waits for the handler does not keep it from ending (`EndWakesHandler`)
  needs only what the client has asked for by then (`Asked`) and that none of it is
  taken back.
- *InputRelease.* An address says nothing about who lives there, so the invariant speaks
  of the inputs with a state of their own (`Own`). The entry of an address is the state of
  the one input there that is not released yet (`Table`); it outlives its block only until
  the thread that freed the block deletes it (`Blocks`, `Freeing`), and only in between
  does a new input join it. A mutex has one holder, whose state is not released (`Mutex`),
  and a call works on its own input's state unless that input joined another or was freed
  before (`Job`, `Settled`), which no step takes back (`Grows`). While no input is to be
  released twice, the block a thread is about to free is its own input's (`Pristine`):
  that is what the second half of `FreesItsOwn` needs, the first half and `OwnStateFrees`
  do without.
  `NoInputForgotten` needs a second invariant over this one: whoever marks a state for
  a retry looks for a callback once more before giving up the mutex, and the registration
  visits every address that has a state, so one of the two sees the other (`Remembered`).
  It also says that before the registration nothing is freed, and that a wrapper's cleanup
  is only stopped when there is nothing left for it to do (`Marks`).
- *ServerRegistration.* Nobody is between the load and the registration of the same
  kind as another thread, because both would hold one mutex (`MutexHeld`); what a
  registration has copied is therefore still what it must keep (`CopiedIsLatest`), and
  a promise only exists about the kind that is current (`KnownIsCurrent`). For the
  streams, an adapter has callbacks of one registration per method (`AdaptersUniform`),
  and a stream takes exactly the operations that a registration had to bring
  (lemma `BridgeTakesWhatIsGiven`, about the generator's two computations of them).
- *ServerBridge.* `Placed` says where the goroutines of each kind of bridge can be,
  `EndedBy` who has called Finish or Cancel by then; `RequestsPassed` and
  `ResponsesForwarded` relate the counters of endpoint and C, and `Joined` lets the
  native bidi method rely on its sender's result. `NobodyStuck` follows from `Placed`
  once that says what a goroutine has caused by the place it is at: a collector that saw
  a failure has canceled the context of the bridge, and a requested finish came with the
  end of the requests.
- *ErrorStore.* Errors fewer than `MaxId` apart have different ids (`IdsApart`, by
  their distance, so that a wrap needs no case of its own), and a live error is fewer than
  `MaxId` behind the newest (`LiveIsRecent`, from `NoCatchUp`). A timer is never due
  before its record expires (`TimersRun`), so an error that may not be deleted yet
  is live, and a record is only deleted under the id of its own error (`Indexed`).
  The refinement of `ErrorTexts` adds that a record's error is live and was not taken
  (`RecordsLive`, `RecordsUntaken`), and that the pins are those of taken texts and of the
  take under way (`PinnedForTake`, `PinsTaken`): a new record then never hides another one under its
  id, and every take is of a text nobody has. Each action is one abstract step or a
  stutter, a tick an `Expire` of whatever it let run out.
- *PinnedOutputs.* Releases go by address, so the invariant is that the entry found at
  the address of an owned field is the owner's (`OwnsItsEntry`), and the reverse.
- *JNICallback.* With any number of app threads a stream's loop does not start before
  the thread that starts it has passed the C Start (`StartShape`, `FreshStarts`), and the
  mutex belongs to a loop inside `onRecv` (`MuHolder`); that is all `RecvsExclude` and
  `WaitersAreAnswered` need. Whose listener the slot holds is only known while nobody
  else can put one there: with one app thread at most one loop runs (`OneRuns`), its
  stream is the one the slot names (`RunningIsKnown`), it calls its own listener
  (`CallingOwn`), and references are those of running or lost streams
  (`ReferencesBelong`); what a caller has found so far is tied to its place
  (`CallerPlaced`). Two threads do break this (section 5).

Only model-checked: the liveness properties, because the prover has no rules for
fairness. Of several of them the state part is a theorem: that somebody who waits
is owed a step by somebody who can take it. So stand `NoLostWakeup` behind
`SoleCallReturns`, `EndWakesHandler` behind `CallsReturn` and `CancelEndsAll`,
`NoInputForgotten` behind `FailedIsRetried` and `DroppedIsFreed`, `NobodyStuck` behind
`EndInterrupts` and `SendFailureEnds`, `NoRecordForgotten` behind `Reclaimed`, and
`WaitersAreAnswered` behind `CancelReturns`. What TLC adds is that the steps owed are
taken in the end.

Proved, and not checked by a run: `CancelStopsRecv`, `NoLostWakeup`, `NoOrphan`,
`KeptUntilExpiry`, `EndWakesHandler`, `NoInputForgotten`, `NobodyStuck`,
`NoRecordForgotten`, `RecvsExclude` and `WaitersAreAnswered`. For `NobodyStuck`, `CanGo`
spells out when an actor has a step to take, since ENABLED is out of the prover's reach;
on the instance of `server_bridge` it agrees with ENABLED in every reachable state.

## 5. Where the code and its words disagree

Each is a counterexample of a run, quoted in `PROJECT.json` under `findings`.

1. **Two waiters, one token** (`callback_concurrent_cancels`). Two concurrent
   Cancels block in `MarkCanceled`; the last callback to leave sends one
   token; one of them waits for ever. The session's channel has capacity 1 and
   serves three kinds of waiters.
2. **Stale release state** (`inputs_stale_entry`). The pointer is freed before its
   table entry is deleted, so an input at the reused address joins the old state
   and is never freed.
3. **Owner destroyed during a start** (`jni_destroyed_during_start`). Between the C
   Start and the store of its handle a cancel finds no handle, clears the slot and
   reports success; the native stream goes on.

Noticed while modelling, without a run of their own.

*Handles and sessions*
- A Finish or a Cancel whose source fails returns before the handle is removed
  (render_runtime_stream_facade.go:359 and 391), though the generated docs say that
  Finish and Cancel release it. For a Cancel it takes a deadline, or a C message server
  whose server stream was started directly and whose Cancel callback reports an error.
  `CancelReleases` makes that exception; `HeldUntilWon` says that the stream can still
  be reached.
- When such a direct stream is received in callback mode and ends by itself, the loop
  returns without another call of the endpoint (render_message_client_cgo.go:419-427).
- When the registry refuses a handle at Start, the handler already runs and nobody can
  cancel it (render_runtime_entrypoint.go:324).
- A callback stream that ended by itself stays registered until a terminal export is
  called (render_message_client_cgo.go:423).
- A Cancel called from inside a callback waits for itself (CONTEXT.md:52 tells a client
  whose callback fails to call Cancel; `CallbackCallers` of `CallbackReceive` can be set
  to model it).
- A Close that overlaps a Cancel sets `done` and lets the Cancel's `WaitDone` return
  while `onDone` still runs (stream_registry_session.go:136 and 145), though its comment
  says that it waits until `onDone` was delivered. `CancelWaitsForDone` bounds the damage:
  it only happens while that Close is still waiting for the same `onDone`.

*Streams and bridges*
- The server Recv of a bidi stream whose client closes the request side and cancels
  while it waits may report the cancellation rather than `io.EOF` (local_stream.go:478;
  the client stream looks a second time, lines 171 to 177).
- On a bidi stream C may be called with Send, CloseSend or Cancel after its Finish,
  because the goroutines of the bridge do not agree on the end
  (render_message_server_cgo.go:602), and the native bidi method does not notice a
  refused Send while C's Recv blocks (render_native_server_cgo.go:1205): that is why
  `NothingAfterEnd` speaks of bridges with one loop and `SendFailureEnds` of the message
  adapter.
- `SendAndClose` of a gRPC client stream completes the stream while the handler still
  runs (grpc_stream.go:71), so `TerminalMeansOver` is about handlers that complete by
  returning.
- A remote gRPC Finish of a bidi or server stream only cancels the context, and the
  remote Connect Cancel of a client stream first closes the requests and waits for 100 ms
  (render_runtime_transport_session.go:169): its peer may take it for a Finish.

*Inputs and outputs*
- The retry of pending releases (free.go:144), like a second Release of one wrapper
  (free.go:94), looks its state up by address and may find and free a later input's. That
  is why the second half of `FreesItsOwn` speaks of runs in which no input is released
  again; the Release of the later input then still tells the truth (`OwnStateFrees`).
- The native callback loop releases its outputs itself after `onRecv` returned
  (render_native_client_cgo.go:914), while CONTEXT.md:146 asks a bare C callback to do
  so: the second release goes by address and may unpin what another call pinned there
  in between.
- Two calls whose handlers return the same slice, or two fields that share a backing
  array, cannot be handed out at once: the second pin fails with "already pinned".
- A response with a singular field of an unsigned type is refused as unsupported
  (render_native_client_cgo.go:1104) although the staging of the same function
  accepts it.

*Registration*
- A registration helper that fails clears whatever is current, also a server that
  another thread registered meanwhile (server_registry.go:104).
- A C registration that copied the adapter before a Go helper registered or cleared
  brings the copied callbacks back (render_message_server_cgo.go:199; CONTEXT.md:159
  says that it makes a new adapter when the current server is of another kind).
  `NoLostUpdate` therefore promises nothing across a Go helper.

*JNI and Kotlin*
- A `cancel()` inside `onRecv` waits for a mutex that its own thread holds.
- If the virtual machine cannot be reached in `on...Done`, the slot keeps its listener
  and its reference; `NoLeakedReference` makes that exception.
- Two concurrent `StartCallback`s of one method share the slot, and a `cancel()` of a
  stream that is still active after a new `StartCallback` ends the new one: one app
  thread, and streams one after the other, are what `jni_callback_slot` assumes and shows.

## 6. Not modelled

- *Transport sessions* (`render_runtime_transport_session.go`, `grpc_stream.go`,
  `connect_stream.go`). The direct sessions are `LocalStream`'s endpoints around a
  handler. The remote ones pass each call to grpc-go or connect-go under one
  context; what they guarantee is what these libraries and the network do
  after a half-close or a cancel, which is not in the repository.
- *Dart*: its callbacks are run one by one by the isolate's event loop, and its
  streams are thin wrappers of the C exports. *Kotlin and JNI* beyond callback streams
  with an owner: manual streams, the Kotlin server side.
- *The rest of the generator*: artifact paths, names and their collisions, headers,
  comments, the conversion text of each field type. These are strings; what of the
  generator's decisions the running program depends on is in `ServicePlan`.
- *Composition of callback receive and handles*, and of `ServerBridge` with
  `LocalStream`: each is modelled against the other's interface (a handle that is
  `registered`, an endpoint reduced to its counters). Their products are beyond TLC at
  bounds that would show more than the parts do.
- Borrowed inputs, for which every ownership operation is a no-op; a manual `Recv`
  racing `EnableStreamCallbackReceive`, because the handle is not known to the client
  before Start returns; more than one service, because registries are per service.

More than half of the repository's lines are the generated files under `examples/`,
which repeat for each service what the renderers write; of the remaining lines most are
templates and string handling. The map therefore covers the code of the runtime that
changes state and the renderers of the code around it, and a small share of the whole.

What would come next: `LocalStream` as an implementation of the stream that `ServerBridge`
and `CallbackReceive` assume, a Connect peer as a process with delayed messages, and
the Dart callback stream beside the JNI one.

## 7. Running it

    tlc -workers 2 -config LocalStream.cfg LocalStream.tla
    tlapm CallbackReceiveProofs.tla

`PROJECT.json` names the module of each configuration: the one with the same name, or
the one whose name it begins with. The longest run takes about two minutes with two
workers, the longest proof about two. `tlapm` prints a warning about the CASE
expressions of `ServicePlan`, which one of its backends does not support and another
proves.
