----------------------------- MODULE InputRelease -----------------------------
(***************************************************************************)
(* Inputs that C hands over with ownership: the wrappers RpcBytes,         *)
(* RpcString, RpcRepeat and RpcBoolRepeat, the table of release states     *)
(* keyed by pointer, and the C free callback, which may be registered      *)
(* late.  Goroutines release wrappers, the collector runs the cleanups of  *)
(* dropped ones, and a registration retries the releases that failed.      *)
(*                                                                         *)
(* A release state is named after the input that created it.               *)
(***************************************************************************)
EXTENDS Naturals, FiniteSets

CONSTANTS
  Threads,        \* goroutines
  Pointers,       \* addresses the C allocator hands out, and again once freed
  MaxInputs,      \* bound on the inputs C hands over
  MaxReleases,    \* how often the user calls Release on one wrapper
  EarlyCallback   \* is the free callback registered before the first input?

ASSUME ReleaseAssumption ==
  /\ MaxInputs \in Nat /\ MaxReleases \in Nat
  /\ EarlyCallback \in BOOLEAN

Inputs == 1 .. MaxInputs
None == 0

VARIABLES
  registered,                \* the free callback is registered
  memory,                    \* of every address: the input that owns the block
  entries,                   \* rpcInputReleaseStates: address to release state
  released, retryPending,    \* of every release state
  lock,                      \* of every release state: is its mutex held?
  passed,                    \* inputs handed over so far
  ptr,                       \* of every input: its address
  wrapper,                   \* of every input: where its wrapper is
  releases,                  \* of every input: Release calls made
  joined, begun,             \* history: the inputs that found a state at their
                             \* address, and how often each was to be released
  pc, job, state, range,     \* of every thread: its call, the input it is about,
                             \* the state it loaded, what a retry has to visit
  result                     \* what its last Release returned

tableVars == <<registered, memory, entries, released, retryPending, lock>>
inputVars == <<passed, ptr, wrapper, releases>>
historyVars == <<joined, begun>>
threadVars == <<pc, job, state, range, result>>
vars == <<tableVars, inputVars, historyVars, threadVars>>

Kinds == {"release", "cleanup", "retry"}

(* The mutex of a release state is held by the one thread between Lock and *)
(* the deferred Unlock.                                                    *)
Holds(t, i) == state[t] = i /\ pc[t] \in {"free", "mark", "recheck", "forget"}

TypeOK ==
  /\ registered \in BOOLEAN
  /\ memory \in [Pointers -> 0 .. passed]
  /\ DOMAIN entries \subseteq Pointers /\ \A p \in DOMAIN entries : entries[p] \in 1 .. passed
  /\ released \in [Inputs -> BOOLEAN] /\ retryPending \in [Inputs -> BOOLEAN]
  /\ lock \in [Inputs -> BOOLEAN]
  /\ passed \in 0 .. MaxInputs
  /\ ptr \in [1 .. passed -> Pointers]
  /\ wrapper \in [Inputs -> {"none", "passed", "live", "stopped", "dropped", "collected"}]
  /\ releases \in [Inputs -> 0 .. MaxReleases]
  /\ joined \subseteq Inputs /\ begun \in [Inputs -> Nat]
  /\ pc \in [Threads -> {"idle", "range", "load", "lock", "free", "mark", "recheck", "forget", "stop"}]
  /\ job \in [Threads -> [kind : Kinds, input : 0 .. passed]]
  /\ state \in [Threads -> 0 .. passed]
  /\ range \in [Threads -> SUBSET Pointers]
  /\ result \in [Threads -> {"none", "ok", "error"}]

Init ==
  /\ registered = EarlyCallback
  /\ memory = [p \in Pointers |-> None]
  /\ entries = [p \in {} |-> None]
  /\ released = [i \in Inputs |-> FALSE] /\ retryPending = [i \in Inputs |-> FALSE]
  /\ lock = [i \in Inputs |-> FALSE]
  /\ passed = 0
  /\ ptr = [i \in {} |-> None]
  /\ wrapper = [i \in Inputs |-> "none"]
  /\ releases = [i \in Inputs |-> 0]
  /\ joined = {} /\ begun = [i \in Inputs |-> 0]
  /\ pc = [t \in Threads |-> "idle"]
  /\ job = [t \in Threads |-> [kind |-> "release", input |-> None]]
  /\ state = [t \in Threads |-> None]
  /\ range = [t \in Threads |-> {}]
  /\ result = [t \in Threads |-> "none"]

-----------------------------------------------------------------------------
(***************************************************************************)
(* C allocates a block and hands it over; the constructor of the wrapper   *)
(* registers a release state and a cleanup for it.                         *)
(***************************************************************************)
Free(p) == memory[p] = None

Pass ==
  /\ passed < MaxInputs
  /\ passed' = passed + 1
  /\ \E p \in Pointers :
       /\ Free(p)
       /\ memory' = [memory EXCEPT ![p] = passed + 1]
       /\ ptr' = [i \in 1 .. passed + 1 |-> IF i = passed + 1 THEN p ELSE ptr[i]]
  /\ wrapper' = [wrapper EXCEPT ![passed + 1] = "passed"]
  /\ UNCHANGED <<registered, entries, released, retryPending, lock, releases, historyVars, threadVars>>

(* LoadOrStore: a state that is there already is kept. *)
StoredOnceRegistered(i) ==
  IF ~registered \/ ptr[i] \in DOMAIN entries
    THEN entries
    ELSE [p \in DOMAIN entries \cup {ptr[i]} |-> IF p = ptr[i] THEN i ELSE entries[p]]
Stored(i) ==
  IF ptr[i] \in DOMAIN entries
    THEN entries
    ELSE [p \in DOMAIN entries \cup {ptr[i]} |-> IF p = ptr[i] THEN i ELSE entries[p]]

AttachCleanup(i) ==
  /\ wrapper[i] = "passed"
  /\ entries' = Stored(i)
  /\ wrapper' = [wrapper EXCEPT ![i] = "live"]
  /\ joined' = joined \cup {j \in {i} : ptr[i] \in DOMAIN entries}
  /\ UNCHANGED <<registered, memory, released, retryPending, lock, passed, ptr, releases, begun, threadVars>>

(* The last reference goes away; a call on the wrapper is one.  A cleanup  *)
(* that was not stopped will run.                                          *)
Drop(i) ==
  /\ wrapper[i] \in {"live", "stopped"}
  /\ \A t \in Threads : pc[t] # "idle" /\ job[t].kind = "release" => job[t].input # i
  /\ wrapper' = [wrapper EXCEPT ![i] = IF wrapper[i] = "live" THEN "dropped" ELSE "collected"]
  /\ UNCHANGED <<tableVars, passed, ptr, releases, historyVars, threadVars>>

-----------------------------------------------------------------------------
(***************************************************************************)
(* releaseRpcInput, and its three callers.                                 *)
(***************************************************************************)
Begin(t, kind, i) ==
  /\ pc' = [pc EXCEPT ![t] = "load"]
  /\ job' = [job EXCEPT ![t] = [kind |-> kind, input |-> i]]
  /\ begun' = [begun EXCEPT ![i] = @ + 1]

Release(t, i) ==
  /\ pc[t] = "idle"
  /\ wrapper[i] \in {"live", "stopped"}
  /\ releases[i] < MaxReleases
  /\ releases' = [releases EXCEPT ![i] = @ + 1]
  /\ Begin(t, "release", i)
  /\ UNCHANGED <<tableVars, passed, ptr, wrapper, joined, state, range, result>>

Cleanup(t, i) ==
  /\ pc[t] = "idle"
  /\ wrapper[i] = "dropped"
  /\ wrapper' = [wrapper EXCEPT ![i] = "collected"]
  /\ Begin(t, "cleanup", i)
  /\ UNCHANGED <<tableVars, passed, ptr, releases, joined, state, range, result>>

RegisterFreeCallback(t) ==
  /\ pc[t] = "idle"
  /\ ~registered
  /\ registered' = TRUE
  /\ range' = [range EXCEPT ![t] = DOMAIN entries]
  /\ pc' = [pc EXCEPT ![t] = "range"]
  /\ UNCHANGED <<memory, entries, released, retryPending, lock, inputVars, historyVars, job, state, result>>

(* retryPendingRpcInputs visits the addresses one by one, in any order. *)
Retry(t, p) ==
  /\ pc[t] = "range" /\ p \in range[t]
  /\ range' = [range EXCEPT ![t] = @ \ {p}]
  /\ IF p \in DOMAIN entries /\ retryPending[entries[p]]
       THEN Begin(t, "retry", entries[p])
       ELSE UNCHANGED <<pc, job, begun>>
  /\ UNCHANGED <<tableVars, inputVars, joined, state, result>>

RetryEnds(t) ==
  /\ pc[t] = "range" /\ range[t] = {}
  /\ pc' = [pc EXCEPT ![t] = "idle"]
  /\ UNCHANGED <<tableVars, inputVars, historyVars, job, state, range, result>>

(* releaseRpcInput returns r to its caller; a Release that succeeded goes  *)
(* on to stop the wrapper's cleanup.                                       *)
Return(t, r) ==
  IF job[t].kind = "release"
    THEN /\ pc' = [pc EXCEPT ![t] = IF r = "ok" THEN "stop" ELSE "idle"]
         /\ result' = [result EXCEPT ![t] = r]
    ELSE /\ pc' = [pc EXCEPT ![t] = IF job[t].kind = "retry" THEN "range" ELSE "idle"]
         /\ UNCHANGED result

Address(t) == ptr[job[t].input]

(* Nothing to do for an address without a state, or with a released one.   *)
Load(t) ==
  /\ pc[t] = "load"
  /\ IF Address(t) \notin DOMAIN entries \/ released[entries[Address(t)]]
       THEN Return(t, "ok") /\ UNCHANGED state
       ELSE /\ pc' = [pc EXCEPT ![t] = "lock"]
            /\ state' = [state EXCEPT ![t] = entries[Address(t)]]
            /\ UNCHANGED result
  /\ UNCHANGED <<tableVars, inputVars, historyVars, job, range>>

(* state.mu.Lock(), and the second look at released. *)
LockWithoutLooking(t) ==
  /\ pc[t] = "lock"
  /\ ~lock[state[t]]
  /\ pc' = [pc EXCEPT ![t] = "free"]
  /\ lock' = [lock EXCEPT ![state[t]] = TRUE]
  /\ UNCHANGED <<registered, memory, entries, released, retryPending, inputVars, historyVars, job, state, range, result>>
Lock(t) ==
  /\ pc[t] = "lock"
  /\ ~lock[state[t]]
  /\ IF released[state[t]]
       THEN Return(t, "ok") /\ UNCHANGED lock
       ELSE /\ pc' = [pc EXCEPT ![t] = "free"]
            /\ lock' = [lock EXCEPT ![state[t]] = TRUE]
            /\ UNCHANGED result
  /\ UNCHANGED <<registered, memory, entries, released, retryPending, inputVars, historyVars, job, state, range>>

(* ReleaseC calls the callback, if there is one. *)
ReleaseCIgnoringNone(t) ==
  /\ pc[t] = "free"
  /\ memory' = IF registered THEN [memory EXCEPT ![Address(t)] = None] ELSE memory
  /\ pc' = [pc EXCEPT ![t] = "forget"]
  /\ UNCHANGED <<registered, entries, released, retryPending, lock, inputVars, historyVars, job, state, range, result>>
ReleaseC(t) ==
  /\ pc[t] = "free"
  /\ IF registered
       THEN /\ memory' = [memory EXCEPT ![Address(t)] = None]
            /\ pc' = [pc EXCEPT ![t] = "forget"]
       ELSE /\ pc' = [pc EXCEPT ![t] = "mark"]
            /\ UNCHANGED memory
  /\ UNCHANGED <<registered, entries, released, retryPending, lock, inputVars, historyVars, job, state, range, result>>

MarkRetry(t) ==
  /\ pc[t] = "mark"
  /\ retryPending' = [retryPending EXCEPT ![state[t]] = TRUE]
  /\ pc' = [pc EXCEPT ![t] = "recheck"]
  /\ UNCHANGED <<registered, memory, entries, released, lock, inputVars, historyVars, job, state, range, result>>

(* The callback may have been registered since ReleaseC looked. *)
RecheckNothing(t) ==
  /\ pc[t] = "recheck"
  /\ Return(t, "error")
  /\ lock' = [lock EXCEPT ![state[t]] = FALSE]
  /\ UNCHANGED <<registered, memory, entries, released, retryPending, inputVars, historyVars, job, state, range>>
Recheck(t) ==
  /\ pc[t] = "recheck"
  /\ IF registered
       THEN pc' = [pc EXCEPT ![t] = "free"] /\ UNCHANGED <<lock, result>>
       ELSE Return(t, "error") /\ lock' = [lock EXCEPT ![state[t]] = FALSE]
  /\ UNCHANGED <<registered, memory, entries, released, retryPending, inputVars, historyVars, job, state, range>>

(* The state is marked, deleted by its address, and unlocked. *)
Forget(t) ==
  /\ pc[t] = "forget"
  /\ retryPending' = [retryPending EXCEPT ![state[t]] = FALSE]
  /\ released' = [released EXCEPT ![state[t]] = TRUE]
  /\ entries' = [p \in DOMAIN entries \ {Address(t)} |-> entries[p]]
  /\ lock' = [lock EXCEPT ![state[t]] = FALSE]
  /\ Return(t, "ok")
  /\ UNCHANGED <<registered, memory, inputVars, historyVars, job, state, range>>

StopCleanup(t) ==
  /\ pc[t] = "stop"
  /\ wrapper' = [wrapper EXCEPT ![job[t].input] = "stopped"]
  /\ pc' = [pc EXCEPT ![t] = "idle"]
  /\ UNCHANGED <<tableVars, passed, ptr, releases, historyVars, job, state, range, result>>

ThreadStep(t) ==
  \/ (\E p \in range[t] : Retry(t, p)) \/ RetryEnds(t)
  \/ Load(t) \/ Lock(t) \/ ReleaseC(t) \/ MarkRetry(t) \/ Recheck(t) \/ Forget(t)
  \/ StopCleanup(t)

Next ==
  \/ Pass
  \/ \E i \in Inputs : AttachCleanup(i) \/ Drop(i)
  \/ \E t \in Threads, i \in Inputs : Release(t, i) \/ Cleanup(t, i)
  \/ \E t \in Threads : RegisterFreeCallback(t) \/ ThreadStep(t)

Spec == Init /\ [][Next]_vars

(* Goroutines run, and the collector's cleanups too; nobody has to call    *)
(* Release or to register a callback.                                      *)
FairSpec ==
  /\ Spec
  /\ \A t \in Threads : WF_vars(ThreadStep(t)) /\ WF_vars(\E i \in Inputs : Cleanup(t, i))

-----------------------------------------------------------------------------
(* The callback is about to be called: for a block that is allocated, and  *)
(* as long as no input was to be released twice, for the block of the      *)
(* input whose release it is.  A repeated release goes by an address that  *)
(* may have a new owner.                                                   *)
Once == \A i \in Inputs : begun[i] <= 1
FreesItsOwn ==
  \A t \in Threads :
    pc[t] = "free" /\ registered =>
      /\ memory[Address(t)] # None
      /\ Once => memory[Address(t)] = job[t].input

(* A Release that returned nil has freed the input ("Release               *)
(* deterministically releases owned input memory").                        *)
Freed(i) == i <= passed /\ memory[ptr[i]] # i
Succeeded(t) ==
  pc[t] = "stop" \/ (pc[t] = "idle" /\ job[t].kind = "release" /\ result[t] = "ok")
ReleaseFrees == \A t \in Threads : Succeeded(t) => Freed(job[t].input)

(* It has, if the input did not join the state of another one: also when   *)
(* a repeated release or a retry ran into it.                              *)
OwnStateFrees ==
  \A t \in Threads : Succeeded(t) /\ job[t].input \notin joined => Freed(job[t].input)

(* No input with a state of its own is forgotten: a failed release that a  *)
(* callback could make up for is in a thread's hands or still ahead of the *)
(* registration's retry, and an input whose wrapper the collector took was *)
(* freed, is being released, or waits for a callback.                      *)
InHand(i) ==
  \E t \in Threads :
    job[t].input = i /\ pc[t] \in {"load", "lock", "free", "mark", "recheck", "forget"}
RetryAhead(i) ==
  \E t \in Threads :
    ptr[i] \in range[t] /\ (pc[t] = "range" \/ (pc[t] # "idle" /\ job[t].kind = "retry"))
NoInputForgotten ==
  \A i \in 1 .. passed : ~Freed(i) =>
    /\ registered /\ retryPending[i] => InHand(i) \/ RetryAhead(i)
    /\ wrapper[i] = "collected" /\ i \notin joined => InHand(i) \/ retryPending[i]

(* A release that failed for want of a callback is made up for, by the     *)
(* releasing goroutine or by the registration, whichever looks last.       *)
FailedIsRetried ==
  \A i \in Inputs : registered /\ retryPending[i] ~> Freed(i)

(* A wrapper that was dropped without a successful Release is freed by its *)
(* cleanup, once there is a callback, unless it joined another's state.    *)
DroppedIsFreed ==
  \A i \in Inputs : registered /\ wrapper[i] = "dropped" /\ i \notin joined ~> Freed(i)

=============================================================================
