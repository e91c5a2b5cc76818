-------------------------- MODULE InputReleaseProofs --------------------------
(***************************************************************************)
(* Proofs about InputRelease, for any allocator that hands out free        *)
(* addresses, any number of goroutines and inputs, however often Release   *)
(* is called and whenever the callback is registered: the callback is      *)
(* called for allocated blocks, a successful Release of an input with a    *)
(* state of its own has freed it, and no failed release is forgotten.      *)
(***************************************************************************)
EXTENDS InputRelease, TLAPS

Attached(i) == wrapper[i] \notin {"none", "passed"}

Typed == TypeOK /\ \A i \in Inputs : wrapper[i] = "none" <=> i > passed

PCs == {"idle", "range", "load", "lock", "free", "mark", "recheck", "forget", "stop"}

-----------------------------------------------------------------------------
LEMMA InitTyped == Init => Typed
<1> SUFFICES ASSUME Init PROVE Typed
    OBVIOUS
<1> USE ReleaseAssumption
<1>1. /\ pc \in [Threads -> PCs]
      /\ job \in [Threads -> [kind : Kinds, input : 0 .. passed]]
      /\ state \in [Threads -> 0 .. passed]
      /\ range \in [Threads -> SUBSET Pointers]
      /\ result \in [Threads -> {"none", "ok", "error"}]
  BY DEF Init, Kinds, None, PCs
<1>2. /\ memory \in [Pointers -> 0 .. passed]
      /\ DOMAIN entries \subseteq Pointers /\ \A p \in DOMAIN entries : entries[p] \in 1 .. passed
      /\ passed \in 0 .. MaxInputs
      /\ ptr \in [1 .. passed -> Pointers]
  BY DEF Init, None
<1>3. /\ registered \in BOOLEAN
      /\ released \in [Inputs -> BOOLEAN] /\ retryPending \in [Inputs -> BOOLEAN]
      /\ lock \in [Inputs -> BOOLEAN]
      /\ wrapper \in [Inputs -> {"none", "passed", "live", "stopped", "dropped", "collected"}]
      /\ releases \in [Inputs -> 0 .. MaxReleases]
      /\ joined \subseteq Inputs /\ begun \in [Inputs -> Nat]
  BY DEF Init
<1>4. \A i \in Inputs : wrapper[i] = "none" <=> i > passed
  BY DEF Init, Inputs
<1>5. QED BY <1>1, <1>2, <1>3, <1>4 DEF Typed, TypeOK, PCs

LEMMA Bounds ==
  ASSUME Typed
  PROVE  /\ passed \in Nat /\ passed <= MaxInputs /\ passed \in 0 .. MaxInputs
         /\ \A i \in 1 .. passed : i \in Inputs /\ i \in Nat /\ i # None /\ ptr[i] \in Pointers
         /\ \A i \in Inputs : wrapper[i] # "none" => i \in 1 .. passed
         /\ \A t \in Threads : job[t].kind \in Kinds /\ job[t].input \in 0 .. passed
         /\ \A t \in Threads : state[t] \in 0 .. passed
<1> USE ReleaseAssumption
<1>1. passed \in Nat /\ passed <= MaxInputs /\ passed \in 0 .. MaxInputs
  BY DEF Typed, TypeOK
<1>2. \A i \in 1 .. passed : i \in Inputs /\ i \in Nat /\ i # None /\ ptr[i] \in Pointers
  BY <1>1 DEF Typed, TypeOK, Inputs, None
<1>3. \A i \in Inputs : wrapper[i] # "none" => i \in 1 .. passed
  BY <1>1 DEF Typed, Inputs
<1>4. \A t \in Threads : job[t].kind \in Kinds /\ job[t].input \in 0 .. passed
  BY DEF Typed, TypeOK
<1>5. \A t \in Threads : state[t] \in 0 .. passed
  BY DEF Typed, TypeOK
<1>6. QED BY <1>1, <1>2, <1>3, <1>4, <1>5

(* A call that returns goes on to stop the cleanup, to the next pending    *)
(* release, or is over.                                                    *)
LEMMA Returned ==
  ASSUME Typed, NEW t \in Threads, NEW r \in {"ok", "error"}, Return(t, r)
  PROVE  /\ pc' \in [Threads -> PCs]
         /\ result' \in [Threads -> {"none", "ok", "error"}]
         /\ \A u \in Threads : u # t => pc'[u] = pc[u] /\ result'[u] = result[u]
         /\ pc'[t] \in {"idle", "range", "stop"}
         /\ pc'[t] = "stop" => job[t].kind = "release" /\ r = "ok"
         /\ job[t].kind = "release" => result'[t] = r
         /\ job[t].kind = "retry" => pc'[t] = "range"
<1> USE DEF PCs
<1>1. CASE job[t].kind = "release"
  BY <1>1 DEF Return, Typed, TypeOK
<1>2. CASE job[t].kind # "release"
  <2>1. /\ pc' = [pc EXCEPT ![t] = IF job[t].kind = "retry" THEN "range" ELSE "idle"]
        /\ result' = result
    BY <1>2 DEF Return
  <2>2. pc'[t] \in {"idle", "range"} BY <2>1 DEF Typed, TypeOK
  <2>3. QED BY <1>2, <2>1, <2>2 DEF Typed, TypeOK
<1>3. QED BY <1>1, <1>2

(* A new call is about an input that C has handed over.                    *)
LEMMA Begun ==
  ASSUME Typed, NEW t \in Threads, NEW kind \in Kinds, NEW i \in 1 .. passed, Begin(t, kind, i)
  PROVE  /\ pc' \in [Threads -> PCs] /\ pc'[t] = "load"
         /\ job' \in [Threads -> [kind : Kinds, input : 0 .. passed]]
         /\ job'[t].kind = kind /\ job'[t].input = i
         /\ begun' \in [Inputs -> Nat]
         /\ \A j \in Inputs : begun'[j] = IF j = i THEN begun[j] + 1 ELSE begun[j]
         /\ \A u \in Threads : u # t => pc'[u] = pc[u] /\ job'[u] = job[u]
<1>1. i \in Inputs /\ i \in 0 .. passed /\ begun[i] \in Nat
  BY Bounds DEF Typed, TypeOK
<1>2. pc' \in [Threads -> PCs] /\ pc'[t] = "load" /\ \A u \in Threads : u # t => pc'[u] = pc[u]
  BY DEF Begin, Typed, TypeOK, PCs
<1>3. [kind |-> kind, input |-> i] \in [kind : Kinds, input : 0 .. passed]
  BY <1>1
<1>4. /\ job' \in [Threads -> [kind : Kinds, input : 0 .. passed]]
      /\ job'[t] = [kind |-> kind, input |-> i]
      /\ \A u \in Threads : u # t => job'[u] = job[u]
  BY <1>3 DEF Begin, Typed, TypeOK
<1>5. /\ begun' \in [Inputs -> Nat]
      /\ \A j \in Inputs : begun'[j] = IF j = i THEN begun[j] + 1 ELSE begun[j]
  BY <1>1 DEF Begin, Typed, TypeOK
<1>6. job'[t].kind = kind /\ job'[t].input = i
  BY <1>4
<1>7. QED BY <1>2, <1>4, <1>5, <1>6

-----------------------------------------------------------------------------
LEMMA PassTyped == ASSUME Typed, Pass PROVE Typed'
<1> USE ReleaseAssumption
<1>1. PICK p \in Pointers :
        /\ memory' = [memory EXCEPT ![p] = passed + 1]
        /\ ptr' = [i \in 1 .. passed + 1 |-> IF i = passed + 1 THEN p ELSE ptr[i]]
  BY DEF Pass
<1>2. /\ passed \in Nat /\ passed < MaxInputs /\ passed' = passed + 1 /\ passed + 1 \in Inputs
      /\ wrapper' = [wrapper EXCEPT ![passed + 1] = "passed"]
      /\ UNCHANGED <<registered, entries, released, retryPending, lock, releases, joined, begun, threadVars>>
  BY Bounds DEF Pass, Inputs, historyVars
<1>3. 1 .. passed \subseteq 1 .. passed' /\ 0 .. passed \subseteq 0 .. passed' /\ passed + 1 \in 0 .. passed'
  BY <1>2
<1>4. memory' \in [Pointers -> 0 .. passed']
  BY <1>1, <1>3 DEF Typed, TypeOK
<1>5. ptr' \in [1 .. passed' -> Pointers]
  <2>1. ASSUME NEW i \in 1 .. passed', i # passed + 1 PROVE ptr[i] \in Pointers
    BY <1>2, <2>1, Bounds
  <2>2. ptr' = [i \in 1 .. passed' |-> IF i = passed + 1 THEN p ELSE ptr[i]]
    BY <1>1, <1>2
  <2>3. QED BY <2>1, <2>2
<1>6. passed' \in 0 .. MaxInputs
  BY <1>2
<1>7. job' \in [Threads -> [kind : Kinds, input : 0 .. passed']] /\ state' \in [Threads -> 0 .. passed']
  BY <1>2, <1>3 DEF Typed, TypeOK, threadVars
<1>8. \A q \in DOMAIN entries' : entries'[q] \in 1 .. passed'
  BY <1>2, <1>3 DEF Typed, TypeOK
<1>9. wrapper' \in [Inputs -> {"none", "passed", "live", "stopped", "dropped", "collected"}]
  BY <1>2 DEF Typed, TypeOK
<1>10. \A i \in Inputs : wrapper'[i] = "none" <=> i > passed'
  BY <1>2 DEF Typed, TypeOK, Inputs
<1>11. UNCHANGED <<DOMAIN entries, pc, range, result>>
  BY <1>2 DEF threadVars
<1>12. QED BY <1>2, <1>4, <1>5, <1>6, <1>7, <1>8, <1>9, <1>10, <1>11 DEF Typed, TypeOK

LEMMA StoredTyped ==
  ASSUME Typed, NEW i \in 1 .. passed
  PROVE  DOMAIN Stored(i) \subseteq Pointers /\ \A p \in DOMAIN Stored(i) : Stored(i)[p] \in 1 .. passed
<1>1. ptr[i] \in Pointers BY Bounds
<1>2. CASE ptr[i] \in DOMAIN entries
  BY <1>2 DEF Stored, Typed, TypeOK
<1>3. CASE ptr[i] \notin DOMAIN entries
  BY <1>1, <1>3 DEF Stored, Typed, TypeOK
<1>4. QED BY <1>2, <1>3

LEMMA WrapperTyped ==
  ASSUME Typed, NEW i \in Inputs, wrapper[i] # "none",
         NEW w \in {"live", "stopped", "dropped", "collected"},
         wrapper' = [wrapper EXCEPT ![i] = w], passed' = passed
  PROVE  /\ wrapper' \in [Inputs -> {"none", "passed", "live", "stopped", "dropped", "collected"}]
         /\ \A j \in Inputs : wrapper'[j] = IF j = i THEN w ELSE wrapper[j]
         /\ \A j \in Inputs : wrapper'[j] = "none" <=> j > passed'
<1>1. /\ wrapper' \in [Inputs -> {"none", "passed", "live", "stopped", "dropped", "collected"}]
      /\ \A j \in Inputs : wrapper'[j] = IF j = i THEN w ELSE wrapper[j]
  BY DEF Typed, TypeOK
<1>2. QED BY <1>1 DEF Typed

LEMMA StopTyped ==
  ASSUME Typed, NEW t \in Threads, StopCleanup(t)
  PROVE  /\ wrapper' \in [Inputs -> {"none", "passed", "live", "stopped", "dropped", "collected"}]
         /\ \A j \in Inputs : wrapper'[j] = IF j = job[t].input THEN "stopped" ELSE wrapper[j]
         /\ \A j \in Inputs : wrapper'[j] = "none" <=> j > passed'
<1>1. wrapper' = [wrapper EXCEPT ![job[t].input] = "stopped"] /\ passed' = passed
  BY DEF StopCleanup
<1>2. /\ wrapper' \in [Inputs -> {"none", "passed", "live", "stopped", "dropped", "collected"}]
      /\ \A j \in Inputs : wrapper'[j] = IF j = job[t].input THEN "stopped" ELSE wrapper[j]
  BY <1>1 DEF Typed, TypeOK
<1>3. \A j \in Inputs : j = job[t].input => ~(j > passed)
  BY Bounds DEF Inputs
<1>4. QED BY <1>1, <1>2, <1>3 DEF Typed

LEMMA InputStepTyped ==
  ASSUME Typed, NEW i \in Inputs, AttachCleanup(i) \/ Drop(i)
  PROVE  Typed'
<1>1. CASE AttachCleanup(i)
  <2>1. /\ wrapper[i] = "passed" /\ wrapper' = [wrapper EXCEPT ![i] = "live"]
        /\ entries' = Stored(i) /\ joined' \subseteq Inputs
        /\ UNCHANGED <<registered, memory, released, retryPending, lock, passed, ptr, releases, begun, threadVars>>
    BY <1>1 DEF AttachCleanup, Typed, TypeOK
  <2>2. i \in 1 .. passed BY <2>1, Bounds
  <2>3. DOMAIN entries' \subseteq Pointers /\ \A p \in DOMAIN entries' : entries'[p] \in 1 .. passed
    BY <2>1, <2>2, StoredTyped
  <2>4. QED BY <2>1, <2>3, WrapperTyped DEF Typed, TypeOK, threadVars
<1>2. CASE Drop(i)
  <2>1. PICK w \in {"dropped", "collected"} : wrapper' = [wrapper EXCEPT ![i] = w]
    BY <1>2 DEF Drop
  <2>2. /\ wrapper[i] # "none"
        /\ UNCHANGED <<tableVars, passed, ptr, releases, historyVars, threadVars>>
    BY <1>2 DEF Drop
  <2>3. QED BY <2>1, <2>2, WrapperTyped DEF Typed, TypeOK, tableVars, historyVars, threadVars
<1>3. QED BY <1>1, <1>2

LEMMA CallTyped ==
  ASSUME Typed, NEW t \in Threads, NEW i \in Inputs, Release(t, i) \/ Cleanup(t, i)
  PROVE  Typed'
<1>1. CASE Release(t, i)
  <2>1. /\ wrapper[i] # "none" /\ Begin(t, "release", i)
        /\ releases[i] < MaxReleases /\ releases' = [releases EXCEPT ![i] = @ + 1]
        /\ UNCHANGED <<tableVars, passed, ptr, wrapper, joined, state, range, result>>
    BY <1>1 DEF Release
  <2>2. i \in 1 .. passed /\ "release" \in Kinds BY <2>1, Bounds DEF Kinds
  <2>3. releases' \in [Inputs -> 0 .. MaxReleases]
    BY <2>1, ReleaseAssumption DEF Typed, TypeOK
  <2>4. /\ pc' \in [Threads -> PCs] /\ begun' \in [Inputs -> Nat]
        /\ job' \in [Threads -> [kind : Kinds, input : 0 .. passed]]
    BY <2>1, <2>2, Begun
  <2>5. QED BY <2>1, <2>3, <2>4 DEF Typed, TypeOK, PCs, tableVars
<1>2. CASE Cleanup(t, i)
  <2>1. /\ wrapper[i] = "dropped" /\ Begin(t, "cleanup", i)
        /\ wrapper' = [wrapper EXCEPT ![i] = "collected"]
        /\ UNCHANGED <<tableVars, passed, ptr, releases, joined, state, range, result>>
    BY <1>2 DEF Cleanup
  <2>2. i \in 1 .. passed /\ "cleanup" \in Kinds BY <2>1, Bounds DEF Kinds
  <2>3. /\ wrapper' \in [Inputs -> {"none", "passed", "live", "stopped", "dropped", "collected"}]
        /\ \A j \in Inputs : wrapper'[j] = "none" <=> j > passed'
    BY <2>1, WrapperTyped
  <2>4. /\ pc' \in [Threads -> PCs] /\ begun' \in [Inputs -> Nat]
        /\ job' \in [Threads -> [kind : Kinds, input : 0 .. passed]]
    BY <2>1, <2>2, Begun
  <2>5. QED BY <2>1, <2>3, <2>4 DEF Typed, TypeOK, PCs, tableVars
<1>3. QED BY <1>1, <1>2

LEMMA RegistrationTyped ==
  ASSUME Typed, NEW t \in Threads,
         RegisterFreeCallback(t) \/ RetryEnds(t) \/ (\E p \in range[t] : Retry(t, p))
  PROVE  Typed'
<1>1. CASE RegisterFreeCallback(t)
  <2>1. /\ registered' = TRUE /\ pc' = [pc EXCEPT ![t] = "range"]
        /\ range' = [range EXCEPT ![t] = DOMAIN entries]
        /\ UNCHANGED <<memory, entries, released, retryPending, lock, inputVars, historyVars, job, state, result>>
    BY <1>1 DEF RegisterFreeCallback
  <2>2. pc' \in [Threads -> PCs] /\ range' \in [Threads -> SUBSET Pointers]
    BY <2>1 DEF Typed, TypeOK, PCs
  <2>3. QED BY <2>1, <2>2 DEF Typed, TypeOK, PCs, inputVars, historyVars
<1>2. CASE RetryEnds(t)
  <2>1. /\ pc' = [pc EXCEPT ![t] = "idle"]
        /\ UNCHANGED <<tableVars, inputVars, historyVars, job, state, range, result>>
    BY <1>2 DEF RetryEnds
  <2>2. pc' \in [Threads -> PCs]
    BY <2>1 DEF Typed, TypeOK, PCs
  <2>3. QED BY <2>1, <2>2 DEF Typed, TypeOK, PCs, tableVars, inputVars, historyVars
<1>3. ASSUME NEW p \in range[t], Retry(t, p) PROVE Typed'
  <2>1. /\ range' = [range EXCEPT ![t] = @ \ {p}]
        /\ UNCHANGED <<tableVars, inputVars, joined, state, result>>
    BY <1>3 DEF Retry
  <2>2. range' \in [Threads -> SUBSET Pointers]
    BY <2>1 DEF Typed, TypeOK
  <2>3. /\ pc' \in [Threads -> PCs] /\ begun' \in [Inputs -> Nat]
        /\ job' \in [Threads -> [kind : Kinds, input : 0 .. passed]]
    <3>1. CASE p \in DOMAIN entries /\ retryPending[entries[p]]
      <4>1. entries[p] \in 1 .. passed /\ "retry" \in Kinds
        BY <3>1 DEF Typed, TypeOK, Kinds
      <4>2. QED BY <3>1, <1>3, <4>1, Begun DEF Retry
    <3>2. CASE ~(p \in DOMAIN entries /\ retryPending[entries[p]])
      BY <3>2, <1>3 DEF Retry, Typed, TypeOK, PCs
    <3>3. QED BY <3>1, <3>2
  <2>4. QED BY <2>1, <2>2, <2>3 DEF Typed, TypeOK, PCs, tableVars, inputVars
<1>4. QED BY <1>1, <1>2, <1>3

LEMMA LookTyped ==
  ASSUME Typed, NEW t \in Threads, Load(t) \/ Lock(t)
  PROVE  Typed'
<1>1. CASE Load(t)
  <2>1. UNCHANGED <<tableVars, inputVars, historyVars, job, range>> BY <1>1 DEF Load
  <2>2. /\ pc' \in [Threads -> PCs] /\ result' \in [Threads -> {"none", "ok", "error"}]
        /\ state' \in [Threads -> 0 .. passed]
    <3>1. CASE Address(t) \notin DOMAIN entries \/ released[entries[Address(t)]]
      BY <3>1, <1>1, Returned DEF Load, Typed, TypeOK
    <3>2. CASE ~(Address(t) \notin DOMAIN entries \/ released[entries[Address(t)]])
      <4>1. entries[Address(t)] \in 0 .. passed BY <3>2, Bounds DEF Typed, TypeOK
      <4>2. QED BY <3>2, <4>1, <1>1 DEF Load, Typed, TypeOK, PCs
    <3>3. QED BY <3>1, <3>2
  <2>3. QED BY <2>1, <2>2 DEF Typed, TypeOK, PCs, tableVars, inputVars, historyVars
<1>2. CASE Lock(t)
  <2>1. UNCHANGED <<registered, memory, entries, released, retryPending, inputVars, historyVars, job, state, range>>
    BY <1>2 DEF Lock
  <2>2. /\ pc' \in [Threads -> PCs] /\ result' \in [Threads -> {"none", "ok", "error"}]
        /\ lock' \in [Inputs -> BOOLEAN]
    <3>1. CASE released[state[t]]
      BY <3>1, <1>2, Returned DEF Lock, Typed, TypeOK
    <3>2. CASE ~released[state[t]]
      BY <3>2, <1>2 DEF Lock, Typed, TypeOK, PCs
    <3>3. QED BY <3>1, <3>2
  <2>3. QED BY <2>1, <2>2 DEF Typed, TypeOK, PCs, inputVars, historyVars
<1>3. QED BY <1>1, <1>2

LEMMA FreeTyped ==
  ASSUME Typed, NEW t \in Threads, ReleaseC(t) \/ MarkRetry(t)
  PROVE  Typed'
<1>1. CASE ReleaseC(t)
  <2>1. UNCHANGED <<registered, entries, released, retryPending, lock, inputVars, historyVars, job, state, range, result>>
    BY <1>1 DEF ReleaseC
  <2>2. pc' \in [Threads -> PCs] BY <1>1 DEF ReleaseC, Typed, TypeOK, PCs
  <2>3. memory' \in [Pointers -> 0 .. passed]
    <3>1. CASE registered
      <4>1. memory' = [memory EXCEPT ![Address(t)] = None] BY <1>1, <3>1 DEF ReleaseC
      <4>2. None \in 0 .. passed BY Bounds DEF None
      <4>3. QED BY <4>1, <4>2 DEF Typed, TypeOK
    <3>2. CASE ~registered
      <4>1. memory' = memory BY <1>1, <3>2 DEF ReleaseC
      <4>2. QED BY <4>1 DEF Typed, TypeOK
    <3>3. QED BY <3>1, <3>2
  <2>4. QED BY <2>1, <2>2, <2>3 DEF Typed, TypeOK, PCs, inputVars, historyVars
<1>2. CASE MarkRetry(t)
  <2>1. /\ pc' = [pc EXCEPT ![t] = "recheck"] /\ retryPending' = [retryPending EXCEPT ![state[t]] = TRUE]
        /\ UNCHANGED <<registered, memory, entries, released, lock, inputVars, historyVars, job, state, range, result>>
    BY <1>2 DEF MarkRetry
  <2>2. pc' \in [Threads -> PCs] /\ retryPending' \in [Inputs -> BOOLEAN]
    BY <2>1 DEF Typed, TypeOK, PCs
  <2>3. QED BY <2>1, <2>2 DEF Typed, TypeOK, PCs, inputVars, historyVars
<1>3. QED BY <1>1, <1>2

LEMMA EndTyped ==
  ASSUME Typed, NEW t \in Threads, Recheck(t) \/ Forget(t) \/ StopCleanup(t)
  PROVE  Typed'
<1>1. CASE Recheck(t)
  <2>1. UNCHANGED <<registered, memory, entries, released, retryPending, inputVars, historyVars, job, state, range>>
    BY <1>1 DEF Recheck
  <2>2. /\ pc' \in [Threads -> PCs] /\ result' \in [Threads -> {"none", "ok", "error"}]
        /\ lock' \in [Inputs -> BOOLEAN]
    <3>1. CASE registered
      BY <3>1, <1>1 DEF Recheck, Typed, TypeOK, PCs
    <3>2. CASE ~registered
      <4>1. Return(t, "error") /\ lock' = [lock EXCEPT ![state[t]] = FALSE] BY <3>2, <1>1 DEF Recheck
      <4>2. QED BY <4>1, Returned DEF Typed, TypeOK
    <3>3. QED BY <3>1, <3>2
  <2>3. QED BY <2>1, <2>2 DEF Typed, TypeOK, PCs, inputVars, historyVars
<1>2. CASE Forget(t)
  <2>1. /\ retryPending' = [retryPending EXCEPT ![state[t]] = FALSE]
        /\ released' = [released EXCEPT ![state[t]] = TRUE]
        /\ entries' = [p \in DOMAIN entries \ {Address(t)} |-> entries[p]]
        /\ lock' = [lock EXCEPT ![state[t]] = FALSE]
        /\ UNCHANGED <<registered, memory, inputVars, historyVars, job, state, range>>
    BY <1>2 DEF Forget
  <2>2. pc' \in [Threads -> PCs] /\ result' \in [Threads -> {"none", "ok", "error"}]
    BY <1>2, Returned DEF Forget
  <2>3. DOMAIN entries' \subseteq Pointers /\ \A p \in DOMAIN entries' : entries'[p] \in 1 .. passed
    BY <2>1 DEF Typed, TypeOK
  <2>4. /\ retryPending' \in [Inputs -> BOOLEAN] /\ released' \in [Inputs -> BOOLEAN]
        /\ lock' \in [Inputs -> BOOLEAN]
    BY <2>1 DEF Typed, TypeOK
  <2>5. QED BY <2>1, <2>2, <2>3, <2>4 DEF Typed, TypeOK, PCs, inputVars, historyVars
<1>3. CASE StopCleanup(t)
  <2>1. /\ pc' = [pc EXCEPT ![t] = "idle"]
        /\ UNCHANGED <<tableVars, passed, ptr, releases, historyVars, job, state, range, result>>
    BY <1>3 DEF StopCleanup
  <2>2. pc' \in [Threads -> PCs] BY <2>1 DEF Typed, TypeOK, PCs
  <2>3. QED BY <2>1, <2>2, <1>3, StopTyped DEF Typed, TypeOK, PCs, tableVars, historyVars
<1>4. QED BY <1>1, <1>2, <1>3

LEMMA StepTyped == Typed /\ [Next]_vars => Typed'
<1> SUFFICES ASSUME Typed, [Next]_vars PROVE Typed'
    OBVIOUS
<1>1. CASE UNCHANGED vars
  BY <1>1 DEF Typed, TypeOK, vars, tableVars, inputVars, historyVars, threadVars
<1>2. QED BY <1>1, PassTyped, InputStepTyped, CallTyped, RegistrationTyped, LookTyped, FreeTyped, EndTyped
      DEF Next, ThreadStep

(* Every variable keeps its type, and an input has a wrapper exactly when  *)
(* C has handed it over.                                                   *)
THEOREM TypesHold == Spec => []TypeOK
<1>1. Typed => TypeOK BY DEF Typed
<1>2. QED BY <1>1, InitTyped, StepTyped, PTL DEF Spec

-----------------------------------------------------------------------------
(* An input with a release state of its own; one whose block is freed, or  *)
(* that joined the state of another.                                       *)
Own(i) == i \in 1 .. passed /\ Attached(i) /\ i \notin joined
Settled(i) == i \in joined \/ Freed(i)

(* What no step takes back. *)
Grows ==
  /\ \A i \in 1 .. passed :
       /\ i \in 1 .. passed' /\ ptr'[i] = ptr[i]
       /\ Attached(i) => Attached(i)'
       /\ Own(i) => Own(i)'
       /\ Freed(i) => Freed(i)'
       /\ Settled(i) => Settled(i)'
  /\ \A i \in Inputs : begun[i] <= begun'[i]

LEMMA MemoryGrows ==
  ASSUME Typed, NEW i \in 1 .. passed, Freed(i),
         i \in 1 .. passed', ptr'[i] = ptr[i],
         \A p \in Pointers : memory'[p] # memory[p] => memory'[p] \notin 1 .. passed
  PROVE  Freed(i)'
<1>1. memory[ptr[i]] # i /\ ptr[i] \in Pointers BY Bounds DEF Freed
<1>2. memory'[ptr'[i]] # i BY <1>1
<1>4. QED BY <1>2 DEF Freed

LEMMA NextGrows == ASSUME Typed, Next PROVE Grows
<1> USE ReleaseAssumption
<1>0. \A i \in Inputs : begun[i] <= begun[i] BY DEF Typed, TypeOK
<1>1. CASE Pass
  <2>1. PICK p \in Pointers :
          /\ Free(p)
          /\ memory' = [memory EXCEPT ![p] = passed + 1]
          /\ ptr' = [i \in 1 .. passed + 1 |-> IF i = passed + 1 THEN p ELSE ptr[i]]
    BY <1>1 DEF Pass
  <2>2. /\ passed \in Nat /\ passed' = passed + 1
        /\ wrapper' = [wrapper EXCEPT ![passed + 1] = "passed"] /\ UNCHANGED <<joined, begun>>
    BY <1>1, Bounds DEF Pass, historyVars
  <2>3. ASSUME NEW i \in 1 .. passed
        PROVE  /\ i \in 1 .. passed' /\ ptr'[i] = ptr[i] /\ i # passed + 1 /\ i \in Inputs
               /\ wrapper'[i] = wrapper[i]
    BY <2>1, <2>2, Bounds DEF Typed, TypeOK
  <2>4. \A q \in Pointers : memory'[q] # memory[q] => memory'[q] \notin 1 .. passed
    BY <2>1, <2>2 DEF Typed, TypeOK
  <2>5. \A i \in 1 .. passed : Freed(i) => Freed(i)'
    BY <2>3, <2>4, MemoryGrows
  <2>6. QED BY <1>0, <2>2, <2>3, <2>5 DEF Grows, Own, Settled, Attached
<1>2. ASSUME NEW i \in Inputs, AttachCleanup(i) PROVE Grows
  <2>1. /\ wrapper[i] = "passed" /\ wrapper' = [wrapper EXCEPT ![i] = "live"]
        /\ joined' = joined \cup {j \in {i} : ptr[i] \in DOMAIN entries}
        /\ UNCHANGED <<memory, passed, ptr, begun>>
    BY <1>2 DEF AttachCleanup
  <2>2. \A j \in Inputs : wrapper'[j] = IF j = i THEN "live" ELSE wrapper[j]
    BY <2>1 DEF Typed, TypeOK
  <2>3. ASSUME NEW j \in 1 .. passed
        PROVE  /\ Attached(j) => Attached(j)'
               /\ Own(j) => Own(j)'
               /\ Freed(j) => Freed(j)'
               /\ Settled(j) => Settled(j)'
    <3>1. j \in Inputs BY Bounds
    <3>2. Attached(j) => Attached(j)' /\ j # i BY <2>1, <2>2, <3>1 DEF Attached
    <3>3. Freed(j) => Freed(j)' BY <2>1 DEF Freed
    <3>4. j \in joined => j \in joined' BY <2>1
    <3>5. j # i => (j \in joined' <=> j \in joined) BY <2>1
    <3>6. QED BY <2>1, <3>2, <3>3, <3>4, <3>5 DEF Own, Settled
  <2>4. QED BY <1>0, <2>1, <2>3 DEF Grows
<1>3. ASSUME UNCHANGED <<memory, passed, ptr, joined>>,
             \A j \in Inputs : Attached(j) => Attached(j)',
             \A j \in Inputs : begun[j] <= begun'[j]
      PROVE  Grows
  BY <1>3, Bounds DEF Grows, Own, Settled, Freed
<1>4. ASSUME UNCHANGED wrapper PROVE \A j \in Inputs : Attached(j) => Attached(j)'
  BY <1>4 DEF Attached
<1>5. ASSUME NEW i \in Inputs, Drop(i) PROVE Grows
  <2>1. \A j \in Inputs : Attached(j) => Attached(j)'
    BY <1>5 DEF Drop, Attached, Typed, TypeOK
  <2>2. UNCHANGED <<memory, passed, ptr, joined, begun>> BY <1>5 DEF Drop, tableVars, historyVars
  <2>3. QED BY <1>0, <1>3, <2>1, <2>2
<1>6. ASSUME NEW t \in Threads, NEW kind \in Kinds, NEW i \in 1 .. passed, Begin(t, kind, i)
      PROVE  \A j \in Inputs : begun[j] <= begun'[j]
  <2>1. \A j \in Inputs : begun'[j] = IF j = i THEN begun[j] + 1 ELSE begun[j] BY <1>6, Begun
  <2>2. \A j \in Inputs : begun[j] \in Nat BY DEF Typed, TypeOK
  <2>3. QED BY <2>1, <2>2
<1>7. ASSUME NEW t \in Threads, NEW i \in Inputs, Release(t, i) \/ Cleanup(t, i) PROVE Grows
  <2>1. i \in 1 .. passed /\ UNCHANGED <<memory, passed, ptr, joined>>
    BY <1>7, Bounds DEF Release, Cleanup, tableVars
  <2>2. \A j \in Inputs : Attached(j) => Attached(j)'
    BY <1>7 DEF Release, Cleanup, Attached, Typed, TypeOK
  <2>3. \A j \in Inputs : begun[j] <= begun'[j]
    BY <1>6, <1>7, <2>1 DEF Release, Cleanup, Kinds
  <2>4. QED BY <1>3, <2>1, <2>2, <2>3
<1>8. ASSUME NEW t \in Threads, RegisterFreeCallback(t) PROVE Grows
  <2>1. UNCHANGED <<memory, passed, ptr, joined, wrapper, begun>>
    BY <1>8 DEF RegisterFreeCallback, inputVars, historyVars
  <2>2. QED BY <1>0, <1>3, <1>4, <2>1
<1>9. ASSUME NEW t \in Threads, NEW p \in range[t], Retry(t, p) PROVE Grows
  <2>1. UNCHANGED <<memory, passed, ptr, joined, wrapper>>
    BY <1>9 DEF Retry, tableVars, inputVars
  <2>2. \A j \in Inputs : begun[j] <= begun'[j]
    <3>1. CASE p \in DOMAIN entries /\ retryPending[entries[p]]
      <4>1. entries[p] \in 1 .. passed /\ "retry" \in Kinds BY <3>1 DEF Typed, TypeOK, Kinds
      <4>2. QED BY <1>6, <1>9, <3>1, <4>1 DEF Retry
    <3>2. CASE ~(p \in DOMAIN entries /\ retryPending[entries[p]])
      BY <1>0, <1>9, <3>2 DEF Retry
    <3>3. QED BY <3>1, <3>2
  <2>3. QED BY <1>3, <1>4, <2>1, <2>2
<1>10. ASSUME NEW t \in Threads,
              RetryEnds(t) \/ Load(t) \/ Lock(t) \/ MarkRetry(t) \/ Recheck(t) \/ Forget(t)
       PROVE  Grows
  <2>1. UNCHANGED <<memory, passed, ptr, joined, wrapper, begun>>
    BY <1>10 DEF RetryEnds, Load, Lock, MarkRetry, Recheck, Forget, tableVars, inputVars, historyVars
  <2>2. QED BY <1>0, <1>3, <1>4, <2>1
<1>11. ASSUME NEW t \in Threads, ReleaseC(t) PROVE Grows
  <2>1. UNCHANGED <<passed, ptr, joined, wrapper, begun>>
    BY <1>11 DEF ReleaseC, inputVars, historyVars
  <2>2. \A q \in Pointers : memory'[q] # memory[q] => memory'[q] \notin 1 .. passed
    BY <1>11 DEF ReleaseC, Typed, TypeOK, None
  <2>3. ASSUME NEW i \in 1 .. passed
        PROVE  i \in 1 .. passed' /\ ptr'[i] = ptr[i] /\ (Freed(i) => Freed(i)')
    BY <2>1, <2>2, MemoryGrows
  <2>4. QED BY <1>0, <2>1, <2>3 DEF Grows, Own, Settled, Attached
<1>12. ASSUME NEW t \in Threads, StopCleanup(t) PROVE Grows
  <2>1. UNCHANGED <<memory, passed, ptr, joined, begun>>
    BY <1>12 DEF StopCleanup, tableVars, historyVars
  <2>2. \A j \in Inputs : Attached(j) => Attached(j)'
    BY <1>12, StopTyped DEF Attached
  <2>3. QED BY <1>0, <1>3, <2>1, <2>2
<1>13. QED BY <1>1, <1>2, <1>5, <1>7, <1>8, <1>9, <1>10, <1>11, <1>12 DEF Next, ThreadStep

-----------------------------------------------------------------------------
(* A thread has freed the block of the state and is about to forget it. *)
Freeing(i) == \E t \in Threads : state[t] = i /\ pc[t] = "forget"

(* The entry of an address is the state of the one input there that has a  *)
(* state of its own and is not released.                                   *)
Table ==
  /\ \A i \in joined : i \in 1 .. passed /\ Attached(i)
  /\ \A p \in DOMAIN entries :
       Own(entries[p]) /\ ptr[entries[p]] = p /\ ~released[entries[p]]
  /\ \A i \in Inputs : Own(i) /\ ~released[i] => ptr[i] \in DOMAIN entries /\ entries[ptr[i]] = i

(* An entry outlives its block only until the thread that freed it forgets *)
(* it, and only then does a new input find an entry at its address.        *)
Blocks ==
  /\ \A p \in DOMAIN entries : memory[p] = None => Freeing(entries[p])
  /\ \A i \in Inputs : wrapper[i] = "passed" =>
       /\ memory[ptr[i]] = i
       /\ ptr[i] \in DOMAIN entries => Freeing(entries[ptr[i]])
  /\ \A i \in Inputs : released[i] \/ Freeing(i) => Freed(i)

Mutex ==
  /\ \A t, u \in Threads : \A i \in Inputs : Holds(t, i) /\ Holds(u, i) => t = u
  /\ \A t \in Threads : \A i \in Inputs : Holds(t, i) => lock[i] /\ ~released[i]

(* A call works on a state that stood at its input's address: the input's  *)
(* own, unless the input is settled.                                       *)
Job(t) ==
  /\ pc[t] \notin {"idle", "range"} => job[t].input \in 1 .. passed /\ Attached(job[t].input)
  /\ pc[t] \in {"lock", "free", "mark", "recheck", "forget"} =>
       /\ Own(state[t]) /\ ptr[state[t]] = Address(t)
       /\ state[t] = job[t].input \/ Settled(job[t].input)
  /\ pc[t] = "stop" => job[t].kind = "release" /\ result[t] = "ok"
  /\ pc[t] \in {"idle", "range", "stop"} /\ job[t].kind = "release" /\ result[t] = "ok" =>
       job[t].input \in 1 .. passed /\ Settled(job[t].input)

RInv ==
  /\ Typed
  /\ Table
  /\ Blocks
  /\ Mutex
  /\ \A t \in Threads : Job(t)

-----------------------------------------------------------------------------
LEMMA InitRInv == Init => RInv
<1> SUFFICES ASSUME Init PROVE RInv
    OBVIOUS
<1>1. Typed BY InitTyped
<1>2. Table /\ Blocks
  BY DEF Init, Table, Blocks, Own, Freeing
<1>3. Mutex /\ \A t \in Threads : Job(t)
  BY DEF Init, Mutex, Holds, Job
<1>4. QED BY <1>1, <1>2, <1>3 DEF RInv

LEMMA JobKept ==
  ASSUME Grows, NEW u \in Threads, Job(u),
         pc'[u] = pc[u], state'[u] = state[u], job'[u] = job[u], result'[u] = result[u]
  PROVE  Job(u)'
<1>1. ASSUME job[u].input \in 1 .. passed
      PROVE  /\ job[u].input \in 1 .. passed'
             /\ Attached(job[u].input) => Attached(job[u].input)'
             /\ Settled(job[u].input) => Settled(job[u].input)'
             /\ Address(u)' = Address(u)
  BY <1>1 DEF Grows, Attached, Address, Settled, Freed
<1>2. ASSUME Own(state[u]) PROVE Own(state[u])' /\ ptr'[state'[u]] = ptr[state[u]]
  BY <1>2 DEF Grows, Own, Attached
<1>3. CASE pc[u] \notin {"idle", "range"}
  <2>1. job[u].input \in 1 .. passed /\ Attached(job[u].input) BY <1>3 DEF Job
  <2>2. job'[u].input \in 1 .. passed' /\ Attached(job[u].input)'
    BY <2>1, <1>1 DEF Attached
  <2>3. pc[u] \in {"lock", "free", "mark", "recheck", "forget"} =>
          /\ Own(state[u])' /\ ptr'[state'[u]] = Address(u)'
          /\ state'[u] = job'[u].input \/ Settled(job[u].input)'
    BY <2>1, <1>1, <1>2 DEF Job
  <2>4. pc[u] = "stop" => job[u].kind = "release" /\ result[u] = "ok" /\ Settled(job[u].input)
    BY DEF Job
  <2>5. QED BY <1>3, <2>1, <2>2, <2>3, <2>4, <1>1 DEF Job
<1>4. CASE pc[u] \in {"idle", "range"}
  <2>1. CASE job[u].kind = "release" /\ result[u] = "ok"
    <3>1. job[u].input \in 1 .. passed /\ Settled(job[u].input) BY <1>4, <2>1 DEF Job
    <3>2. QED BY <1>1, <1>4, <2>1, <3>1 DEF Job
  <2>2. CASE ~(job[u].kind = "release" /\ result[u] = "ok")
    BY <1>4, <2>2 DEF Job
  <2>3. QED BY <2>1, <2>2
<1>5. QED BY <1>3, <1>4

LEMMA TableKept ==
  ASSUME Typed, Table, UNCHANGED <<passed, ptr, entries, released, joined>>,
         \A i \in Inputs : Attached(i)' <=> Attached(i)
  PROVE  Table'
<1>1. \A i \in Inputs : Own(i)' <=> Own(i)
  BY DEF Own
<1>2. ASSUME NEW i \in joined' PROVE i \in 1 .. passed' /\ Attached(i)'
  BY <1>2, Bounds DEF Table
<1>3. ASSUME NEW p \in DOMAIN entries'
      PROVE  Own(entries[p])' /\ ptr'[entries'[p]] = p /\ ~released'[entries'[p]]
  <2>1. entries[p] \in Inputs /\ Own(entries[p]) BY Bounds DEF Table, Typed, TypeOK
  <2>2. QED BY <2>1, <1>1 DEF Table
<1>4. QED BY <1>1, <1>2, <1>3 DEF Table

LEMMA BlocksKept ==
  ASSUME Typed, Blocks, UNCHANGED <<memory, entries, passed, ptr, released>>,
         \A i \in Inputs : wrapper'[i] = "passed" <=> wrapper[i] = "passed",
         \A t \in Threads : pc'[t] = "forget" <=> pc[t] = "forget",
         \A t \in Threads : pc[t] = "forget" => state'[t] = state[t]
  PROVE  Blocks'
<1>1. ASSUME NEW i PROVE Freeing(i)' <=> Freeing(i)
  BY DEF Freeing
<1>2. ASSUME NEW i PROVE Freed(i)' <=> Freed(i)
  BY DEF Freed
<1>3. ASSUME NEW p \in DOMAIN entries', memory'[p] = None PROVE Freeing(entries[p])'
  <2>1. Freeing(entries[p]) BY <1>3 DEF Blocks
  <2>2. Freeing(entries[p])' BY <2>1, <1>1
  <2>3. QED BY <2>2 DEF Freeing
<1>4. ASSUME NEW i \in Inputs, wrapper'[i] = "passed"
      PROVE  memory'[ptr'[i]] = i /\ (ptr'[i] \in DOMAIN entries' => Freeing(entries[ptr[i]])')
  <2>1. memory[ptr[i]] = i BY <1>4 DEF Blocks
  <2>2. ASSUME ptr[i] \in DOMAIN entries PROVE Freeing(entries[ptr[i]])'
    <3>1. Freeing(entries[ptr[i]]) BY <1>4, <2>2 DEF Blocks
    <3>2. QED BY <3>1 DEF Freeing
  <2>3. QED BY <2>1, <2>2
<1>5. ASSUME NEW i \in Inputs, released'[i] \/ Freeing(i)' PROVE Freed(i)'
  BY <1>1, <1>2, <1>5 DEF Blocks
<1>6. QED BY <1>3, <1>4, <1>5 DEF Blocks

(* A step of one thread that may give up its mutex but takes none. *)
LEMMA MutexKept ==
  ASSUME Mutex, NEW t \in Threads, UNCHANGED released,
         \A u \in Threads : u # t => pc'[u] = pc[u] /\ state'[u] = state[u],
         \A i \in Inputs : Holds(t, i)' => Holds(t, i),
         \A i \in Inputs : lock'[i] = lock[i] \/ (Holds(t, i) /\ ~Holds(t, i)')
  PROVE  Mutex'
<1>1. ASSUME NEW u \in Threads, NEW i \in Inputs, Holds(u, i)' PROVE Holds(u, i)
  BY <1>1 DEF Holds
<1>2. ASSUME NEW u \in Threads, NEW i \in Inputs, Holds(u, i)' PROVE lock'[i] /\ ~released'[i]
  <2>1. Holds(u, i) BY <1>1, <1>2
  <2>2. ~(Holds(t, i) /\ ~Holds(t, i)')
    <3>1. CASE u = t BY <3>1, <1>2
    <3>2. CASE u # t BY <3>2, <2>1 DEF Mutex
    <3>3. QED BY <3>1, <3>2
  <2>3. QED BY <2>1, <2>2 DEF Mutex
<1>3. QED BY <1>1, <1>2 DEF Mutex

(* A step that frees nothing, forgets nothing and takes no mutex. *)
LEMMA Quiet ==
  ASSUME RInv, Typed', Grows, NEW t \in Threads,
         UNCHANGED <<memory, entries, released, passed, ptr, joined>>,
         \A i \in Inputs : (Attached(i)' <=> Attached(i)) /\ (wrapper'[i] = "passed" <=> wrapper[i] = "passed"),
         \A u \in Threads : u # t =>
           pc'[u] = pc[u] /\ state'[u] = state[u] /\ job'[u] = job[u] /\ result'[u] = result[u],
         pc[t] # "forget", pc'[t] # "forget",
         \A i \in Inputs : Holds(t, i)' => Holds(t, i),
         \A i \in Inputs : lock'[i] = lock[i] \/ (Holds(t, i) /\ ~Holds(t, i)'),
         Job(t)'
  PROVE  RInv'
<1>1. Table' BY TableKept DEF RInv
<1>2. Blocks' BY BlocksKept DEF RInv
<1>3. Mutex' BY MutexKept DEF RInv
<1>4. \A u \in Threads : u # t => Job(u)'
  BY JobKept DEF RInv
<1>5. QED BY <1>1, <1>2, <1>3, <1>4 DEF RInv

-----------------------------------------------------------------------------
(* The state a call works on; with its mutex held it is the entry of the   *)
(* address.                                                                *)
LEMMA Working ==
  ASSUME RInv, NEW t \in Threads, pc[t] \in {"lock", "free", "mark", "recheck", "forget"}
  PROVE  /\ state[t] \in Inputs /\ state[t] \in 1 .. passed /\ Own(state[t])
         /\ job[t].input \in Inputs /\ job[t].input \in 1 .. passed /\ Attached(job[t].input)
         /\ ptr[state[t]] = Address(t) /\ Address(t) \in Pointers
         /\ state[t] = job[t].input \/ Settled(job[t].input)
         /\ ~released[state[t]] => Address(t) \in DOMAIN entries /\ entries[Address(t)] = state[t]
         /\ pc[t] # "lock" => Holds(t, state[t]) /\ lock[state[t]] /\ ~released[state[t]]
<1>1. /\ Own(state[t]) /\ ptr[state[t]] = Address(t)
      /\ state[t] = job[t].input \/ Settled(job[t].input)
      /\ job[t].input \in 1 .. passed /\ Attached(job[t].input)
  BY DEF RInv, Job
<1>2. /\ state[t] \in Inputs /\ state[t] \in 1 .. passed /\ job[t].input \in Inputs
      /\ ptr[state[t]] \in Pointers
  BY <1>1, Bounds DEF RInv, Own
<1>3. ~released[state[t]] => Address(t) \in DOMAIN entries /\ entries[Address(t)] = state[t]
  BY <1>1, <1>2 DEF RInv, Table
<1>4. pc[t] # "lock" => Holds(t, state[t])
  BY DEF Holds
<1>5. pc[t] # "lock" => lock[state[t]] /\ ~released[state[t]]
  BY <1>2, <1>4 DEF RInv, Mutex
<1>6. QED BY <1>1, <1>2, <1>3, <1>4, <1>5

(* A call that returns "ok" leaves its input settled. *)
LEMMA ReturnJob ==
  ASSUME RInv, Grows, NEW t \in Threads, NEW r \in {"ok", "error"}, Return(t, r), UNCHANGED job,
         job[t].input \in 1 .. passed, Attached(job[t].input),
         r = "ok" => Settled(job[t].input)
  PROVE  Job(t)'
<1>1. /\ pc'[t] \in {"idle", "range", "stop"}
      /\ pc'[t] = "stop" => job[t].kind = "release" /\ r = "ok"
      /\ job[t].kind = "release" => result'[t] = r
  BY Returned DEF RInv
<1>2. job[t].input \in 1 .. passed' /\ Attached(job[t].input)'
  BY DEF Grows
<1>3. r = "ok" => Settled(job[t].input)'
  <2>1. Settled(job[t].input) => (job[t].input \in joined' \/ Freed(job[t].input)')
    BY DEF Grows, Settled, Freed
  <2>2. QED BY <2>1 DEF Settled, Freed
<1>4. QED BY <1>1, <1>2, <1>3 DEF Job

(* A call finds the state of its input, or has nothing left to do. *)
LEMMA Found ==
  ASSUME RInv, NEW t \in Threads, pc[t] = "load"
  PROVE  Settled(job[t].input) \/ (Address(t) \in DOMAIN entries /\ entries[Address(t)] = job[t].input)
<1> SUFFICES ASSUME ~Settled(job[t].input)
             PROVE  Address(t) \in DOMAIN entries /\ entries[Address(t)] = job[t].input
    OBVIOUS
<1>1. job[t].input \in 1 .. passed /\ job[t].input \in Inputs /\ Attached(job[t].input)
  BY Bounds DEF RInv, Job
<1>2. Own(job[t].input) /\ ~released[job[t].input]
  BY <1>1 DEF Settled, Own, RInv, Blocks
<1>3. QED BY <1>1, <1>2 DEF RInv, Table, Address

LEMMA OkSettled ==
  ASSUME RInv, NEW t \in Threads,
         \/ pc[t] = "load" /\ (Address(t) \notin DOMAIN entries \/ released[entries[Address(t)]])
         \/ pc[t] = "lock" /\ released[state[t]]
         \/ pc[t] = "forget"
  PROVE  Settled(job[t].input)
<1>1. CASE pc[t] = "load" /\ (Address(t) \notin DOMAIN entries \/ released[entries[Address(t)]])
  BY <1>1, Found DEF RInv, Table
<1>2. CASE pc[t] = "lock" /\ released[state[t]]
  <2>1. state[t] \in Inputs /\ (state[t] = job[t].input \/ Settled(job[t].input)) BY <1>2, Working
  <2>2. QED BY <1>2, <2>1 DEF RInv, Blocks, Settled
<1>3. CASE pc[t] = "forget"
  <2>1. state[t] \in Inputs /\ (state[t] = job[t].input \/ Settled(job[t].input)) BY <1>3, Working
  <2>2. Freeing(state[t]) BY <1>3 DEF Freeing
  <2>3. QED BY <2>1, <2>2 DEF RInv, Blocks, Settled
<1>4. QED BY <1>1, <1>2, <1>3

-----------------------------------------------------------------------------
LEMMA PassKeeps == ASSUME RInv, Typed', Grows, Pass PROVE RInv'
<1>1. PICK p \in Pointers :
        /\ Free(p)
        /\ memory' = [memory EXCEPT ![p] = passed + 1]
        /\ ptr' = [i \in 1 .. passed + 1 |-> IF i = passed + 1 THEN p ELSE ptr[i]]
  BY DEF Pass
<1>2. /\ passed \in Nat /\ passed + 1 \in Inputs /\ passed' = passed + 1
      /\ wrapper' = [wrapper EXCEPT ![passed + 1] = "passed"]
      /\ UNCHANGED <<registered, entries, released, retryPending, lock, releases, joined, begun>>
      /\ UNCHANGED <<pc, job, state, range, result>>
  BY Bounds, ReleaseAssumption DEF Pass, historyVars, threadVars, RInv, Inputs
<1>3. \A i \in Inputs : wrapper'[i] = IF i = passed + 1 THEN "passed" ELSE wrapper[i]
  BY <1>2 DEF RInv, Typed, TypeOK
<1>4. \A q \in Pointers : memory'[q] = IF q = p THEN passed + 1 ELSE memory[q]
  BY <1>1 DEF RInv, Typed, TypeOK
<1>5. ptr'[passed + 1] = p /\ \A i \in 1 .. passed : ptr'[i] = ptr[i] /\ i # passed + 1 /\ i \in 1 .. passed'
  BY <1>1, <1>2
<1>6. ASSUME NEW i \in Inputs PROVE Own(i)' <=> Own(i)
  <2>1. CASE i = passed + 1
    BY <1>2, <1>3, <2>1 DEF Own, Attached
  <2>2. CASE i # passed + 1
    BY <1>2, <1>3, <2>2, Bounds DEF Own, Attached, RInv
  <2>3. QED BY <2>1, <2>2
<1>7. Table'
  <2>1. ASSUME NEW i \in joined' PROVE i \in 1 .. passed' /\ Attached(i)'
    BY <1>2, <1>3, <1>5, <2>1, Bounds DEF RInv, Table, Attached
  <2>2. ASSUME NEW q \in DOMAIN entries'
        PROVE  Own(entries[q])' /\ ptr'[entries'[q]] = q /\ ~released'[entries'[q]]
    <3>1. q \in DOMAIN entries /\ entries[q] \in 1 .. passed /\ entries[q] \in Inputs
      BY <1>2, Bounds DEF RInv, Typed, TypeOK
    <3>2. Own(entries[q]) /\ ptr[entries[q]] = q /\ ~released[entries[q]]
      BY <3>1 DEF RInv, Table
    <3>3. Own(entries[q])' BY <3>1, <3>2, <1>2, <1>3, <1>5 DEF Own, Attached
    <3>4. QED BY <3>1, <3>2, <3>3, <1>2, <1>5
  <2>3. ASSUME NEW i \in Inputs, Own(i)', ~released'[i]
        PROVE  ptr'[i] \in DOMAIN entries' /\ entries'[ptr'[i]] = i
    <3>1. Own(i) BY <2>3, <1>6
    <3>2. ptr'[i] = ptr[i] BY <3>1, <1>5 DEF Own
    <3>3. QED BY <3>1, <3>2, <2>3, <1>2 DEF RInv, Table
  <2>4. QED BY <2>1, <2>2, <2>3 DEF Table
<1>8. Blocks'
  <2>1. ASSUME NEW i PROVE Freeing(i)' <=> Freeing(i)
    BY <1>2 DEF Freeing
  <2>2. ASSUME NEW q \in DOMAIN entries', memory'[q] = None PROVE Freeing(entries[q])'
    <3>1. q \in Pointers /\ q \in DOMAIN entries BY <1>2 DEF RInv, Typed, TypeOK
    <3>2. memory[q] = None BY <2>2, <3>1, <1>2, <1>4 DEF None
    <3>3. Freeing(entries[q]) BY <3>1, <3>2 DEF RInv, Blocks
    <3>4. QED BY <3>3, <1>2 DEF Freeing
  <2>3. ASSUME NEW i \in Inputs, wrapper'[i] = "passed"
        PROVE  memory'[ptr'[i]] = i /\ (ptr'[i] \in DOMAIN entries' => Freeing(entries[ptr[i]])')
    <3>1. CASE i = passed + 1
      <4>1. memory'[ptr'[i]] = i BY <3>1, <1>4, <1>5
      <4>2. p \in DOMAIN entries => Freeing(entries[p]) BY <1>1 DEF Free, RInv, Blocks
      <4>3. p \in DOMAIN entries' => Freeing(entries[ptr[i]])'
        BY <4>2, <3>1, <1>2, <1>5 DEF Freeing
      <4>4. QED BY <4>1, <4>3, <3>1, <1>5
    <3>2. CASE i # passed + 1
      <4>1. wrapper[i] = "passed" /\ i \in 1 .. passed /\ ptr'[i] = ptr[i] /\ ptr[i] \in Pointers /\ i # None
        BY <2>3, <3>2, <1>3, <1>5, Bounds DEF RInv
      <4>2. memory[ptr[i]] = i /\ (ptr[i] \in DOMAIN entries => Freeing(entries[ptr[i]]))
        BY <4>1 DEF RInv, Blocks
      <4>3. memory'[ptr'[i]] = i BY <4>1, <4>2, <1>1, <1>4 DEF Free
      <4>4. ptr'[i] \in DOMAIN entries' => Freeing(entries[ptr[i]])' BY <4>1, <4>2, <1>2 DEF Freeing
      <4>5. QED BY <4>3, <4>4
    <3>3. QED BY <3>1, <3>2
  <2>4. ASSUME NEW i \in Inputs, released'[i] \/ Freeing(i)' PROVE Freed(i)'
    <3>1. Freed(i) BY <2>1, <2>4, <1>2 DEF RInv, Blocks
    <3>2. i \in 1 .. passed BY <3>1, Bounds DEF Freed, Inputs, RInv
    <3>3. QED BY <3>1, <3>2 DEF Grows
  <2>5. QED BY <2>2, <2>3, <2>4 DEF Blocks
<1>9. Mutex'
  BY <1>2 DEF RInv, Mutex, Holds
<1>10. \A t \in Threads : Job(t)'
  BY <1>2, JobKept DEF RInv
<1>11. QED BY <1>7, <1>8, <1>9, <1>10 DEF RInv

LEMMA AttachCleanupKeeps == ASSUME RInv, Typed', Grows, NEW i \in Inputs, AttachCleanup(i) PROVE RInv'
<1>1. /\ wrapper[i] = "passed" /\ wrapper' = [wrapper EXCEPT ![i] = "live"]
      /\ entries' = Stored(i)
      /\ joined' = joined \cup {j \in {i} : ptr[i] \in DOMAIN entries}
      /\ UNCHANGED <<registered, memory, released, retryPending, lock, passed, ptr, releases, begun>>
      /\ UNCHANGED <<pc, job, state, range, result>>
  BY DEF AttachCleanup, threadVars
<1>2. i \in 1 .. passed /\ ptr[i] \in Pointers /\ i # None
  BY <1>1, Bounds DEF RInv
<1>3. \A j \in Inputs : wrapper'[j] = IF j = i THEN "live" ELSE wrapper[j]
  BY <1>1 DEF RInv, Typed, TypeOK
<1>4. memory[ptr[i]] = i /\ (ptr[i] \in DOMAIN entries => Freeing(entries[ptr[i]]))
  BY <1>1 DEF RInv, Blocks
<1>5. ~released[i] /\ ~Own(i)
  BY <1>1, <1>4 DEF RInv, Blocks, Freed, Own, Attached
<1>6. ASSUME NEW j \in Inputs, j # i PROVE Own(j)' <=> Own(j)
  BY <1>1, <1>3, <1>6 DEF Own, Attached
<1>7. \A j \in joined' : j \in 1 .. passed' /\ Attached(j)'
  <2>1. ASSUME NEW j \in joined' PROVE j \in 1 .. passed' /\ Attached(j)'
    BY <1>1, <1>2, <1>3, <2>1, Bounds DEF RInv, Table, Attached
  <2>2. QED BY <2>1
<1>8. ASSUME ptr[i] \in DOMAIN entries PROVE Table' /\ Blocks'
  <2>1. entries' = entries /\ i \in joined' BY <1>1, <1>8 DEF Stored
  <2>2. ~Own(i)' BY <2>1 DEF Own
  <2>3. ASSUME NEW p \in DOMAIN entries'
        PROVE  Own(entries[p])' /\ ptr'[entries'[p]] = p /\ ~released'[entries'[p]]
    <3>1. entries[p] \in Inputs /\ Own(entries[p]) /\ ptr[entries[p]] = p /\ ~released[entries[p]]
      BY <2>1, Bounds DEF RInv, Typed, TypeOK, Table
    <3>2. entries[p] # i BY <3>1, <1>5
    <3>3. Own(entries[p])' BY <3>1, <3>2, <2>1, <1>1, <1>3 DEF Own, Attached
    <3>4. QED BY <3>1, <3>3, <2>1, <1>1
  <2>4. \A j \in Inputs : Own(j)' /\ ~released'[j] => ptr'[j] \in DOMAIN entries' /\ entries'[ptr'[j]] = j
    BY <2>1, <2>2, <1>1, <1>6 DEF RInv, Table
  <2>5. Table' BY <1>7, <2>3, <2>4 DEF Table
  <2>6. Blocks'
    <3>1. \A p \in DOMAIN entries' : memory'[p] = None => Freeing(entries[p])'
      BY <2>1, <1>1 DEF RInv, Blocks, Freeing
    <3>2. \A j \in Inputs : wrapper'[j] = "passed" =>
            memory'[ptr'[j]] = j /\ (ptr'[j] \in DOMAIN entries' => Freeing(entries[ptr[j]])')
      BY <2>1, <1>1, <1>3 DEF RInv, Blocks, Freeing
    <3>3. \A j \in Inputs : released'[j] \/ Freeing(j)' => Freed(j)'
      BY <1>1 DEF RInv, Blocks, Freeing, Freed
    <3>4. QED BY <3>1, <3>2, <3>3 DEF Blocks, Freeing, Freed
  <2>7. QED BY <2>5, <2>6
<1>9. ASSUME ptr[i] \notin DOMAIN entries PROVE Table' /\ Blocks'
  <2>1. /\ entries' = [p \in DOMAIN entries \cup {ptr[i]} |-> IF p = ptr[i] THEN i ELSE entries[p]]
        /\ joined' = joined
    BY <1>1, <1>9 DEF Stored
  <2>2. Own(i)' BY <2>1, <1>1, <1>2, <1>3, Bounds DEF Own, Attached, RInv, Table
  <2>3. ASSUME NEW p \in DOMAIN entries'
        PROVE  Own(entries[p])' /\ ptr'[entries'[p]] = p /\ ~released'[entries'[p]]
    <3>1. CASE p = ptr[i]
      <4>1. entries'[p] = i BY <3>1, <2>1
      <4>2. Own(entries[p])' BY <4>1, <2>2 DEF Own, Attached
      <4>3. QED BY <4>1, <4>2, <3>1, <1>1, <1>5
    <3>2. CASE p # ptr[i]
      <4>1. p \in DOMAIN entries /\ entries'[p] = entries[p] BY <3>2, <2>1
      <4>2. entries[p] \in Inputs /\ Own(entries[p]) /\ ptr[entries[p]] = p /\ ~released[entries[p]]
        BY <4>1, Bounds DEF RInv, Typed, TypeOK, Table
      <4>3. Own(entries[p])' BY <4>1, <4>2, <2>1, <1>1, <1>3, <1>5 DEF Own, Attached
      <4>4. QED BY <4>1, <4>2, <4>3, <1>1
    <3>3. QED BY <3>1, <3>2
  <2>4. ASSUME NEW j \in Inputs, Own(j)', ~released'[j]
        PROVE  ptr'[j] \in DOMAIN entries' /\ entries'[ptr'[j]] = j
    <3>1. CASE j = i BY <3>1, <2>1, <1>1
    <3>2. CASE j # i
      <4>1. ptr[j] \in DOMAIN entries /\ entries[ptr[j]] = j
        BY <2>4, <3>2, <1>1, <1>6 DEF RInv, Table
      <4>2. QED BY <4>1, <1>1, <1>9, <2>1
    <3>3. QED BY <3>1, <3>2
  <2>5. Table' BY <1>7, <2>3, <2>4 DEF Table
  <2>6. Blocks'
    <3>1. ASSUME NEW p \in DOMAIN entries', memory'[p] = None PROVE Freeing(entries[p])'
      <4>1. p # ptr[i] BY <3>1, <1>1, <1>2, <1>4
      <4>2. p \in DOMAIN entries /\ entries'[p] = entries[p] BY <4>1, <2>1
      <4>3. Freeing(entries[p]) BY <3>1, <4>2, <1>1 DEF RInv, Blocks
      <4>4. QED BY <4>2, <4>3, <1>1 DEF Freeing
    <3>2. ASSUME NEW j \in Inputs, wrapper'[j] = "passed"
          PROVE  memory'[ptr'[j]] = j /\ (ptr'[j] \in DOMAIN entries' => Freeing(entries[ptr[j]])')
      <4>1. j # i /\ wrapper[j] = "passed" BY <3>2, <1>3
      <4>2. memory[ptr[j]] = j /\ (ptr[j] \in DOMAIN entries => Freeing(entries[ptr[j]]))
        BY <4>1 DEF RInv, Blocks
      <4>3. ptr[j] # ptr[i] BY <4>1, <4>2, <1>4
      <4>4. ptr[j] \in DOMAIN entries' => ptr[j] \in DOMAIN entries /\ entries'[ptr[j]] = entries[ptr[j]]
        BY <4>3, <2>1
      <4>5. ptr'[j] \in DOMAIN entries' => Freeing(entries[ptr[j]])'
        BY <4>2, <4>4, <1>1 DEF Freeing
      <4>6. QED BY <4>2, <4>5, <1>1
    <3>3. \A j \in Inputs : released'[j] \/ Freeing(j)' => Freed(j)'
      BY <1>1 DEF RInv, Blocks, Freeing, Freed
    <3>4. QED BY <3>1, <3>2, <3>3 DEF Blocks, Freeing, Freed
  <2>7. QED BY <2>5, <2>6
<1>10. Table' /\ Blocks' BY <1>8, <1>9
<1>11. Mutex'
  BY <1>1 DEF RInv, Mutex, Holds
<1>12. \A t \in Threads : Job(t)'
  BY <1>1, JobKept DEF RInv
<1>13. QED BY <1>10, <1>11, <1>12 DEF RInv

LEMMA DropKeeps == ASSUME RInv, Typed', Grows, NEW i \in Inputs, Drop(i) PROVE RInv'
<1>1. /\ wrapper[i] \in {"live", "stopped"}
      /\ wrapper' = [wrapper EXCEPT ![i] = IF wrapper[i] = "live" THEN "dropped" ELSE "collected"]
      /\ UNCHANGED <<memory, entries, released, lock, passed, ptr, joined, pc, job, state, result>>
  BY DEF Drop, tableVars, historyVars, threadVars
<1>2. \A j \in Inputs : (Attached(j)' <=> Attached(j)) /\ (wrapper'[j] = "passed" <=> wrapper[j] = "passed")
  BY <1>1 DEF RInv, Typed, TypeOK, Attached
<1>3. Table' BY <1>1, <1>2, TableKept DEF RInv
<1>4. Blocks' BY <1>1, <1>2, BlocksKept DEF RInv
<1>5. Mutex' BY <1>1 DEF RInv, Mutex, Holds
<1>6. \A t \in Threads : Job(t)' BY <1>1, JobKept DEF RInv
<1>7. QED BY <1>3, <1>4, <1>5, <1>6 DEF RInv

-----------------------------------------------------------------------------
(* A call that begins, and one that goes on with the state it has. *)
LEMMA BegunJob ==
  ASSUME RInv, Grows, NEW t \in Threads, NEW kind \in Kinds, NEW i \in 1 .. passed,
         Attached(i), Begin(t, kind, i)
  PROVE  Job(t)'
<1>1. pc'[t] = "load" /\ job'[t].input = i
  BY Begun DEF RInv
<1>2. i \in 1 .. passed' /\ Attached(i)'
  BY DEF Grows
<1>3. QED BY <1>1, <1>2 DEF Job, Attached

LEMMA WorkJob ==
  ASSUME RInv, Grows, NEW t \in Threads,
         pc[t] \in {"lock", "free", "mark", "recheck", "forget"},
         pc'[t] \in {"lock", "free", "mark", "recheck", "forget"},
         state'[t] = state[t], job'[t] = job[t]
  PROVE  Job(t)'
<1>1. /\ job[t].input \in 1 .. passed /\ Attached(job[t].input)
      /\ Own(state[t]) /\ ptr[state[t]] = Address(t) /\ state[t] \in 1 .. passed
      /\ state[t] = job[t].input \/ Settled(job[t].input)
  BY Working
<1>2. /\ job[t].input \in 1 .. passed' /\ Attached(job[t].input)'
      /\ Settled(job[t].input) => (job[t].input \in joined' \/ Freed(job[t].input)')
      /\ ptr'[job[t].input] = ptr[job[t].input] /\ ptr'[state[t]] = ptr[state[t]]
  BY <1>1 DEF Grows, Settled, Freed
<1>3. Own(state[t])'
  BY <1>1 DEF Grows, Own, Attached
<1>4. QED BY <1>1, <1>2, <1>3 DEF Job, Address, Settled, Freed, Attached

LEMMA CallKeeps ==
  ASSUME RInv, Typed', Grows, NEW t \in Threads, NEW i \in Inputs, Release(t, i) \/ Cleanup(t, i)
  PROVE  RInv'
<1>1. /\ pc[t] = "idle" /\ wrapper[i] \in {"live", "stopped", "dropped"}
      /\ Begin(t, "release", i) \/ Begin(t, "cleanup", i)
      /\ UNCHANGED <<memory, entries, released, lock, passed, ptr, joined, state, result>>
  BY DEF Release, Cleanup, tableVars
<1>2. i \in 1 .. passed /\ Attached(i)
  BY <1>1, Bounds DEF RInv, Attached
<1>3. /\ pc'[t] = "load" /\ Job(t)'
      /\ \A u \in Threads : u # t => pc'[u] = pc[u] /\ job'[u] = job[u]
  BY <1>1, <1>2, Begun, BegunJob DEF RInv, Kinds
<1>4. \A j \in Inputs : (Attached(j)' <=> Attached(j)) /\ (wrapper'[j] = "passed" <=> wrapper[j] = "passed")
  BY DEF Release, Cleanup, RInv, Typed, TypeOK, Attached
<1>5. \A j \in Inputs : ~Holds(t, j)'
  BY <1>3 DEF Holds
<1>6. QED BY <1>1, <1>3, <1>4, <1>5, Quiet

LEMMA RegistrationKeeps ==
  ASSUME RInv, Typed', Grows, NEW t \in Threads,
         RegisterFreeCallback(t) \/ RetryEnds(t) \/ (\E p \in range[t] : Retry(t, p))
  PROVE  RInv'
<1>1. /\ UNCHANGED <<memory, entries, released, lock, passed, ptr, wrapper, joined, state, result>>
      /\ pc[t] \in {"idle", "range"}
  BY DEF RegisterFreeCallback, RetryEnds, Retry, tableVars, inputVars, historyVars
<1>2. /\ pc'[t] \in {"idle", "range", "load"} /\ Job(t)'
      /\ \A u \in Threads : u # t => pc'[u] = pc[u] /\ job'[u] = job[u]
  <2>1. CASE RegisterFreeCallback(t) \/ RetryEnds(t)
    <3>1. UNCHANGED <<job, result, joined, passed, ptr>> /\ pc'[t] \in {"idle", "range"}
          /\ \A u \in Threads : u # t => pc'[u] = pc[u]
      BY <2>1 DEF RegisterFreeCallback, RetryEnds, inputVars, historyVars, RInv, Typed, TypeOK
    <3>2. job[t].kind = "release" /\ result[t] = "ok" =>
            job[t].input \in 1 .. passed' /\ Settled(job[t].input)'
      BY <1>1, <3>1 DEF RInv, Job, Settled, Freed
    <3>3. QED BY <3>1, <3>2 DEF Job
  <2>2. ASSUME NEW p \in range[t], Retry(t, p)
        PROVE  /\ pc'[t] \in {"idle", "range", "load"} /\ Job(t)'
               /\ \A u \in Threads : u # t => pc'[u] = pc[u] /\ job'[u] = job[u]
    <3>1. CASE p \in DOMAIN entries /\ retryPending[entries[p]]
      <4>1. Begin(t, "retry", entries[p]) /\ "retry" \in Kinds BY <2>2, <3>1 DEF Retry, Kinds
      <4>2. entries[p] \in 1 .. passed /\ Attached(entries[p])
        BY <3>1 DEF RInv, Typed, TypeOK, Table, Own
      <4>3. Job(t)' BY <4>1, <4>2, BegunJob
      <4>4. pc'[t] = "load" /\ \A u \in Threads : u # t => pc'[u] = pc[u] /\ job'[u] = job[u]
        BY <4>1, <4>2, Begun DEF RInv
      <4>5. QED BY <4>3, <4>4
    <3>2. CASE ~(p \in DOMAIN entries /\ retryPending[entries[p]])
      <4>1. UNCHANGED <<pc, job>> BY <2>2, <3>2 DEF Retry
      <4>2. Job(t)' BY <4>1, <1>1, JobKept DEF RInv
      <4>3. QED BY <4>1, <4>2, <1>1
    <3>3. QED BY <3>1, <3>2
  <2>3. QED BY <2>1, <2>2
<1>3. \A j \in Inputs : ~Holds(t, j)'
  BY <1>2 DEF Holds
<1>4. \A j \in Inputs : Attached(j)' <=> Attached(j)
  BY <1>1 DEF Attached
<1>5. QED BY <1>1, <1>2, <1>3, <1>4, Quiet

LEMMA LoadKeeps == ASSUME RInv, Typed', Grows, NEW t \in Threads, Load(t) PROVE RInv'
<1>1. /\ pc[t] = "load"
      /\ UNCHANGED <<memory, entries, released, lock, passed, ptr, wrapper, joined, job>>
  BY DEF Load, tableVars, inputVars, historyVars
<1>2. job[t].input \in 1 .. passed /\ job[t].input \in Inputs /\ Attached(job[t].input)
  BY <1>1, Bounds DEF RInv, Job
<1>3. Settled(job[t].input) \/
        (Address(t) \in DOMAIN entries /\ entries[Address(t)] = job[t].input)
  BY <1>1, Found
<1>4. /\ pc'[t] \in {"idle", "range", "stop", "lock"} /\ Job(t)'
      /\ \A u \in Threads : u # t => pc'[u] = pc[u] /\ state'[u] = state[u] /\ result'[u] = result[u]
  <2>1. CASE Address(t) \notin DOMAIN entries \/ released[entries[Address(t)]]
    <3>1. Return(t, "ok") /\ UNCHANGED state BY <2>1 DEF Load
    <3>2. Settled(job[t].input)
      BY <2>1, <1>1, OkSettled
    <3>3. Job(t)' BY <3>1, <3>2, <1>1, <1>2, ReturnJob
    <3>4. QED BY <3>1, <3>3, Returned DEF RInv
  <2>2. CASE ~(Address(t) \notin DOMAIN entries \/ released[entries[Address(t)]])
    <3>1. /\ pc' = [pc EXCEPT ![t] = "lock"] /\ state' = [state EXCEPT ![t] = entries[Address(t)]]
          /\ UNCHANGED result
      BY <2>2 DEF Load
    <3>2. /\ pc'[t] = "lock" /\ state'[t] = entries[Address(t)]
          /\ \A u \in Threads : u # t => pc'[u] = pc[u] /\ state'[u] = state[u]
      BY <3>1 DEF RInv, Typed, TypeOK
    <3>3. Own(state'[t]) /\ ptr[state'[t]] = Address(t)
      BY <3>2, <2>2 DEF RInv, Table
    <3>4. Own(state[t])' BY <3>3, <1>1 DEF Own, Attached
    <3>5. state'[t] = job[t].input \/ Settled(job[t].input)'
      BY <3>2, <1>3, <1>1 DEF Settled, Freed
    <3>6. Job(t)' BY <3>2, <3>3, <3>4, <3>5, <1>1, <1>2 DEF Job, Address, Attached
    <3>7. QED BY <3>1, <3>2, <3>6
  <2>3. QED BY <2>1, <2>2
<1>5. \A j \in Inputs : ~Holds(t, j)'
  BY <1>4 DEF Holds
<1>6. \A j \in Inputs : Attached(j)' <=> Attached(j)
  BY <1>1 DEF Attached
<1>7. QED BY <1>1, <1>4, <1>5, <1>6, Quiet

LEMMA LockKeeps == ASSUME RInv, Typed', Grows, NEW t \in Threads, Lock(t) PROVE RInv'
<1>1. /\ pc[t] = "lock" /\ ~lock[state[t]]
      /\ UNCHANGED <<memory, entries, released, passed, ptr, wrapper, joined, job, state>>
  BY DEF Lock, inputVars, historyVars
<1>2. /\ state[t] \in Inputs /\ job[t].input \in 1 .. passed /\ Attached(job[t].input)
      /\ state[t] = job[t].input \/ Settled(job[t].input)
  BY <1>1, Working
<1>3. \A j \in Inputs : Attached(j)' <=> Attached(j)
  BY <1>1 DEF Attached
<1>4. CASE released[state[t]]
  <2>1. Return(t, "ok") /\ UNCHANGED lock BY <1>4 DEF Lock
  <2>2. Settled(job[t].input) BY <1>1, <1>4, OkSettled
  <2>3. Job(t)' BY <2>1, <2>2, <1>1, <1>2, ReturnJob
  <2>4. /\ pc'[t] \in {"idle", "range", "stop"}
        /\ \A u \in Threads : u # t => pc'[u] = pc[u] /\ result'[u] = result[u]
    BY <2>1, Returned DEF RInv
  <2>5. \A j \in Inputs : ~Holds(t, j)' BY <2>4 DEF Holds
  <2>6. QED BY <2>1, <2>3, <2>4, <2>5, <1>1, <1>3, Quiet
<1>5. CASE ~released[state[t]]
  <2>1. /\ pc' = [pc EXCEPT ![t] = "free"] /\ lock' = [lock EXCEPT ![state[t]] = TRUE] /\ UNCHANGED result
    BY <1>5 DEF Lock
  <2>2. /\ pc'[t] = "free" /\ lock'[state[t]] = TRUE
        /\ \A u \in Threads : u # t => pc'[u] = pc[u]
        /\ \A j \in Inputs : j # state[t] => lock'[j] = lock[j]
    BY <2>1, <1>2 DEF RInv, Typed, TypeOK
  <2>3. Table' BY <1>1, <1>3, TableKept DEF RInv
  <2>4. Blocks'
    <3>1. \A u \in Threads : pc'[u] = "forget" <=> pc[u] = "forget" BY <2>2, <1>1
    <3>2. QED BY <3>1, <1>1, BlocksKept DEF RInv
  <2>5. ASSUME NEW u \in Threads, NEW j \in Inputs, Holds(u, j)'
        PROVE  (u = t /\ j = state[t]) \/ (u # t /\ Holds(u, j))
    BY <2>2, <2>5, <1>1 DEF Holds
  <2>6. \A u \in Threads : ~Holds(u, state[t]) BY <1>1, <1>2 DEF RInv, Mutex
  <2>7. Mutex'
    <3>1. ASSUME NEW u \in Threads, NEW v \in Threads, NEW j \in Inputs, Holds(u, j)', Holds(v, j)'
          PROVE  u = v
      BY <2>5, <2>6, <3>1 DEF RInv, Mutex
    <3>2. ASSUME NEW u \in Threads, NEW j \in Inputs, Holds(u, j)' PROVE lock'[j] /\ ~released'[j]
      <4>1. CASE j = state[t] BY <4>1, <2>2, <1>1, <1>5
      <4>2. CASE j # state[t]
        <5>1. Holds(u, j) BY <4>2, <3>2, <2>5
        <5>2. QED BY <5>1, <4>2, <2>2, <1>1 DEF RInv, Mutex
      <4>3. QED BY <4>1, <4>2
    <3>3. QED BY <3>1, <3>2 DEF Mutex
  <2>8. Job(t)' BY <2>2, <1>1, WorkJob
  <2>9. \A u \in Threads : u # t => Job(u)'
    BY <2>1, <2>2, <1>1, JobKept DEF RInv
  <2>10. QED BY <2>3, <2>4, <2>7, <2>8, <2>9 DEF RInv
<1>6. QED BY <1>4, <1>5

LEMMA ReleaseCKeeps == ASSUME RInv, Typed', Grows, NEW t \in Threads, ReleaseC(t) PROVE RInv'
<1>1. /\ pc[t] = "free"
      /\ UNCHANGED <<entries, released, lock, passed, ptr, wrapper, joined, job, state, result>>
  BY DEF ReleaseC, inputVars, historyVars
<1>2. /\ state[t] \in Inputs /\ Own(state[t]) /\ state[t] \in 1 .. passed
      /\ ptr[state[t]] = Address(t) /\ Address(t) \in Pointers
      /\ Address(t) \in DOMAIN entries /\ entries[Address(t)] = state[t]
      /\ Holds(t, state[t])
  BY <1>1, Working
<1>3. \A j \in Inputs : Attached(j)' <=> Attached(j)
  BY <1>1 DEF Attached
<1>4. /\ pc'[t] \in {"mark", "forget"} /\ \A u \in Threads : u # t => pc'[u] = pc[u]
      /\ Job(t)'
  <2>1. pc' = [pc EXCEPT ![t] = "forget"] \/ pc' = [pc EXCEPT ![t] = "mark"] BY DEF ReleaseC
  <2>2. pc'[t] \in {"mark", "forget"} /\ \A u \in Threads : u # t => pc'[u] = pc[u]
    BY <2>1 DEF RInv, Typed, TypeOK
  <2>3. QED BY <2>2, <1>1, WorkJob
<1>5. \A u \in Threads : \A j \in Inputs : Holds(u, j)' <=> Holds(u, j)
  <2>1. ASSUME NEW u \in Threads, NEW j \in Inputs PROVE Holds(u, j)' <=> Holds(u, j)
    BY <1>1, <1>4 DEF Holds
  <2>2. QED BY <2>1
<1>6. CASE ~registered
  <2>1. memory' = memory /\ pc'[t] = "mark"
    BY <1>6 DEF ReleaseC, RInv, Typed, TypeOK
  <2>2. QED BY <2>1, <1>1, <1>3, <1>4, <1>5, Quiet
<1>7. CASE registered
  <2>1. /\ \A q \in Pointers : memory'[q] = IF q = Address(t) THEN None ELSE memory[q]
        /\ pc'[t] = "forget"
    BY <1>7 DEF ReleaseC, RInv, Typed, TypeOK
  <2>2. \A i : Freeing(i) => Freeing(i)'
    BY <1>1, <1>4 DEF Freeing
  <2>3. Table' BY <1>1, <1>3, TableKept DEF RInv
  <2>4. ~Freeing(state[t])
    BY <1>1, <1>2 DEF Freeing, Holds, RInv, Mutex
  <2>5. ASSUME NEW p \in DOMAIN entries', memory'[p] = None PROVE Freeing(entries[p])'
    <3>1. CASE p = Address(t)
      <4>1. entries'[p] = state[t] /\ state'[t] = state[t] BY <3>1, <1>1, <1>2
      <4>2. QED BY <4>1, <2>1 DEF Freeing
    <3>2. CASE p # Address(t)
      <4>1. p \in Pointers /\ p \in DOMAIN entries BY <1>1 DEF RInv, Typed, TypeOK
      <4>2. memory[p] = None BY <4>1, <3>2, <2>1, <2>5
      <4>3. Freeing(entries[p]) BY <4>1, <4>2 DEF RInv, Blocks
      <4>4. QED BY <4>3, <1>1, <1>4 DEF Freeing
    <3>3. QED BY <3>1, <3>2
  <2>6. ASSUME NEW i \in Inputs, wrapper'[i] = "passed"
        PROVE  memory'[ptr'[i]] = i /\ (ptr'[i] \in DOMAIN entries' => Freeing(entries[ptr[i]])')
    <3>1. wrapper[i] = "passed" /\ ptr[i] \in Pointers BY <2>6, <1>1, Bounds DEF RInv
    <3>2. memory[ptr[i]] = i /\ (ptr[i] \in DOMAIN entries => Freeing(entries[ptr[i]]))
      BY <3>1 DEF RInv, Blocks
    <3>3. ptr[i] # Address(t) BY <3>2, <2>4, <1>2
    <3>4. memory'[ptr'[i]] = i BY <3>1, <3>2, <3>3, <2>1, <1>1
    <3>5. ptr'[i] \in DOMAIN entries' => Freeing(entries[ptr[i]])'
      BY <3>2, <1>1, <1>4 DEF Freeing
    <3>6. QED BY <3>4, <3>5
  <2>7. ASSUME NEW i \in Inputs, released'[i] \/ Freeing(i)' PROVE Freed(i)'
    <3>1. CASE i = state[t]
      BY <3>1, <2>1, <1>1, <1>2, Bounds DEF Freed, RInv
    <3>2. CASE i # state[t]
      <4>1. released[i] \/ Freeing(i) BY <2>7, <3>2, <1>1, <1>4 DEF Freeing
      <4>2. Freed(i) BY <4>1 DEF RInv, Blocks
      <4>3. i \in 1 .. passed BY <4>2, Bounds DEF Freed, Inputs, RInv
      <4>4. QED BY <4>2, <4>3 DEF Grows
    <3>3. QED BY <3>1, <3>2
  <2>8. Blocks' BY <2>5, <2>6, <2>7 DEF Blocks
  <2>9. Mutex' BY <1>1, <1>5 DEF RInv, Mutex
  <2>10. \A u \in Threads : u # t => Job(u)'
    BY <1>1, <1>4, JobKept DEF RInv
  <2>11. QED BY <1>4, <2>3, <2>8, <2>9, <2>10 DEF RInv
<1>8. QED BY <1>6, <1>7

LEMMA MarkKeeps ==
  ASSUME RInv, Typed', Grows, NEW t \in Threads, MarkRetry(t) \/ Recheck(t)
  PROVE  RInv'
<1>1. /\ pc[t] \in {"mark", "recheck"}
      /\ UNCHANGED <<memory, entries, released, passed, ptr, wrapper, joined, job, state>>
  BY DEF MarkRetry, Recheck, inputVars, historyVars
<1>2. /\ state[t] \in Inputs /\ job[t].input \in 1 .. passed /\ Attached(job[t].input)
      /\ Holds(t, state[t])
  BY <1>1, Working
<1>3. \A j \in Inputs : Attached(j)' <=> Attached(j)
  BY <1>1 DEF Attached
<1>4. CASE MarkRetry(t) \/ registered
  <2>1. /\ pc' = [pc EXCEPT ![t] = "recheck"] \/ pc' = [pc EXCEPT ![t] = "free"]
        /\ UNCHANGED <<lock, result>>
    BY <1>4 DEF MarkRetry, Recheck
  <2>2. pc'[t] \in {"free", "recheck"} /\ \A u \in Threads : u # t => pc'[u] = pc[u]
    BY <2>1 DEF RInv, Typed, TypeOK
  <2>3. Job(t)' BY <2>2, <1>1, WorkJob
  <2>4. \A j \in Inputs : Holds(t, j)' => Holds(t, j) BY <2>2, <1>1 DEF Holds
  <2>5. QED BY <2>1, <2>2, <2>3, <2>4, <1>1, <1>3, Quiet
<1>5. CASE Recheck(t) /\ ~registered
  <2>1. Return(t, "error") /\ lock' = [lock EXCEPT ![state[t]] = FALSE]
    BY <1>5 DEF Recheck
  <2>2. Job(t)' BY <2>1, <1>1, <1>2, ReturnJob
  <2>3. /\ pc'[t] \in {"idle", "range", "stop"}
        /\ \A u \in Threads : u # t => pc'[u] = pc[u] /\ result'[u] = result[u]
    BY <2>1, Returned DEF RInv
  <2>4. \A j \in Inputs : ~Holds(t, j)' BY <2>3 DEF Holds
  <2>5. \A j \in Inputs : j # state[t] => lock'[j] = lock[j]
    BY <2>1, <1>2 DEF RInv, Typed, TypeOK
  <2>6. \A j \in Inputs : lock'[j] = lock[j] \/ (Holds(t, j) /\ ~Holds(t, j)')
    BY <2>4, <2>5, <1>2
  <2>7. QED BY <2>2, <2>3, <2>4, <2>6, <1>1, <1>3, Quiet
<1>6. QED BY <1>4, <1>5

LEMMA ForgetKeeps == ASSUME RInv, Typed', Grows, NEW t \in Threads, Forget(t) PROVE RInv'
<1>1. /\ pc[t] = "forget" /\ Return(t, "ok")
      /\ released' = [released EXCEPT ![state[t]] = TRUE]
      /\ entries' = [p \in DOMAIN entries \ {Address(t)} |-> entries[p]]
      /\ lock' = [lock EXCEPT ![state[t]] = FALSE]
      /\ UNCHANGED <<memory, passed, ptr, wrapper, joined, job, state>>
  BY DEF Forget, inputVars, historyVars
<1>2. /\ state[t] \in Inputs /\ Own(state[t]) /\ ptr[state[t]] = Address(t)
      /\ entries[Address(t)] = state[t] /\ Holds(t, state[t])
      /\ job[t].input \in 1 .. passed /\ job[t].input \in Inputs /\ Attached(job[t].input)
      /\ state[t] = job[t].input \/ Settled(job[t].input)
  BY <1>1, Working
<1>3. Freeing(state[t]) /\ Freed(state[t])
  <2>1. Freeing(state[t]) BY <1>1 DEF Freeing
  <2>2. QED BY <2>1, <1>2 DEF RInv, Blocks
<1>4. /\ pc'[t] \in {"idle", "range", "stop"}
      /\ \A u \in Threads : u # t => pc'[u] = pc[u] /\ result'[u] = result[u]
      /\ Job(t)'
  <2>1. Settled(job[t].input) BY <1>1, OkSettled
  <2>2. QED BY <2>1, <1>1, <1>2, Returned, ReturnJob DEF RInv
<1>5. /\ released'[state[t]]
      /\ \A j \in Inputs : j # state[t] => released'[j] = released[j] /\ lock'[j] = lock[j]
  BY <1>1, <1>2 DEF RInv, Typed, TypeOK
<1>6. ASSUME NEW j \in Inputs PROVE Own(j)' <=> Own(j)
  BY <1>1 DEF Own, Attached
<1>7. ASSUME NEW p \in DOMAIN entries'
      PROVE  /\ p \in DOMAIN entries /\ entries'[p] = entries[p] /\ entries[p] # state[t]
             /\ entries[p] \in Inputs /\ Own(entries[p]) /\ ptr[entries[p]] = p /\ ~released[entries[p]]
  <2>1. p \in DOMAIN entries /\ p # Address(t) /\ entries'[p] = entries[p] BY <1>1
  <2>2. entries[p] \in Inputs /\ Own(entries[p]) /\ ptr[entries[p]] = p /\ ~released[entries[p]]
    BY <2>1, Bounds DEF RInv, Typed, TypeOK, Table
  <2>3. QED BY <2>1, <2>2, <1>2
<1>8. ASSUME NEW j \in Inputs, j # state[t], Freeing(j) PROVE Freeing(j)'
  BY <1>8, <1>1, <1>4 DEF Freeing
<1>9. Table'
  <2>1. ASSUME NEW i \in joined' PROVE i \in 1 .. passed' /\ Attached(i)'
    BY <1>1 DEF RInv, Table, Attached
  <2>2. ASSUME NEW p \in DOMAIN entries'
        PROVE  Own(entries[p])' /\ ptr'[entries'[p]] = p /\ ~released'[entries'[p]]
    <3>1. Own(entries[p])' BY <1>1, <1>7 DEF Own, Attached
    <3>2. QED BY <3>1, <1>1, <1>5, <1>7
  <2>3. ASSUME NEW j \in Inputs, Own(j)', ~released'[j]
        PROVE  ptr'[j] \in DOMAIN entries' /\ entries'[ptr'[j]] = j
    <3>1. j # state[t] /\ Own(j) /\ ~released[j] BY <2>3, <1>5, <1>6
    <3>2. ptr[j] \in DOMAIN entries /\ entries[ptr[j]] = j BY <3>1 DEF RInv, Table
    <3>3. ptr[j] # Address(t) BY <3>1, <3>2, <1>2
    <3>4. QED BY <3>2, <3>3, <1>1
  <2>4. QED BY <2>1, <2>2, <2>3 DEF Table
<1>10. Blocks'
  <2>1. ASSUME NEW p \in DOMAIN entries', memory'[p] = None PROVE Freeing(entries[p])'
    <3>1. Freeing(entries[p]) BY <2>1, <1>1, <1>7 DEF RInv, Blocks
    <3>2. QED BY <3>1, <1>1, <1>4, <1>7 DEF Freeing
  <2>2. ASSUME NEW i \in Inputs, wrapper'[i] = "passed"
        PROVE  memory'[ptr'[i]] = i /\ (ptr'[i] \in DOMAIN entries' => Freeing(entries[ptr[i]])')
    <3>1. memory[ptr[i]] = i /\ (ptr[i] \in DOMAIN entries => Freeing(entries[ptr[i]]))
      BY <2>2, <1>1 DEF RInv, Blocks
    <3>2. ASSUME ptr'[i] \in DOMAIN entries' PROVE Freeing(entries[ptr[i]])'
      <4>1. ptr[i] \in DOMAIN entries /\ entries'[ptr[i]] = entries[ptr[i]] /\ entries[ptr[i]] # state[t]
        BY <3>2, <1>1, <1>7
      <4>2. QED BY <3>1, <4>1, <1>1, <1>4 DEF Freeing
    <3>3. QED BY <3>1, <3>2, <1>1
  <2>3. ASSUME NEW i \in Inputs, released'[i] \/ Freeing(i)' PROVE Freed(i)'
    <3>1. i = state[t] \/ released[i] \/ Freeing(i)
      BY <2>3, <1>1, <1>4, <1>5 DEF Freeing
    <3>2. Freed(i) BY <3>1, <1>3 DEF RInv, Blocks
    <3>3. QED BY <3>2, <1>1 DEF Freed
  <2>4. QED BY <2>1, <2>2, <2>3 DEF Blocks
<1>11. Mutex'
  <2>1. ASSUME NEW u \in Threads, NEW j \in Inputs, Holds(u, j)'
        PROVE  u # t /\ Holds(u, j) /\ j # state[t]
    <3>1. u # t /\ Holds(u, j) BY <2>1, <1>1, <1>4 DEF Holds
    <3>2. QED BY <3>1, <1>2 DEF RInv, Mutex
  <2>2. ASSUME NEW u \in Threads, NEW j \in Inputs, Holds(u, j)' PROVE lock'[j] /\ ~released'[j]
    BY <2>1, <2>2, <1>5 DEF RInv, Mutex
  <2>3. QED BY <2>1, <2>2 DEF RInv, Mutex
<1>12. \A u \in Threads : u # t => Job(u)'
  BY <1>1, <1>4, JobKept DEF RInv
<1>13. QED BY <1>4, <1>9, <1>10, <1>11, <1>12 DEF RInv

LEMMA StopCleanupKeeps == ASSUME RInv, Typed', Grows, NEW t \in Threads, StopCleanup(t) PROVE RInv'
<1>1. /\ pc[t] = "stop" /\ pc' = [pc EXCEPT ![t] = "idle"]
      /\ UNCHANGED <<memory, entries, released, lock, passed, ptr, joined, job, state, result>>
  BY DEF StopCleanup, tableVars, historyVars
<1>2. /\ job[t].input \in 1 .. passed /\ Attached(job[t].input) /\ Settled(job[t].input)
      /\ job[t].kind = "release" /\ result[t] = "ok"
  BY <1>1 DEF RInv, Job
<1>3. pc'[t] = "idle" /\ \A u \in Threads : u # t => pc'[u] = pc[u]
  BY <1>1 DEF RInv, Typed, TypeOK
<1>4. \A j \in Inputs : (Attached(j)' <=> Attached(j)) /\ (wrapper'[j] = "passed" <=> wrapper[j] = "passed")
  BY <1>2, StopTyped DEF RInv, Attached
<1>5. Job(t)' BY <1>1, <1>2, <1>3 DEF Job, Settled, Freed
<1>6. \A j \in Inputs : ~Holds(t, j)' BY <1>3 DEF Holds
<1>7. QED BY <1>1, <1>3, <1>4, <1>5, <1>6, Quiet

LEMMA StepRInv == RInv /\ [Next]_vars => RInv' /\ Typed' /\ (Grows \/ UNCHANGED vars)
<1> SUFFICES ASSUME RInv, [Next]_vars PROVE RInv' /\ Typed' /\ (Grows \/ UNCHANGED vars)
    OBVIOUS
<1>1. Typed' BY StepTyped DEF RInv
<1>2. CASE UNCHANGED vars
  <2>1. UNCHANGED <<memory, entries, released, lock, passed, ptr, wrapper, joined, pc, job, state, result>>
    BY <1>2 DEF vars, tableVars, inputVars, historyVars, threadVars
  <2>2. Table' BY <2>1, TableKept DEF RInv, Attached
  <2>3. Blocks' BY <2>1, BlocksKept DEF RInv
  <2>4. Mutex' BY <2>1 DEF RInv, Mutex, Holds
  <2>5. ASSUME NEW t \in Threads PROVE Job(t)'
    <3>1. Job(t) BY DEF RInv
    <3>2. QED BY <3>1, <2>1 DEF Job, Own, Attached, Settled, Freed, Address
  <2>6. QED BY <1>1, <1>2, <2>2, <2>3, <2>4, <2>5 DEF RInv
<1>3. CASE Next
  <2>1. Grows BY <1>3, NextGrows DEF RInv
  <2>2. RInv'
    BY <1>1, <1>3, <2>1, PassKeeps, AttachCleanupKeeps, DropKeeps, CallKeeps, RegistrationKeeps,
       LoadKeeps, LockKeeps, ReleaseCKeeps, MarkKeeps, ForgetKeeps, StopCleanupKeeps
       DEF Next, ThreadStep
  <2>3. QED BY <1>1, <2>1, <2>2
<1>4. QED BY <1>2, <1>3

-----------------------------------------------------------------------------
(* As long as no input was to be released twice: a release goes by an      *)
(* address that still has the owner it had when the release began.         *)
Active(t) == pc[t] \in {"load", "lock", "free", "mark", "recheck", "forget"}

Pristine ==
  /\ \A t \in Threads : Active(t) => begun[job[t].input] >= 1
  /\ \A t, u \in Threads : Active(t) /\ Active(u) /\ job[t].input = job[u].input => t = u
  /\ \A t \in Threads : Active(t) /\ pc[t] # "forget" => memory[Address(t)] = job[t].input
  /\ \A i \in 1 .. passed : begun[i] = 0 => memory[ptr[i]] = i

OInv == Once => Pristine

LEMMA InitOInv == Init => OInv
BY DEF Init, OInv, Pristine, Active, None

LEMMA ActiveJob ==
  ASSUME RInv, NEW t \in Threads, Active(t)
  PROVE  /\ job[t].input \in Inputs /\ job[t].input \in 1 .. passed /\ job[t].input # None
         /\ Attached(job[t].input) /\ Address(t) = ptr[job[t].input] /\ Address(t) \in Pointers
         /\ begun[job[t].input] \in Nat
<1>1. job[t].input \in 1 .. passed /\ Attached(job[t].input)
  BY DEF Active, RInv, Job
<1>2. job[t].input \in Inputs /\ job[t].input # None /\ ptr[job[t].input] \in Pointers
  BY <1>1, Bounds DEF RInv
<1>3. QED BY <1>1, <1>2 DEF Address, RInv, Typed, TypeOK

LEMMA OnceBefore ==
  ASSUME RInv, Grows, Typed', Once'
  PROVE  Once
<1> SUFFICES ASSUME NEW i \in Inputs PROVE begun[i] <= 1
    BY DEF Once
<1>1. begun[i] \in Nat /\ begun'[i] \in Nat BY DEF RInv, Typed, TypeOK
<1>2. begun[i] <= begun'[i] /\ begun'[i] <= 1 BY DEF Grows, Once
<1>3. QED BY <1>1, <1>2

(* A step that begins no release, frees nothing and allocates nothing. *)
LEMMA NoneBegun ==
  ASSUME RInv, Pristine, UNCHANGED <<begun, memory, passed, ptr>>,
         \A t \in Threads : Active(t)' => Active(t) /\ job'[t] = job[t],
         \A t \in Threads : pc[t] = "forget" /\ Active(t)' => pc'[t] = "forget"
  PROVE  Pristine'
<1>1. ASSUME NEW t \in Threads, Active(t)'
      PROVE  begun'[job'[t].input] >= 1 /\ (pc'[t] # "forget" => memory'[Address(t)'] = job'[t].input)
  BY <1>1 DEF Pristine, Address
<1>2. ASSUME NEW t \in Threads, NEW u \in Threads, Active(t)', Active(u)', job'[t].input = job'[u].input
      PROVE  t = u
  BY <1>2 DEF Pristine
<1>3. QED BY <1>1, <1>2 DEF Pristine

(* A release that begins while none of its input did before. *)
LEMMA OneBegun ==
  ASSUME RInv, Pristine, Once', NEW t \in Threads, NEW kind \in Kinds, NEW i \in 1 .. passed,
         Begin(t, kind, i), UNCHANGED <<memory, passed, ptr>>
  PROVE  Pristine'
<1>1. /\ pc'[t] = "load" /\ job'[t].input = i /\ i \in Inputs
      /\ \A j \in Inputs : begun'[j] = IF j = i THEN begun[j] + 1 ELSE begun[j]
      /\ \A u \in Threads : u # t => pc'[u] = pc[u] /\ job'[u] = job[u]
      /\ \A j \in Inputs : begun[j] \in Nat
  <2>1. Typed BY DEF RInv
  <2>2. i \in Inputs BY <2>1, Bounds
  <2>3. \A j \in Inputs : begun[j] \in Nat BY <2>1 DEF Typed, TypeOK
  <2>4. QED BY <2>1, <2>2, <2>3, Begun
<1>2. begun[i] = 0
  <2>1. begun'[i] <= 1 BY <1>1 DEF Once
  <2>2. begun'[i] = begun[i] + 1 /\ begun[i] \in Nat BY <1>1
  <2>3. QED BY <2>1, <2>2
<1>3. memory[ptr[i]] = i
  BY <1>2 DEF Pristine
<1>4. ASSUME NEW u \in Threads, u # t, Active(u)'
      PROVE  /\ Active(u) /\ job'[u] = job[u] /\ job[u].input # i /\ begun'[job[u].input] >= 1
             /\ pc'[u] # "forget" => memory'[Address(u)'] = job[u].input
  <2>1. Active(u) /\ job'[u] = job[u] /\ pc'[u] = pc[u] BY <1>1, <1>4 DEF Active
  <2>2. job[u].input \in Inputs /\ begun[job[u].input] >= 1 BY <2>1, ActiveJob DEF Pristine
  <2>3. job[u].input # i BY <2>2, <1>2
  <2>4. begun'[job[u].input] >= 1 BY <2>2, <2>3, <1>1
  <2>5. pc[u] # "forget" => memory[Address(u)] = job[u].input BY <2>1 DEF Pristine
  <2>6. QED BY <2>1, <2>3, <2>4, <2>5 DEF Address
<1>5. \A u \in Threads : Active(u)' => begun'[job'[u].input] >= 1
  BY <1>1, <1>2, <1>4
<1>6. \A u, v \in Threads : Active(u)' /\ Active(v)' /\ job'[u].input = job'[v].input => u = v
  BY <1>1, <1>4 DEF Pristine
<1>7. \A u \in Threads : Active(u)' /\ pc'[u] # "forget" => memory'[Address(u)'] = job'[u].input
  <2>1. memory'[Address(t)'] = i BY <1>1, <1>3 DEF Address
  <2>2. QED BY <2>1, <1>1, <1>4
<1>8. \A j \in 1 .. passed' : begun'[j] = 0 => memory'[ptr'[j]] = j
  <2>1. ASSUME NEW j \in 1 .. passed, begun'[j] = 0 PROVE memory[ptr[j]] = j
    <3>1. j \in Inputs BY Bounds DEF RInv
    <3>2. begun[j] = 0 BY <2>1, <3>1, <1>1
    <3>3. QED BY <3>2 DEF Pristine
  <2>2. QED BY <2>1
<1>9. QED BY <1>5, <1>6, <1>7, <1>8 DEF Pristine

LEMMA PassPristine == ASSUME RInv, Pristine, Pass PROVE Pristine'
<1>1. PICK p \in Pointers :
        /\ Free(p)
        /\ memory' = [memory EXCEPT ![p] = passed + 1]
        /\ ptr' = [i \in 1 .. passed + 1 |-> IF i = passed + 1 THEN p ELSE ptr[i]]
  BY DEF Pass
<1>2. /\ passed \in Nat /\ passed' = passed + 1 /\ UNCHANGED <<begun, pc, job>>
  BY Bounds DEF Pass, historyVars, threadVars, RInv
<1>3. /\ \A q \in Pointers : memory'[q] = IF q = p THEN passed + 1 ELSE memory[q]
      /\ ptr'[passed + 1] = p /\ \A i \in 1 .. passed : ptr'[i] = ptr[i] /\ i # passed + 1
  BY <1>1, <1>2 DEF RInv, Typed, TypeOK
<1>4. ASSUME NEW i \in 1 .. passed, memory[ptr[i]] = i PROVE memory'[ptr'[i]] = i
  <2>1. ptr[i] \in Pointers /\ i # None BY Bounds DEF RInv
  <2>2. ptr[i] # p BY <2>1, <1>1, <1>4 DEF Free
  <2>3. QED BY <2>1, <2>2, <1>3, <1>4
<1>5. ASSUME NEW t \in Threads, Active(t)', pc'[t] # "forget" PROVE memory'[Address(t)'] = job'[t].input
  <2>1. Active(t) /\ job'[t] = job[t] /\ pc[t] # "forget" BY <1>2, <1>5 DEF Active
  <2>2. job[t].input \in 1 .. passed BY <2>1, ActiveJob
  <2>3. memory[ptr[job[t].input]] = job[t].input BY <2>1 DEF Pristine, Address
  <2>4. memory'[ptr'[job[t].input]] = job[t].input BY <2>2, <2>3, <1>4
  <2>5. QED BY <2>1, <2>4 DEF Address
<1>6. \A t \in Threads : Active(t)' <=> Active(t)
  BY <1>2 DEF Active
<1>7. \A i \in 1 .. passed' : begun'[i] = 0 => memory'[ptr'[i]] = i
  <2>1. memory'[ptr'[passed + 1]] = passed + 1 BY <1>3
  <2>2. \A i \in 1 .. passed : begun[i] = 0 => memory'[ptr'[i]] = i
    BY <1>4 DEF Pristine
  <2>3. \A i \in 1 .. passed' : i = passed + 1 \/ i \in 1 .. passed BY <1>2
  <2>4. QED BY <2>1, <2>2, <2>3, <1>2
<1>8. QED BY <1>2, <1>5, <1>6, <1>7 DEF Pristine

LEMMA ReleaseCPristine == ASSUME RInv, Pristine, NEW t \in Threads, ReleaseC(t) PROVE Pristine'
<1>1. /\ pc[t] = "free"
      /\ UNCHANGED <<begun, passed, ptr, job>>
      /\ registered => memory' = [memory EXCEPT ![Address(t)] = None] /\ pc' = [pc EXCEPT ![t] = "forget"]
      /\ ~registered => memory' = memory /\ pc' = [pc EXCEPT ![t] = "mark"]
  BY DEF ReleaseC, inputVars, historyVars
<1>2. /\ pc'[t] = IF registered THEN "forget" ELSE "mark"
      /\ \A u \in Threads : u # t => pc'[u] = pc[u]
  BY <1>1 DEF RInv, Typed, TypeOK
<1>3. \A u \in Threads : Active(u)' <=> Active(u)
  BY <1>1, <1>2 DEF Active
<1>4. CASE ~registered
  BY <1>1, <1>2, <1>3, <1>4, NoneBegun
<1>5. CASE registered
  <2>1. \A q \in Pointers : memory'[q] = IF q = Address(t) THEN None ELSE memory[q]
    BY <1>1, <1>5 DEF RInv, Typed, TypeOK
  <2>2. Active(t) /\ memory[Address(t)] = job[t].input /\ begun[job[t].input] >= 1
    BY <1>1 DEF Active, Pristine
  <2>3. ASSUME NEW u \in Threads, Active(u)', pc'[u] # "forget"
        PROVE  memory'[Address(u)'] = job'[u].input
    <3>1. u # t /\ Active(u) /\ pc[u] # "forget" BY <2>3, <1>2, <1>3, <1>5
    <3>2. memory[Address(u)] = job[u].input /\ Address(u) \in Pointers BY <3>1, ActiveJob DEF Pristine
    <3>3. job[u].input # job[t].input BY <3>1, <2>2 DEF Pristine
    <3>4. Address(u) # Address(t) BY <3>2, <3>3, <2>2
    <3>5. memory'[Address(u)] = job[u].input BY <3>2, <3>4, <2>1
    <3>6. QED BY <3>5, <1>1 DEF Address
  <2>4. ASSUME NEW i \in 1 .. passed', begun'[i] = 0 PROVE memory'[ptr'[i]] = i
    <3>1. i \in 1 .. passed /\ memory[ptr[i]] = i /\ ptr[i] \in Pointers
      BY <2>4, <1>1, Bounds DEF Pristine, RInv
    <3>2. ptr[i] # Address(t) BY <3>1, <2>2, <2>4, <1>1
    <3>3. QED BY <3>1, <3>2, <2>1, <1>1
  <2>5. QED BY <2>3, <2>4, <1>1, <1>3 DEF Pristine
<1>6. QED BY <1>4, <1>5

LEMMA StepOInv == ASSUME RInv, OInv, Next, Grows, Typed' PROVE OInv'
<1> SUFFICES ASSUME Once' PROVE Pristine'
    BY DEF OInv
<1>1. Pristine
  BY OnceBefore DEF OInv
<1>2. CASE Pass BY <1>1, <1>2, PassPristine
<1>3. ASSUME NEW i \in Inputs, AttachCleanup(i) \/ Drop(i) PROVE Pristine'
  <2>1. UNCHANGED <<begun, memory, passed, ptr, pc, job>>
    BY <1>3 DEF AttachCleanup, Drop, tableVars, historyVars, threadVars
  <2>2. QED BY <1>1, <2>1, NoneBegun DEF Active
<1>4. ASSUME NEW t \in Threads, NEW i \in Inputs, Release(t, i) \/ Cleanup(t, i) PROVE Pristine'
  <2>1. /\ i \in 1 .. passed /\ UNCHANGED <<memory, passed, ptr>>
        /\ Begin(t, "release", i) \/ Begin(t, "cleanup", i)
    BY <1>4, Bounds DEF Release, Cleanup, tableVars, RInv
  <2>2. QED BY <1>1, <2>1, OneBegun DEF Kinds
<1>5. ASSUME NEW t \in Threads, RegisterFreeCallback(t) \/ RetryEnds(t) \/ StopCleanup(t) PROVE Pristine'
  <2>1. UNCHANGED <<begun, memory, passed, ptr, job>>
    BY <1>5 DEF RegisterFreeCallback, RetryEnds, StopCleanup, tableVars, inputVars, historyVars
  <2>2. \/ pc' = [pc EXCEPT ![t] = "range"]
        \/ pc' = [pc EXCEPT ![t] = "idle"]
    BY <1>5 DEF RegisterFreeCallback, RetryEnds, StopCleanup
  <2>3. pc'[t] \in {"range", "idle"} /\ \A u \in Threads : u # t => pc'[u] = pc[u]
    BY <2>2 DEF RInv, Typed, TypeOK
  <2>4. \A u \in Threads : Active(u)' => Active(u) /\ pc'[u] = pc[u]
    BY <2>3 DEF Active
  <2>5. QED BY <1>1, <2>1, <2>4, NoneBegun
<1>6. ASSUME NEW t \in Threads, NEW p \in range[t], Retry(t, p) PROVE Pristine'
  <2>1. UNCHANGED <<memory, passed, ptr>>
    BY <1>6 DEF Retry, tableVars, inputVars
  <2>2. CASE p \in DOMAIN entries /\ retryPending[entries[p]]
    <3>1. entries[p] \in 1 .. passed /\ "retry" \in Kinds BY <2>2 DEF RInv, Typed, TypeOK, Kinds
    <3>2. QED BY <1>1, <1>6, <2>1, <2>2, <3>1, OneBegun DEF Retry
  <2>3. CASE ~(p \in DOMAIN entries /\ retryPending[entries[p]])
    <3>1. UNCHANGED <<pc, job, begun>> BY <1>6, <2>3 DEF Retry
    <3>2. QED BY <1>1, <2>1, <3>1, NoneBegun DEF Active
  <2>4. QED BY <2>2, <2>3
<1>7. ASSUME NEW t \in Threads, Load(t) \/ Lock(t) \/ MarkRetry(t) \/ Recheck(t) \/ Forget(t) PROVE Pristine'
  <2>1. UNCHANGED <<begun, memory, passed, ptr, job>> /\ Active(t)
    BY <1>7 DEF Load, Lock, MarkRetry, Recheck, Forget, tableVars, inputVars, historyVars, Active
  <2>2. \/ \E r \in {"ok", "error"} : Return(t, r)
        \/ /\ pc[t] # "forget"
           /\ \E s \in {"lock", "free", "recheck"} : pc' = [pc EXCEPT ![t] = s]
    BY <1>7 DEF Load, Lock, MarkRetry, Recheck, Forget
  <2>3. \A u \in Threads : u # t => pc'[u] = pc[u]
    <3>1. ASSUME NEW r \in {"ok", "error"}, Return(t, r) PROVE \A u \in Threads : u # t => pc'[u] = pc[u]
      BY <3>1, Returned DEF RInv
    <3>2. QED BY <2>2, <3>1 DEF RInv, Typed, TypeOK
  <2>4. pc[t] = "forget" => ~Active(t)'
    BY <2>2, Returned DEF RInv, Active
  <2>5. QED BY <1>1, <2>1, <2>3, <2>4, NoneBegun DEF Active
<1>8. ASSUME NEW t \in Threads, ReleaseC(t) PROVE Pristine'
  BY <1>1, <1>8, ReleaseCPristine
<1>9. QED BY <1>2, <1>3, <1>4, <1>5, <1>6, <1>7, <1>8 DEF Next, ThreadStep

(* Every call of the callback is for an allocated block, and for the block *)
(* of the input being released as long as no input was to be released      *)
(* twice.                                                                  *)
THEOREM FreesItsOwnHolds == Spec => []FreesItsOwn
<1>1. Init => RInv /\ OInv
  BY InitRInv, InitOInv
<1>2. RInv /\ OInv /\ [Next]_vars => RInv' /\ OInv'
  <2> SUFFICES ASSUME RInv, OInv, [Next]_vars PROVE RInv' /\ OInv'
      OBVIOUS
  <2>1. RInv' /\ Typed' BY StepRInv
  <2>2. CASE UNCHANGED vars
    <3>1. UNCHANGED <<begun, memory, passed, ptr, pc, job>>
      BY <2>2 DEF vars, tableVars, inputVars, historyVars, threadVars
    <3>2. OInv' BY <3>1, NoneBegun DEF OInv, Once, Active
    <3>3. QED BY <2>1, <3>2
  <2>3. CASE Next BY <2>1, <2>3, NextGrows, StepOInv DEF RInv
  <2>4. QED BY <2>2, <2>3
<1>3. RInv /\ OInv => FreesItsOwn
  <2> SUFFICES ASSUME RInv, OInv, NEW t \in Threads, pc[t] = "free", registered
               PROVE  memory[Address(t)] # None /\ (Once => memory[Address(t)] = job[t].input)
      BY DEF FreesItsOwn
  <2>1. memory[Address(t)] # None
    <3>1. /\ Address(t) \in DOMAIN entries /\ entries[Address(t)] = state[t]
          /\ state[t] \in Inputs /\ Holds(t, state[t])
      BY Working
    <3>2. ~Freeing(state[t]) BY <3>1 DEF Freeing, Holds, RInv, Mutex
    <3>3. QED BY <3>1, <3>2 DEF RInv, Blocks
  <2>2. Once => memory[Address(t)] = job[t].input
    BY DEF OInv, Pristine, Active
  <2>3. QED BY <2>1, <2>2
<1>4. QED BY <1>1, <1>2, <1>3, PTL DEF Spec

(* A Release that returned nil has freed its input, unless the input       *)
(* joined the state of another one.                                        *)
THEOREM OwnStateFreesHolds == Spec => []OwnStateFrees
<1>1. RInv /\ [Next]_vars => RInv'
  BY StepRInv
<1>2. RInv => OwnStateFrees
  <2> SUFFICES ASSUME RInv, NEW t \in Threads, Succeeded(t), job[t].input \notin joined
               PROVE  Freed(job[t].input)
      BY DEF OwnStateFrees
  <2>1. Job(t) BY DEF RInv
  <2>2. QED BY <2>1 DEF Job, Succeeded, Settled
<1>3. QED BY <1>1, <1>2, InitRInv, PTL DEF Spec

-----------------------------------------------------------------------------
(* Nothing is freed without a callback, so until one is registered every   *)
(* block stands at an address of its own; what a failed release marks is   *)
(* the state of its input.                                                 *)
Marks ==
  /\ ~registered => \A i \in 1 .. passed : memory[ptr[i]] = i
  /\ \A t \in Threads : pc[t] \in {"mark", "recheck"} => job[t].input = state[t]
  /\ \A t \in Threads : pc[t] = "recheck" => retryPending[state[t]]
  /\ \A i \in Inputs : retryPending[i] => Own(i)
  /\ \A i \in Inputs : wrapper[i] = "stopped" => i \in 1 .. passed /\ Settled(i)

Remembered(i) ==
  ~Freed(i) =>
    /\ registered /\ retryPending[i] => InHand(i) \/ RetryAhead(i)
    /\ wrapper[i] = "collected" /\ i \notin joined => InHand(i) \/ retryPending[i]

FInv == Marks /\ \A i \in 1 .. passed : Remembered(i)

LEMMA InitFInv == Init => FInv
BY DEF Init, FInv, Marks, Remembered, Inputs

(* The marks after a step that begins or ends nothing. *)
LEMMA MarksKept ==
  ASSUME RInv, Marks, Grows,
         ~registered' => ~registered /\ UNCHANGED <<memory, passed, ptr>>,
         \A t \in Threads : pc'[t] \in {"mark", "recheck"} =>
           (pc[t] \in {"mark", "recheck"} \/ job[t].input = state[t])
             /\ job'[t] = job[t] /\ state'[t] = state[t],
         \A t \in Threads : pc'[t] = "recheck" => retryPending'[state[t]],
         \A i \in Inputs : retryPending'[i] => retryPending[i] \/ Own(i),
         \A i \in Inputs : wrapper'[i] = "stopped" =>
           wrapper[i] = "stopped" \/ (i \in 1 .. passed /\ Settled(i))
  PROVE  Marks'
<1>1. ~registered' => \A i \in 1 .. passed' : memory'[ptr'[i]] = i
  BY DEF Marks
<1>2. \A t \in Threads : pc'[t] \in {"mark", "recheck"} => job'[t].input = state'[t]
  BY DEF Marks
<1>3. \A t \in Threads : pc'[t] = "recheck" => retryPending'[state'[t]]
  OBVIOUS
<1>4. ASSUME NEW i \in Inputs, retryPending'[i] PROVE Own(i)'
  <2>1. Own(i) BY <1>4 DEF Marks
  <2>2. i \in 1 .. passed BY <2>1 DEF Own
  <2>3. QED BY <2>1, <2>2 DEF Grows
<1>5. ASSUME NEW i \in Inputs, wrapper'[i] = "stopped" PROVE i \in 1 .. passed' /\ Settled(i)'
  <2>1. i \in 1 .. passed /\ Settled(i) BY <1>5 DEF Marks
  <2>2. QED BY <2>1 DEF Grows
<1>6. QED BY <1>1, <1>2, <1>3, <1>4, <1>5 DEF Marks

(* An input stays in hand, and ahead of the registration, whatever another *)
(* thread does.                                                            *)
LEMMA OthersStay ==
  ASSUME NEW t \in Threads, NEW i, ptr'[i] = ptr[i],
         \A u \in Threads : u # t => pc'[u] = pc[u] /\ job'[u] = job[u] /\ range'[u] = range[u]
  PROVE  /\ \A u \in Threads : u # t /\ job[u].input = i
              /\ pc[u] \in {"load", "lock", "free", "mark", "recheck", "forget"} => InHand(i)'
         /\ \A u \in Threads : u # t /\ ptr[i] \in range[u]
              /\ (pc[u] = "range" \/ (pc[u] # "idle" /\ job[u].kind = "retry")) => RetryAhead(i)'
BY DEF InHand, RetryAhead

(* A step of a thread whose call goes on. *)
LEMMA GoesOn ==
  ASSUME NEW t \in Threads, NEW i, ptr'[i] = ptr[i], UNCHANGED <<job, range>>,
         \A u \in Threads : u # t => pc'[u] = pc[u],
         Active(t), Active(t)'
  PROVE  (InHand(i) => InHand(i)') /\ (RetryAhead(i) => RetryAhead(i)')
BY DEF InHand, RetryAhead, Active

LEMMA UnfreedBefore ==
  ASSUME Grows, NEW i \in 1 .. passed, ~Freed(i)'
  PROVE  ~Freed(i)
BY DEF Grows

LEMMA PassRemembers == ASSUME RInv, FInv, Typed', Grows, Pass PROVE FInv'
<1>1. PICK p \in Pointers :
        /\ Free(p)
        /\ memory' = [memory EXCEPT ![p] = passed + 1]
        /\ ptr' = [i \in 1 .. passed + 1 |-> IF i = passed + 1 THEN p ELSE ptr[i]]
  BY DEF Pass
<1>2. /\ passed \in Nat /\ passed + 1 \in Inputs /\ passed' = passed + 1
      /\ wrapper' = [wrapper EXCEPT ![passed + 1] = "passed"]
      /\ UNCHANGED <<registered, retryPending, joined, pc, job, state, range>>
  BY Bounds, ReleaseAssumption DEF Pass, historyVars, threadVars, RInv, Inputs
<1>3. /\ \A q \in Pointers : memory'[q] = IF q = p THEN passed + 1 ELSE memory[q]
      /\ ptr'[passed + 1] = p /\ \A i \in 1 .. passed : ptr'[i] = ptr[i] /\ i # passed + 1
      /\ \A i \in Inputs : wrapper'[i] = IF i = passed + 1 THEN "passed" ELSE wrapper[i]
      /\ \A i \in 1 .. passed' : i = passed + 1 \/ i \in 1 .. passed
  BY <1>1, <1>2 DEF RInv, Typed, TypeOK
<1>4. ASSUME ~registered', NEW i \in 1 .. passed' PROVE memory'[ptr'[i]] = i
  <2>1. CASE i = passed + 1 BY <2>1, <1>3
  <2>2. CASE i # passed + 1
    <3>1. i \in 1 .. passed /\ ptr[i] \in Pointers /\ i # None /\ memory[ptr[i]] = i
      BY <1>2, <1>3, <1>4, <2>2, Bounds DEF FInv, Marks, RInv
    <3>2. ptr[i] # p BY <3>1, <1>1 DEF Free
    <3>3. QED BY <3>1, <3>2, <1>3
  <2>3. QED BY <2>1, <2>2
<1>5. ASSUME NEW i \in Inputs, retryPending[i] PROVE i \in 1 .. passed /\ Own(i)'
  <2>1. Own(i) BY <1>5 DEF FInv, Marks
  <2>2. i \in 1 .. passed BY <2>1 DEF Own
  <2>3. QED BY <2>1, <2>2 DEF Grows
<1>6. ASSUME NEW i \in Inputs, wrapper'[i] = "stopped" PROVE i \in 1 .. passed' /\ Settled(i)'
  <2>1. i \in 1 .. passed /\ Settled(i) BY <1>6, <1>3 DEF FInv, Marks
  <2>2. QED BY <2>1 DEF Grows
<1>7. Marks'
  <2>1. \A i \in Inputs : retryPending'[i] => Own(i)' BY <1>2, <1>5
  <2>2. /\ \A t \in Threads : pc'[t] \in {"mark", "recheck"} => job'[t].input = state'[t]
        /\ \A t \in Threads : pc'[t] = "recheck" => retryPending'[state'[t]]
    BY <1>2 DEF FInv, Marks
  <2>3. QED BY <2>1, <2>2, <1>4, <1>6 DEF Marks
<1>8. ASSUME NEW i \in 1 .. passed' PROVE Remembered(i)'
  <2>1. CASE i = passed + 1
    <3>1. ~retryPending'[i] BY <2>1, <1>2, <1>3, <1>5
    <3>2. wrapper'[i] = "passed" BY <2>1, <1>2, <1>3
    <3>3. QED BY <3>1, <3>2 DEF Remembered
  <2>2. CASE i # passed + 1
    <3>1. i \in 1 .. passed /\ i \in Inputs /\ ptr'[i] = ptr[i] /\ wrapper'[i] = wrapper[i]
      BY <2>2, <1>2, <1>3, Bounds DEF RInv
    <3>2. Remembered(i) BY <3>1 DEF FInv
    <3>3. ~Freed(i)' => ~Freed(i) BY <3>1, UnfreedBefore
    <3>4. (InHand(i) => InHand(i)') /\ (RetryAhead(i) => RetryAhead(i)')
      BY <3>1, <1>2 DEF InHand, RetryAhead
    <3>5. QED BY <3>1, <3>2, <3>3, <3>4, <1>2 DEF Remembered
  <2>3. QED BY <2>1, <2>2
<1>9. QED BY <1>7, <1>8 DEF FInv

LEMMA WrapperRemembers ==
  ASSUME RInv, FInv, Typed', Grows, NEW i \in Inputs, AttachCleanup(i) \/ Drop(i)
  PROVE  FInv'
<1>1. UNCHANGED <<registered, memory, retryPending, passed, ptr, pc, job, state, range>>
  BY DEF AttachCleanup, Drop, tableVars, historyVars, threadVars
<1>2. joined \subseteq joined'
  BY DEF AttachCleanup, Drop, historyVars
<1>3. \A j \in Inputs : /\ wrapper'[j] = "stopped" => wrapper[j] = "stopped"
                        /\ wrapper'[j] = "collected" => wrapper[j] \in {"stopped", "collected"}
  BY DEF AttachCleanup, Drop, RInv, Typed, TypeOK
<1>4. Marks'
  BY <1>1, <1>3, MarksKept DEF FInv, Marks
<1>5. ASSUME NEW j \in 1 .. passed' PROVE Remembered(j)'
  <2>1. j \in 1 .. passed /\ j \in Inputs BY <1>1, Bounds DEF RInv
  <2>2. Remembered(j) /\ (wrapper[j] = "stopped" => Settled(j)) BY <2>1 DEF FInv, Marks
  <2>3. (InHand(j)' <=> InHand(j)) /\ (RetryAhead(j)' <=> RetryAhead(j)) /\ (Freed(j)' <=> Freed(j))
    BY <1>1 DEF InHand, RetryAhead, Freed
  <2>4. wrapper[j] = "stopped" => j \in joined' \/ Freed(j) BY <2>2, <1>2 DEF Settled
  <2>5. QED BY <2>1, <2>2, <2>3, <2>4, <1>1, <1>2, <1>3 DEF Remembered
<1>6. QED BY <1>4, <1>5 DEF FInv

LEMMA CallRemembers ==
  ASSUME RInv, FInv, Typed', Grows, NEW t \in Threads, NEW i \in Inputs, Release(t, i) \/ Cleanup(t, i)
  PROVE  FInv'
<1>1. /\ pc[t] = "idle"
      /\ Begin(t, "release", i) \/ Begin(t, "cleanup", i)
      /\ wrapper[i] \in {"live", "stopped", "dropped"}
      /\ UNCHANGED <<registered, memory, retryPending, passed, ptr, joined, state, range>>
  BY DEF Release, Cleanup, tableVars
<1>2. i \in 1 .. passed
  BY <1>1, Bounds DEF RInv
<1>3. /\ pc'[t] = "load" /\ job'[t].input = i
      /\ \A u \in Threads : u # t => pc'[u] = pc[u] /\ job'[u] = job[u]
  BY <1>1, <1>2, Begun DEF RInv, Kinds
<1>4. \A j \in Inputs : /\ wrapper'[j] = "stopped" => wrapper[j] = "stopped"
                        /\ wrapper'[j] = "collected" => j = i \/ wrapper[j] = "collected"
  BY DEF Release, Cleanup, RInv, Typed, TypeOK
<1>5. Marks'
  <2>1. \A u \in Threads : pc'[u] \in {"mark", "recheck"} => u # t /\ pc'[u] = pc[u] /\ job'[u] = job[u]
    BY <1>3
  <2>2. QED BY <2>1, <1>1, <1>4, MarksKept DEF FInv, Marks
<1>6. ASSUME NEW j \in 1 .. passed' PROVE Remembered(j)'
  <2>1. j \in 1 .. passed /\ j \in Inputs BY <1>1, Bounds DEF RInv
  <2>2. Remembered(j) BY <2>1 DEF FInv
  <2>3. InHand(j) => InHand(j)' BY <1>1, <1>3 DEF InHand
  <2>4. RetryAhead(j) => RetryAhead(j)' BY <1>1, <1>3 DEF RetryAhead
  <2>5. j = i => InHand(j)' BY <1>3 DEF InHand
  <2>6. Freed(j)' <=> Freed(j) BY <1>1 DEF Freed
  <2>7. QED BY <2>1, <2>2, <2>3, <2>4, <2>5, <2>6, <1>1, <1>4 DEF Remembered
<1>7. QED BY <1>5, <1>6 DEF FInv

(* An input that is not freed and marked for a retry has its entry. *)
LEMMA MarkedHasEntry ==
  ASSUME RInv, FInv, NEW i \in Inputs, retryPending[i], ~Freed(i)
  PROVE  ptr[i] \in DOMAIN entries /\ entries[ptr[i]] = i
BY DEF FInv, Marks, RInv, Blocks, Table

LEMMA RegistrationRemembers ==
  ASSUME RInv, FInv, Typed', Grows, NEW t \in Threads,
         RegisterFreeCallback(t) \/ RetryEnds(t) \/ (\E p \in range[t] : Retry(t, p))
  PROVE  FInv'
<1>1. /\ pc[t] \in {"idle", "range"}
      /\ UNCHANGED <<memory, entries, retryPending, passed, ptr, wrapper, joined, state>>
      /\ registered => registered'
  BY DEF RegisterFreeCallback, RetryEnds, Retry, tableVars, inputVars, historyVars
<1>2. /\ pc'[t] \in {"idle", "range", "load"}
      /\ \A u \in Threads : u # t => pc'[u] = pc[u] /\ job'[u] = job[u] /\ range'[u] = range[u]
  <2>1. CASE RegisterFreeCallback(t) \/ RetryEnds(t)
    BY <2>1 DEF RegisterFreeCallback, RetryEnds, RInv, Typed, TypeOK
  <2>2. ASSUME NEW p \in range[t], Retry(t, p)
        PROVE  /\ pc'[t] \in {"idle", "range", "load"}
               /\ \A u \in Threads : u # t => pc'[u] = pc[u] /\ job'[u] = job[u] /\ range'[u] = range[u]
    <3>1. \A u \in Threads : u # t => range'[u] = range[u]
      BY <2>2 DEF Retry, RInv, Typed, TypeOK
    <3>2. CASE p \in DOMAIN entries /\ retryPending[entries[p]]
      <4>1. entries[p] \in 1 .. passed /\ "retry" \in Kinds BY <3>2 DEF RInv, Typed, TypeOK, Kinds
      <4>2. QED BY <2>2, <3>1, <3>2, <4>1, Begun DEF Retry, RInv
    <3>3. CASE ~(p \in DOMAIN entries /\ retryPending[entries[p]])
      BY <2>2, <3>1, <3>3, <1>1 DEF Retry
    <3>4. QED BY <3>2, <3>3
  <2>3. QED BY <2>1, <2>2
<1>3. Marks'
  <2>1. \A u \in Threads : pc'[u] \in {"mark", "recheck"} => u # t /\ pc'[u] = pc[u] /\ job'[u] = job[u]
    BY <1>2
  <2>2. ~registered' => ~registered /\ UNCHANGED <<memory, passed, ptr>> BY <1>1
  <2>3. QED BY <2>1, <2>2, <1>1, MarksKept DEF FInv, Marks
<1>4. ASSUME NEW i \in 1 .. passed' PROVE Remembered(i)'
  <2>1. i \in 1 .. passed /\ i \in Inputs /\ ptr'[i] = ptr[i] BY <1>1, Bounds DEF RInv
  <2>2. Remembered(i) BY <2>1 DEF FInv
  <2>3. Freed(i)' <=> Freed(i) BY <1>1 DEF Freed
  <2>4. InHand(i) => InHand(i)'
    BY <2>1, <1>1, <1>2, OthersStay DEF InHand
  <2>5. ASSUME ~Freed(i), registered', retryPending[i] PROVE InHand(i)' \/ RetryAhead(i)'
    <3>1. ptr[i] \in DOMAIN entries /\ entries[ptr[i]] = i BY <2>1, <2>5, MarkedHasEntry
    <3>2. CASE RegisterFreeCallback(t)
      <4>1. range'[t] = DOMAIN entries /\ pc'[t] = "range"
        BY <3>2 DEF RegisterFreeCallback, RInv, Typed, TypeOK
      <4>2. QED BY <3>1, <4>1, <1>1 DEF RetryAhead
    <3>3. CASE ~RegisterFreeCallback(t)
      <4>1. registered BY <2>5, <3>3 DEF RetryEnds, Retry, tableVars
      <4>2. InHand(i) \/ RetryAhead(i) BY <2>2, <2>5, <4>1 DEF Remembered
      <4>3. ASSUME RetryAhead(i) PROVE InHand(i)' \/ RetryAhead(i)'
        <5>1. PICK u \in Threads :
                ptr[i] \in range[u] /\ (pc[u] = "range" \/ (pc[u] # "idle" /\ job[u].kind = "retry"))
          BY <4>3 DEF RetryAhead
        <5>2. CASE u # t BY <5>1, <5>2, <2>1, <1>2, OthersStay
        <5>3. CASE u = t
          <6>1. PICK p \in range[t] : Retry(t, p) BY <3>3, <5>1, <5>3 DEF RetryEnds
          <6>2. /\ range'[t] = range[t] \ {p} /\ pc[t] = "range"
                /\ IF p \in DOMAIN entries /\ retryPending[entries[p]]
                     THEN Begin(t, "retry", entries[p])
                     ELSE UNCHANGED <<pc, job, begun>>
            BY <6>1 DEF Retry, RInv, Typed, TypeOK
          <6>3. ASSUME p \in DOMAIN entries, retryPending[entries[p]]
                PROVE  pc'[t] = "load" /\ job'[t].kind = "retry" /\ job'[t].input = entries[p]
            <7>1. entries[p] \in 1 .. passed /\ "retry" \in Kinds BY <6>3 DEF RInv, Typed, TypeOK, Kinds
            <7>2. QED BY <6>2, <6>3, <7>1, Begun DEF RInv
          <6>4. CASE p = ptr[i]
            <7>1. pc'[t] = "load" /\ job'[t].input = i BY <6>3, <6>4, <3>1, <2>5
            <7>2. QED BY <7>1 DEF InHand
          <6>5. CASE p # ptr[i]
            <7>1. ptr'[i] \in range'[t] BY <5>1, <5>3, <6>2, <6>5, <2>1
            <7>2. pc'[t] = "range" \/ (pc'[t] = "load" /\ job'[t].kind = "retry")
              BY <6>2, <6>3
            <7>3. QED BY <7>1, <7>2 DEF RetryAhead
          <6>6. QED BY <6>4, <6>5
        <5>4. QED BY <5>2, <5>3
      <4>4. QED BY <4>2, <4>3, <2>4
    <3>4. QED BY <3>2, <3>3
  <2>6. QED BY <2>2, <2>3, <2>4, <2>5, <1>1 DEF Remembered
<1>5. QED BY <1>3, <1>4 DEF FInv

LEMMA StopRemembers ==
  ASSUME RInv, FInv, Typed', Grows, NEW t \in Threads, StopCleanup(t)
  PROVE  FInv'
<1>1. /\ pc[t] = "stop" /\ pc' = [pc EXCEPT ![t] = "idle"]
      /\ UNCHANGED <<registered, memory, retryPending, passed, ptr, joined, job, state, range>>
  BY DEF StopCleanup, tableVars, historyVars
<1>2. /\ job[t].kind = "release" /\ job[t].input \in 1 .. passed /\ Settled(job[t].input)
      /\ pc'[t] = "idle" /\ \A u \in Threads : u # t => pc'[u] = pc[u]
  BY <1>1 DEF RInv, Job, Typed, TypeOK
<1>3. \A j \in Inputs : wrapper'[j] = IF j = job[t].input THEN "stopped" ELSE wrapper[j]
  BY StopTyped DEF RInv
<1>4. Marks'
  <2>1. \A u \in Threads : pc'[u] \in {"mark", "recheck"} => u # t /\ pc'[u] = pc[u] BY <1>2
  <2>2. QED BY <2>1, <1>1, <1>2, <1>3, MarksKept DEF FInv, Marks
<1>5. ASSUME NEW i \in 1 .. passed' PROVE Remembered(i)'
  <2>1. i \in 1 .. passed /\ i \in Inputs /\ ptr'[i] = ptr[i] BY <1>1, Bounds DEF RInv
  <2>2. Remembered(i) /\ (Freed(i)' <=> Freed(i)) BY <2>1, <1>1 DEF FInv, Freed
  <2>3. InHand(i) => InHand(i)' BY <1>1, <1>2 DEF InHand
  <2>4. RetryAhead(i) => RetryAhead(i)' BY <1>1, <1>2 DEF RetryAhead
  <2>5. wrapper'[i] = "collected" => wrapper[i] = "collected" BY <2>1, <1>3
  <2>6. QED BY <2>2, <2>3, <2>4, <2>5, <1>1 DEF Remembered
<1>6. QED BY <1>4, <1>5 DEF FInv

(* A call that goes on keeps its input in hand. *)
LEMMA WorkRemembers ==
  ASSUME RInv, FInv, Typed', Grows, Marks', NEW t \in Threads, Active(t), Active(t)',
         UNCHANGED <<registered, passed, ptr, wrapper, joined, job, range>>,
         \A u \in Threads : u # t => pc'[u] = pc[u],
         \A i \in Inputs : retryPending'[i] = retryPending[i] \/ (i = job[t].input /\ retryPending'[i])
  PROVE  FInv'
<1> SUFFICES ASSUME NEW i \in 1 .. passed' PROVE Remembered(i)'
    BY DEF FInv
<1>1. i \in 1 .. passed /\ i \in Inputs /\ ptr'[i] = ptr[i] BY Bounds DEF RInv
<1>2. Remembered(i) /\ (~Freed(i)' => ~Freed(i)) BY <1>1, UnfreedBefore DEF FInv
<1>3. (InHand(i) => InHand(i)') /\ (RetryAhead(i) => RetryAhead(i)') BY <1>1, GoesOn
<1>4. i = job[t].input => InHand(i)' BY DEF InHand, Active
<1>5. QED BY <1>1, <1>2, <1>3, <1>4 DEF Remembered

(* A call that is over: its input is settled, or marked for a callback     *)
(* that nobody has registered.                                             *)
LEMMA ReturnRemembers ==
  ASSUME RInv, FInv, Typed', Grows, NEW t \in Threads, NEW r \in {"ok", "error"}, Return(t, r),
         Active(t),
         Settled(job[t].input) \/ (~registered /\ retryPending'[job[t].input]),
         \A i \in Inputs : retryPending'[i] = retryPending[i] \/ (~retryPending'[i] /\ Freed(i)),
         \A u \in Threads : pc'[u] = "recheck" => retryPending'[state[u]],
         UNCHANGED <<registered, memory, passed, ptr, wrapper, joined, job, state, range>>
  PROVE  FInv'
<1>1. /\ job[t].input \in Inputs /\ job[t].input \in 1 .. passed
      /\ pc'[t] \in {"idle", "range", "stop"} /\ (job[t].kind = "retry" => pc'[t] = "range")
      /\ \A u \in Threads : u # t => pc'[u] = pc[u]
  BY ActiveJob, Returned DEF RInv
<1>2. Marks'
  <2>1. \A u \in Threads : pc'[u] \in {"mark", "recheck"} => pc[u] \in {"mark", "recheck"} BY <1>1
  <2>2. QED BY <2>1, MarksKept DEF FInv
<1>3. ASSUME NEW i \in 1 .. passed' PROVE Remembered(i)'
  <2>1. i \in 1 .. passed /\ i \in Inputs /\ ptr'[i] = ptr[i] BY Bounds DEF RInv
  <2>2. Remembered(i) /\ (Freed(i)' <=> Freed(i)) BY <2>1 DEF FInv, Freed
  <2>3. RetryAhead(i) => RetryAhead(i)'
    <3>1. ASSUME ptr[i] \in range[t], pc[t] = "range" \/ (pc[t] # "idle" /\ job[t].kind = "retry")
          PROVE  RetryAhead(i)'
      BY <3>1, <1>1 DEF RetryAhead, Active
    <3>2. QED BY <3>1, <2>1, <1>1, OthersStay DEF RetryAhead
  <2>4. CASE i # job[t].input
    <3>1. InHand(i) => InHand(i)' BY <2>4, <1>1 DEF InHand
    <3>2. QED BY <2>1, <2>2, <2>3, <3>1 DEF Remembered
  <2>5. CASE i = job[t].input
    <3>1. CASE Settled(i)
      <4>1. ~Freed(i) => i \in joined /\ ~retryPending[i]
        BY <3>1, <2>1 DEF Settled, FInv, Marks, Own
      <4>2. QED BY <4>1, <2>1, <2>2 DEF Remembered
    <3>2. CASE ~registered /\ retryPending'[i] BY <3>2 DEF Remembered
    <3>3. QED BY <3>1, <3>2, <2>5
  <2>6. QED BY <2>4, <2>5
<1>4. QED BY <1>2, <1>3 DEF FInv

LEMMA LookRemembers ==
  ASSUME RInv, FInv, Typed', Grows, NEW t \in Threads, Load(t) \/ Lock(t)
  PROVE  FInv'
<1>1. /\ pc[t] \in {"load", "lock"} /\ Active(t)
      /\ UNCHANGED <<registered, memory, retryPending, passed, ptr, wrapper, joined, job, range>>
  BY DEF Load, Lock, tableVars, inputVars, historyVars, Active
<1>2. CASE Return(t, "ok")
  <2>1. Settled(job[t].input) /\ UNCHANGED state
    <3>1. CASE Load(t)
      <4>1. pc[t] = "load" BY <3>1 DEF Load
      <4>2. pc'[t] # "lock" BY <1>2, Returned DEF RInv
      <4>3. Address(t) \notin DOMAIN entries \/ released[entries[Address(t)]]
        BY <3>1, <4>2 DEF Load, RInv, Typed, TypeOK
      <4>4. Settled(job[t].input) BY <4>1, <4>3, OkSettled
      <4>5. UNCHANGED state BY <3>1, <4>3 DEF Load
      <4>6. QED BY <4>4, <4>5
    <3>2. CASE Lock(t)
      <4>1. pc[t] = "lock" /\ UNCHANGED state BY <3>2 DEF Lock
      <4>2. pc'[t] # "free" BY <1>2, Returned DEF RInv
      <4>3. released[state[t]] BY <3>2, <4>2 DEF Lock, RInv, Typed, TypeOK
      <4>4. QED BY <4>1, <4>3, OkSettled
    <3>3. QED BY <3>1, <3>2
  <2>2. \A u \in Threads : pc'[u] = "recheck" => retryPending'[state[u]]
    <3>1. pc'[t] # "recheck" /\ \A u \in Threads : u # t => pc'[u] = pc[u]
      BY <1>2, Returned DEF RInv
    <3>2. QED BY <3>1, <1>1 DEF FInv, Marks
  <2>3. QED BY <1>1, <1>2, <2>1, <2>2, ReturnRemembers
<1>3. CASE ~Return(t, "ok")
  <2>1. /\ pc' = [pc EXCEPT ![t] = "lock"] \/ pc' = [pc EXCEPT ![t] = "free"]
        /\ \A u \in Threads : u # t => state'[u] = state[u]
    BY <1>3 DEF Load, Lock, RInv, Typed, TypeOK
  <2>2. pc'[t] \in {"lock", "free"} /\ \A u \in Threads : u # t => pc'[u] = pc[u]
    BY <2>1 DEF RInv, Typed, TypeOK
  <2>3. Marks'
    <3>1. \A u \in Threads : pc'[u] \in {"mark", "recheck"} =>
            u # t /\ pc[u] = pc'[u] /\ state'[u] = state[u]
      BY <2>1, <2>2
    <3>2. \A u \in Threads : pc'[u] = "recheck" => retryPending'[state[u]]
      BY <3>1, <1>1 DEF FInv, Marks
    <3>3. QED BY <3>1, <3>2, <1>1, MarksKept DEF FInv
  <2>4. Active(t)' BY <2>2 DEF Active
  <2>5. QED BY <1>1, <2>2, <2>3, <2>4, WorkRemembers
<1>4. QED BY <1>2, <1>3

LEMMA ReleaseCRemembers ==
  ASSUME RInv, FInv, Typed', Grows, NEW t \in Threads, ReleaseC(t)
  PROVE  FInv'
<1>1. /\ pc[t] = "free" /\ Active(t)
      /\ UNCHANGED <<registered, retryPending, passed, ptr, wrapper, joined, job, state, range>>
      /\ registered => pc' = [pc EXCEPT ![t] = "forget"]
      /\ ~registered => pc' = [pc EXCEPT ![t] = "mark"] /\ memory' = memory
  BY DEF ReleaseC, inputVars, historyVars, Active
<1>2. /\ pc'[t] = IF registered THEN "forget" ELSE "mark"
      /\ \A u \in Threads : u # t => pc'[u] = pc[u]
  BY <1>1 DEF RInv, Typed, TypeOK
<1>3. ~registered => job[t].input = state[t]
  <2>1. /\ state[t] \in 1 .. passed /\ job[t].input \in 1 .. passed
        /\ ptr[state[t]] = ptr[job[t].input]
    BY <1>1, Working DEF Address
  <2>2. ~registered => memory[ptr[state[t]]] = state[t] /\ memory[ptr[job[t].input]] = job[t].input
    BY <2>1 DEF FInv, Marks
  <2>3. QED BY <2>1, <2>2
<1>4. Marks'
  <2>1. \A u \in Threads : pc'[u] \in {"mark", "recheck"} =>
          pc[u] \in {"mark", "recheck"} \/ job[u].input = state[u]
    BY <1>2, <1>3
  <2>2. \A u \in Threads : pc'[u] = "recheck" => retryPending'[state[u]]
    BY <1>1, <1>2 DEF FInv, Marks
  <2>3. QED BY <2>1, <2>2, <1>1, MarksKept DEF FInv
<1>5. Active(t)' BY <1>2 DEF Active
<1>6. QED BY <1>1, <1>2, <1>4, <1>5, WorkRemembers

LEMMA MarkRemembers ==
  ASSUME RInv, FInv, Typed', Grows, NEW t \in Threads, MarkRetry(t) \/ Recheck(t)
  PROVE  FInv'
<1>1. /\ pc[t] \in {"mark", "recheck"} /\ Active(t)
      /\ UNCHANGED <<registered, memory, passed, ptr, wrapper, joined, job, state, range>>
  BY DEF MarkRetry, Recheck, inputVars, historyVars, Active
<1>2. state[t] \in Inputs /\ Own(state[t]) /\ job[t].input = state[t]
  BY <1>1, Working DEF FInv, Marks
<1>3. \A i \in Inputs : retryPending'[i] = retryPending[i] \/ (i = state[t] /\ retryPending'[i])
  BY DEF MarkRetry, Recheck, RInv, Typed, TypeOK
<1>4. CASE MarkRetry(t)
  <2>1. /\ pc'[t] = "recheck" /\ retryPending'[state[t]]
        /\ \A u \in Threads : u # t => pc'[u] = pc[u]
    BY <1>2, <1>4 DEF MarkRetry, RInv, Typed, TypeOK
  <2>2. ASSUME NEW u \in Threads, pc'[u] = "recheck" PROVE retryPending'[state[u]]
    <3>1. CASE u = t BY <3>1, <2>1
    <3>2. CASE u # t
      <4>1. pc[u] = "recheck" /\ state[u] \in Inputs BY <3>2, <2>1, <2>2, Working
      <4>2. retryPending[state[u]] BY <4>1 DEF FInv, Marks
      <4>3. QED BY <4>1, <4>2, <1>3
    <3>3. QED BY <3>1, <3>2
  <2>3. \A u \in Threads : pc'[u] \in {"mark", "recheck"} => pc[u] \in {"mark", "recheck"} BY <2>1, <1>1
  <2>4. \A i \in Inputs : retryPending'[i] => retryPending[i] \/ Own(i) BY <1>2, <1>3
  <2>5. Marks' BY <2>2, <2>3, <2>4, <1>1, MarksKept DEF FInv
  <2>6. Active(t)' BY <2>1 DEF Active
  <2>7. QED BY <1>1, <1>2, <1>3, <2>1, <2>5, <2>6, WorkRemembers
<1>5. CASE Recheck(t)
  <2>1. UNCHANGED retryPending /\ pc[t] = "recheck" /\ retryPending[state[t]]
    BY <1>5 DEF Recheck, FInv, Marks
  <2>2. CASE registered
    <3>1. pc'[t] = "free" /\ \A u \in Threads : u # t => pc'[u] = pc[u]
      BY <1>5, <2>2 DEF Recheck, RInv, Typed, TypeOK
    <3>2. Marks'
      <4>1. \A u \in Threads : pc'[u] \in {"mark", "recheck"} => pc[u] = pc'[u] BY <3>1
      <4>2. \A u \in Threads : pc'[u] = "recheck" => retryPending'[state[u]]
        BY <4>1, <2>1 DEF FInv, Marks
      <4>3. QED BY <4>1, <4>2, <1>1, <2>1, MarksKept DEF FInv
    <3>3. Active(t)' BY <3>1 DEF Active
    <3>4. QED BY <1>1, <2>1, <3>1, <3>2, <3>3, WorkRemembers
  <2>3. CASE ~registered
    <3>1. Return(t, "error") BY <1>5, <2>3 DEF Recheck
    <3>2. pc'[t] # "recheck" /\ \A u \in Threads : u # t => pc'[u] = pc[u]
      BY <3>1, Returned DEF RInv
    <3>3. \A u \in Threads : pc'[u] = "recheck" => retryPending'[state[u]]
      BY <3>2, <2>1 DEF FInv, Marks
    <3>4. QED BY <1>1, <1>2, <2>1, <2>3, <3>1, <3>3, ReturnRemembers
  <2>4. QED BY <2>2, <2>3
<1>6. QED BY <1>4, <1>5

LEMMA ForgetRemembers ==
  ASSUME RInv, FInv, Typed', Grows, NEW t \in Threads, Forget(t)
  PROVE  FInv'
<1>1. /\ pc[t] = "forget" /\ Active(t) /\ Return(t, "ok")
      /\ retryPending' = [retryPending EXCEPT ![state[t]] = FALSE]
      /\ UNCHANGED <<registered, memory, passed, ptr, wrapper, joined, job, state, range>>
  BY DEF Forget, inputVars, historyVars, Active
<1>2. /\ state[t] \in Inputs /\ Holds(t, state[t]) /\ Settled(job[t].input)
  BY <1>1, Working, OkSettled
<1>3. Freed(state[t])
  <2>1. Freeing(state[t]) BY <1>1 DEF Freeing
  <2>2. QED BY <2>1, <1>2 DEF RInv, Blocks
<1>4. \A i \in Inputs : retryPending'[i] = IF i = state[t] THEN FALSE ELSE retryPending[i]
  BY <1>1, <1>2 DEF RInv, Typed, TypeOK
<1>5. ASSUME NEW u \in Threads, pc'[u] = "recheck" PROVE retryPending'[state[u]]
  <2>1. u # t /\ pc[u] = "recheck" BY <1>5, <1>1, Returned DEF RInv
  <2>2. state[u] \in Inputs /\ Holds(u, state[u]) /\ retryPending[state[u]]
    BY <2>1, Working DEF FInv, Marks
  <2>3. state[u] # state[t] BY <2>1, <2>2, <1>2 DEF RInv, Mutex
  <2>4. QED BY <2>2, <2>3, <1>4
<1>6. QED BY <1>1, <1>2, <1>3, <1>4, <1>5, ReturnRemembers

LEMMA StepFInv == ASSUME RInv, FInv, Next, Typed', Grows PROVE FInv'
BY PassRemembers, WrapperRemembers, CallRemembers, RegistrationRemembers, StopRemembers,
   LookRemembers, ReleaseCRemembers, MarkRemembers, ForgetRemembers
   DEF Next, ThreadStep

(* Once a callback is registered no failed release is left behind, and an  *)
(* input whose wrapper was collected is freed, in hand, waits for a        *)
(* callback or joined the state of another one.                            *)
THEOREM NoInputForgottenHolds == Spec => []NoInputForgotten
<1>1. Init => RInv /\ FInv
  BY InitRInv, InitFInv
<1>2. RInv /\ FInv /\ [Next]_vars => RInv' /\ FInv'
  <2> SUFFICES ASSUME RInv, FInv, [Next]_vars PROVE RInv' /\ FInv'
      OBVIOUS
  <2>1. RInv' /\ Typed' BY StepRInv
  <2>2. CASE UNCHANGED vars
    <3>1. UNCHANGED <<registered, memory, retryPending, passed, ptr, wrapper, joined, pc, job, state, range>>
      BY <2>2 DEF vars, tableVars, inputVars, historyVars, threadVars
    <3>2. Marks' BY <3>1 DEF FInv, Marks, Own, Attached, Settled, Freed
    <3>3. \A i \in 1 .. passed' : Remembered(i)'
      BY <3>1 DEF FInv, Remembered, InHand, RetryAhead, Freed
    <3>4. QED BY <2>1, <3>2, <3>3 DEF FInv
  <2>3. CASE Next BY <2>1, <2>3, NextGrows, StepFInv DEF RInv
  <2>4. QED BY <2>2, <2>3
<1>3. FInv => NoInputForgotten
  BY DEF FInv, Remembered, NoInputForgotten
<1>4. QED BY <1>1, <1>2, <1>3, PTL DEF Spec

=============================================================================
