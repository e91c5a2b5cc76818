--------------------------- MODULE ErrorStoreProofs ---------------------------
(***************************************************************************)
(* Live errors have different ids and keep their records, for any number   *)
(* of threads, ids and errors.  The argument is about distances: two       *)
(* errors that are fewer than MaxId apart have different ids, and a live   *)
(* one is fewer than MaxId behind the newest.                              *)
(***************************************************************************)
EXTENDS ErrorStore, TLAPS

Storing == {"stamp", "store", "schedule"}
Taking == {"pin", "length"}

(* An error that is being stored belongs to one thread. *)
OwnsError ==
  /\ timers \subseteq issued
  /\ \A t \in Threads : pc[t] \in Storing =>
       /\ current[t] \in 1 .. stored /\ current[t] \notin issued
       /\ \A u \in Threads : pc[u] \in Storing /\ current[u] = current[t] => u = t

(* The sequence is at the newest error, and goes round. *)
Sequence ==
  /\ stored = 0 => errorSeq = 0
  /\ stored > 0 => errorSeq = idOf[stored]

IdsApart ==
  \A e, f \in 1 .. stored :
    e <= f /\ f < e + MaxId =>
      idOf[f] + e = idOf[e] + f \/ idOf[f] + MaxId + e = idOf[e] + f

LiveIsRecent == \A e \in 1 .. stored : Live(e) => stored < e + MaxId

(* The timer of an error fires when its record has expired, not before. *)
TimersRun == \A e \in issued : left[e] <= due[e] /\ (due[e] > 0 => e \in timers)

(* A record is stored under the id of its error. *)
Indexed == \A id \in DOMAIN records : idOf[records[id]] = id

(* Who takes a text holds the mutex, and the record stays meanwhile. *)
TakesUnderMutex ==
  \A t \in Threads : pc[t] \in Taking =>
    /\ mutex = t
    /\ current[t] \in 1 .. stored
    /\ idOf[current[t]] \in DOMAIN records /\ records[idOf[current[t]]] = current[t]

(* The record is there from the moment it was stored. *)
Kept ==
  \A e \in 1 .. stored :
    /\ e \in issued \/ \E t \in Threads : pc[t] = "schedule" /\ current[t] = e
    /\ left[e] > 0 /\ takes[e] = 0
    => idOf[e] \in DOMAIN records /\ records[idOf[e]] = e

IInv ==
  /\ TypeOK
  /\ OwnsError
  /\ Sequence
  /\ IdsApart
  /\ LiveIsRecent
  /\ TimersRun
  /\ Indexed
  /\ TakesUnderMutex
  /\ Kept

-----------------------------------------------------------------------------
LEMMA InitIInv == Init => IInv
<1> SUFFICES ASSUME Init PROVE IInv
  OBVIOUS
<1> USE ErrorsAssumption, FreeAssumption DEF Init, Errors, Ids, None
<1>1. TypeOK
  BY DEF TypeOK
<1>2. OwnsError /\ Sequence /\ IdsApart /\ LiveIsRecent
  BY DEF OwnsError, Sequence, IdsApart, LiveIsRecent, Storing
<1>3. TimersRun /\ Indexed /\ TakesUnderMutex /\ Kept
  BY DEF TimersRun, Indexed, TakesUnderMutex, Kept, Taking
<1> QED BY <1>1, <1>2, <1>3 DEF IInv

(* Two live errors have different ids. *)
LEMMA LiveApart ==
  ASSUME TypeOK, IdsApart, LiveIsRecent,
         NEW e \in 1 .. stored, NEW f \in 1 .. stored, Live(e), Live(f), idOf[e] = idOf[f]
  PROVE  e = f
<1> USE ErrorsAssumption
<1>1. stored \in Nat /\ idOf[e] \in Nat /\ idOf[f] \in Nat /\ stored < e + MaxId /\ stored < f + MaxId
  BY DEF TypeOK, Ids, LiveIsRecent
<1>2. CASE e <= f
  BY <1>1, <1>2 DEF IdsApart
<1>3. CASE f <= e
  BY <1>1, <1>3 DEF IdsApart
<1> QED BY <1>1, <1>2, <1>3

(* A stored record that has not expired belongs to a live error. *)
LEMMA UnexpiredIsLive ==
  ASSUME TypeOK, TimersRun, NEW e \in 1 .. stored, left[e] > 0,
         e \in issued \/ \E u \in Threads : pc[u] = "schedule" /\ current[u] = e
  PROVE  Live(e)
<1>1. e \in Errors
  BY ErrorsAssumption DEF TypeOK, Errors
<1>2. left[e] \in Nat /\ due[e] \in Nat
  BY <1>1, ErrorsAssumption DEF TypeOK
<1>3. CASE e \in issued
  BY <1>2, <1>3 DEF TimersRun, Live
<1>4. CASE \E u \in Threads : pc[u] = "schedule" /\ current[u] = e
  BY <1>4 DEF Live
<1> QED BY <1>3, <1>4

(* An error that is not the one just given an id does not come to life. *)
LEMMA NoRevival ==
  ASSUME TypeOK, [Next]_vars, NEW e \in 1 .. stored, Live(e)'
  PROVE  Live(e)
<1> USE DEF Live, Storing
<1>0. CASE UNCHANGED vars
  BY <1>0 DEF vars, storeVars, threadVars
<1>1. ASSUME NEW t \in Threads, StoreError(t) \/ ThreadStep(t)
      PROVE  Live(e)
  <2>0. stored \in Nat /\ e # stored + 1
    BY DEF TypeOK
  <2>1. CASE StoreError(t)
    BY <2>0, <2>1 DEF StoreError, Goto, storeVars, threadVars, TypeOK
  <2>2. CASE LoadSeq(t)
    BY <2>0, <2>2 DEF LoadSeq, Goto, storeVars, threadVars, TypeOK
  <2>3. CASE Swap(t)
    BY <2>0, <2>3 DEF Swap, Given, Goto, storeVars, threadVars, TypeOK
  <2>4. CASE SwapFails(t)
    BY <2>0, <2>4 DEF SwapFails, Goto, storeVars, threadVars, TypeOK
  <2>5. CASE Stamp(t)
    BY <2>0, <2>5 DEF Stamp, Goto, storeVars, threadVars, TypeOK
  <2>6. CASE Store(t)
    BY <2>0, <2>6 DEF Store, Goto, storeVars, threadVars, TypeOK
  <2>7. CASE Schedule(t)
    BY <2>0, <2>7 DEF Schedule, Goto, storeVars, threadVars, TypeOK
  <2>8. CASE PinText(t)
    BY <2>0, <2>8 DEF PinText, Goto, storeVars, threadVars, TypeOK
  <2>9. CASE PrepareFails(t)
    BY <2>0, <2>9 DEF PrepareFails, Goto, storeVars, threadVars, TypeOK
  <2>10. CASE TakeRecord(t)
    BY <2>0, <2>10 DEF TakeRecord, Goto, storeVars, threadVars, TypeOK
  <2> QED BY <1>1, <2>1, <2>2, <2>3, <2>4, <2>5, <2>6, <2>7, <2>8, <2>9, <2>10 DEF ThreadStep
<1>2. ASSUME NEW t \in Threads, NEW id \in Ids, TakeMissing(t, id) \/ TakePrepared(t, id)
      PROVE  Live(e)
  BY <1>2 DEF TakeMissing, TakePrepared, Goto, storeVars, threadVars, TypeOK
<1>3. ASSUME NEW f \in 1 .. stored, Fire(f) \/ Release(f)
      PROVE  Live(e)
  BY <1>3 DEF Fire, Release, storeVars, threadVars
<1>4. CASE Tick
  BY <1>4 DEF Tick, threadVars
<1> QED BY <1>0, <1>1, <1>2, <1>3, <1>4 DEF Next

(* Every variable keeps its type. *)
LEMMA TypeStep ==
  ASSUME IInv, [Next]_vars
  PROVE  TypeOK'
<1> USE ErrorsAssumption, FreeAssumption DEF IInv, Errors, Ids, None
<1>0. CASE UNCHANGED vars
  BY <1>0 DEF vars, storeVars, errorVars, threadVars, TypeOK, Next1, Without
<1>1. ASSUME NEW t \in Threads, StoreError(t) \/ ThreadStep(t)
      PROVE  TypeOK'
  <2>1. CASE StoreError(t)
    BY <2>1 DEF StoreError, Goto, storeVars, errorVars, threadVars, TypeOK, Next1, Without
  <2>2. CASE LoadSeq(t)
    BY <2>2 DEF LoadSeq, Goto, storeVars, errorVars, threadVars, TypeOK, Next1, Without
  <2>3. CASE Swap(t)
    <3>1. stored \in Nat /\ MaxErrors \in Nat /\ stored < MaxErrors /\ stored' = stored + 1
      BY <2>3 DEF Swap, Given, TypeOK
    <3>2. Next1(seen[t]) \in Ids
      BY DEF Next1, TypeOK
    <3>3. idOf' \in [1 .. stored' -> Ids]
      <4>1. idOf' = [e \in 1 .. stored + 1 |-> IF e = stored + 1 THEN Next1(seen[t]) ELSE idOf[e]]
        BY <2>3 DEF Swap, Given
      <4>2. \A e \in 1 .. stored + 1 : e # stored + 1 => idOf[e] \in Ids
        <5>1. ASSUME NEW e \in 1 .. stored + 1, e # stored + 1
              PROVE  idOf[e] \in Ids
          <6>1. e \in 1 .. stored
            BY <3>1, <5>1
          <6> QED BY <6>1 DEF TypeOK
        <5> QED BY <5>1
      <4> QED BY <3>1, <3>2, <4>1, <4>2
    <3>4. current' \in [Threads -> 0 .. stored']
      <4>1. \A u \in Threads : current[u] \in 0 .. stored'
        BY <3>1 DEF TypeOK
      <4> QED BY <2>3, <3>1, <4>1 DEF Swap, Given, TypeOK
    <3>5. pc' \in [Threads -> {"idle", "next", "cas", "stamp", "store", "schedule", "pin", "length"}]
      BY <2>3 DEF Swap, Given, Goto, TypeOK
    <3>6. /\ \A id \in DOMAIN records : records[id] \in 1 .. stored'
          /\ timers \subseteq 1 .. stored' /\ pinned \subseteq 1 .. stored' /\ issued \subseteq 1 .. stored'
      BY <3>1 DEF TypeOK
    <3>7. errorSeq' \in 0 .. MaxId /\ stored' \in 0 .. MaxErrors
      BY <2>3, <3>1, <3>2 DEF Swap, Given
    <3>8. UNCHANGED <<storeVars, pinned, issued, takes, seen, mutex>>
      BY <2>3 DEF Swap, Given
    <3> QED BY <3>3, <3>4, <3>5, <3>6, <3>7, <3>8 DEF TypeOK, storeVars
  <2>4. CASE SwapFails(t)
    BY <2>4 DEF SwapFails, Goto, storeVars, errorVars, threadVars, TypeOK, Next1, Without
  <2>5. CASE Stamp(t)
    <3>1. left' \in [Errors -> 0 .. TTL]
      <4>1. left' = [left EXCEPT ![current[t]] = TTL] /\ left \in [Errors -> 0 .. TTL]
        BY <2>5 DEF Stamp, TypeOK
      <4>2. TTL \in 0 .. TTL
        OBVIOUS
      <4> HIDE DEF Errors
      <4> QED BY <4>1, <4>2
    <3>2. pc' \in [Threads -> {"idle", "next", "cas", "stamp", "store", "schedule", "pin", "length"}]
      BY <2>5 DEF Stamp, Goto, TypeOK
    <3>3. UNCHANGED <<errorSeq, records, timers, due, mutex, pinned, stored, idOf, issued, takes, seen, current>>
      BY <2>5 DEF Stamp, storeVars, errorVars, threadVars
    <3> QED BY <3>1, <3>2, <3>3 DEF TypeOK
  <2>6. CASE Store(t)
    <3>1. current[t] \in 1 .. stored /\ idOf[current[t]] \in Ids
      BY <2>6 DEF Store, OwnsError, Storing, TypeOK
    <3>2. /\ DOMAIN records' = DOMAIN records \cup {idOf[current[t]]}
          /\ \A id \in DOMAIN records' :
               records'[id] = IF id = idOf[current[t]] THEN current[t] ELSE records[id]
      BY <2>6 DEF Store
    <3>3. DOMAIN records' \subseteq Ids /\ \A id \in DOMAIN records' : records'[id] \in 1 .. stored
      BY <3>1, <3>2 DEF TypeOK
    <3>4. pc' \in [Threads -> {"idle", "next", "cas", "stamp", "store", "schedule", "pin", "length"}]
      BY <2>6 DEF Store, Goto, TypeOK
    <3>5. UNCHANGED <<errorSeq, left, timers, due, mutex, pinned, stored, idOf, issued, takes, seen, current>>
      BY <2>6 DEF Store, errorVars
    <3> QED BY <3>3, <3>4, <3>5 DEF TypeOK
  <2>7. CASE Schedule(t)
    <3>0. current[t] \in 1 .. stored
      BY <2>7 DEF Schedule, OwnsError, Storing
    <3>1. due' \in [Errors -> 0 .. TTL]
      <4>1. due' = [due EXCEPT ![current[t]] = TTL] /\ due \in [Errors -> 0 .. TTL]
        BY <2>7 DEF Schedule, TypeOK
      <4>2. TTL \in 0 .. TTL
        OBVIOUS
      <4> HIDE DEF Errors
      <4> QED BY <4>1, <4>2
    <3>2. pc' \in [Threads -> {"idle", "next", "cas", "stamp", "store", "schedule", "pin", "length"}]
      BY <2>7 DEF Schedule, Goto, TypeOK
    <3>3. UNCHANGED <<errorSeq, records, left, mutex, pinned, stored, idOf, takes, seen, current>>
      BY <2>7 DEF Schedule, storeVars, errorVars, threadVars
    <3>4. timers' \subseteq 1 .. stored /\ issued' \subseteq 1 .. stored
      BY <2>7, <3>0 DEF Schedule, TypeOK
    <3> QED BY <3>1, <3>2, <3>3, <3>4 DEF TypeOK
  <2>8. CASE PinText(t)
    <3>0. current[t] \in 1 .. stored
      BY <2>8 DEF PinText, TakesUnderMutex, Taking
    <3>1. pc' \in [Threads -> {"idle", "next", "cas", "stamp", "store", "schedule", "pin", "length"}]
      BY <2>8 DEF PinText, Goto, TypeOK
    <3>2. UNCHANGED <<errorSeq, records, left, timers, due, mutex, stored, idOf, issued, takes, seen, current>>
      BY <2>8 DEF PinText, storeVars, errorVars, threadVars
    <3>3. pinned' \subseteq 1 .. stored
      BY <2>8, <3>0 DEF PinText, TypeOK
    <3> QED BY <3>1, <3>2, <3>3 DEF TypeOK
  <2>9. CASE PrepareFails(t)
    BY <2>9 DEF PrepareFails, Goto, storeVars, errorVars, threadVars, TypeOK, Next1, Without
  <2>10. CASE TakeRecord(t)
    <3>1. takes' \in [Errors -> Nat]
      <4>1. takes' = [takes EXCEPT ![current[t]] = @ + 1] /\ takes \in [Errors -> Nat]
        BY <2>10 DEF TakeRecord, TypeOK
      <4>2. current[t] \in Errors
        BY <2>10 DEF TakeRecord, TakesUnderMutex, Taking, TypeOK
      <4>3. takes[current[t]] + 1 \in Nat
        BY <4>1, <4>2
      <4> HIDE DEF Errors
      <4> QED BY <4>1, <4>3
    <3>2. pc' \in [Threads -> {"idle", "next", "cas", "stamp", "store", "schedule", "pin", "length"}]
      BY <2>10 DEF TakeRecord, Goto, TypeOK
    <3>3. UNCHANGED <<errorSeq, left, timers, due, pinned, stored, idOf, issued, seen, current>>
      BY <2>10 DEF TakeRecord, storeVars, errorVars, threadVars
    <3>4. DOMAIN records' \subseteq Ids /\ \A id \in DOMAIN records' : records'[id] \in 1 .. stored
      BY <2>10 DEF TakeRecord, Without, TypeOK
    <3>5. mutex' = Free
      BY <2>10 DEF TakeRecord
    <3> QED BY <3>1, <3>2, <3>3, <3>4, <3>5 DEF TypeOK
  <2> QED BY <1>1, <2>1, <2>2, <2>3, <2>4, <2>5, <2>6, <2>7, <2>8, <2>9, <2>10 DEF ThreadStep
<1>2. ASSUME NEW t \in Threads, NEW id \in Ids, TakeMissing(t, id)
      PROVE  TypeOK'
  BY <1>2 DEF TakeMissing, Goto, Without, storeVars, errorVars, threadVars, TypeOK, Next1, Without
<1>3. ASSUME NEW t \in Threads, NEW id \in Ids, TakePrepared(t, id)
      PROVE  TypeOK'
  <2>1. current' \in [Threads -> 0 .. stored]
    <3>1. records[id] \in 0 .. stored
      BY <1>3 DEF TakePrepared, TypeOK
    <3>2. current' = [current EXCEPT ![t] = records[id]] /\ current \in [Threads -> 0 .. stored]
      BY <1>3 DEF TakePrepared, TypeOK
    <3> QED BY <3>1, <3>2
  <2>2. pc' \in [Threads -> {"idle", "next", "cas", "stamp", "store", "schedule", "pin", "length"}]
    BY <1>3 DEF TakePrepared, Goto, TypeOK
  <2>3. mutex' = t
    BY <1>3 DEF TakePrepared
  <2>4. UNCHANGED <<errorSeq, storeVars, pinned, errorVars, takes, seen>>
    BY <1>3 DEF TakePrepared
  <2> QED BY <2>1, <2>2, <2>3, <2>4 DEF TypeOK, storeVars, errorVars
<1>4. ASSUME NEW f \in 1 .. stored, Fire(f)
      PROVE  TypeOK'
  BY <1>4 DEF Fire, Goto, Without, storeVars, errorVars, threadVars, TypeOK, Next1, Without
<1>5. ASSUME NEW f \in 1 .. stored, Release(f)
      PROVE  TypeOK'
  BY <1>5 DEF Release, Goto, Without, storeVars, errorVars, threadVars, TypeOK, Next1, Without
<1>6. CASE Tick
  <2>1. left' \in [Errors -> 0 .. TTL] /\ due' \in [Errors -> 0 .. TTL]
    <3>1. \A e \in Errors : left[e] \in 0 .. TTL /\ due[e] \in 0 .. TTL
      BY DEF TypeOK
    <3> QED BY <1>6, <3>1 DEF Tick
  <2>2. UNCHANGED <<errorSeq, records, timers, mutex, pinned, errorVars, takes, threadVars>>
    BY <1>6 DEF Tick
  <2> QED BY <2>1, <2>2 DEF TypeOK, errorVars, threadVars
<1> QED BY <1>0, <1>1, <1>2, <1>3, <1>4, <1>5, <1>6 DEF Next

(* An id is given to one error, and one thread stores it. *)
LEMMA OwnsStep ==
  ASSUME IInv, [Next]_vars
  PROVE  OwnsError'
<1> USE ErrorsAssumption, FreeAssumption DEF IInv, Errors, Ids, None
<1>0. CASE UNCHANGED vars
  BY <1>0 DEF vars, storeVars, errorVars, threadVars, OwnsError, Storing, TypeOK
<1>1. ASSUME NEW t \in Threads, StoreError(t) \/ ThreadStep(t)
      PROVE  OwnsError'
  <2>1. CASE StoreError(t)
    BY <2>1 DEF StoreError, Goto, storeVars, errorVars, threadVars, OwnsError, Storing, TypeOK
  <2>2. CASE LoadSeq(t)
    BY <2>2 DEF LoadSeq, Goto, storeVars, errorVars, threadVars, OwnsError, Storing, TypeOK
  <2>3. CASE Swap(t)
    <3>1. stored \in Nat /\ stored' = stored + 1 /\ UNCHANGED <<timers, issued>>
      BY <2>3 DEF Swap, Given, TypeOK, storeVars
    <3>2. pc' = [pc EXCEPT ![t] = "stamp"] /\ current' = [current EXCEPT ![t] = stored + 1]
      BY <2>3 DEF Swap, Given, Goto
    <3>3. stored + 1 \notin issued /\ \A u \in Threads : pc[u] \in Storing => current[u] # stored + 1
      BY <3>1 DEF OwnsError, TypeOK
    <3> QED BY <3>1, <3>2, <3>3 DEF OwnsError, Storing, TypeOK
  <2>4. CASE SwapFails(t)
    BY <2>4 DEF SwapFails, Goto, storeVars, errorVars, threadVars, OwnsError, Storing, TypeOK
  <2>5. CASE Stamp(t)
    BY <2>5 DEF Stamp, Goto, storeVars, errorVars, threadVars, OwnsError, Storing, TypeOK
  <2>6. CASE Store(t)
    BY <2>6 DEF Store, Goto, storeVars, errorVars, threadVars, OwnsError, Storing, TypeOK
  <2>7. CASE Schedule(t)
    BY <2>7 DEF Schedule, Goto, storeVars, errorVars, threadVars, OwnsError, Storing, TypeOK
  <2>8. CASE PinText(t)
    BY <2>8 DEF PinText, Goto, storeVars, errorVars, threadVars, OwnsError, Storing, TypeOK
  <2>9. CASE PrepareFails(t)
    BY <2>9 DEF PrepareFails, Goto, storeVars, errorVars, threadVars, OwnsError, Storing, TypeOK
  <2>10. CASE TakeRecord(t)
    BY <2>10 DEF TakeRecord, Goto, storeVars, errorVars, threadVars, OwnsError, Storing, TypeOK
  <2> QED BY <1>1, <2>1, <2>2, <2>3, <2>4, <2>5, <2>6, <2>7, <2>8, <2>9, <2>10 DEF ThreadStep
<1>2. ASSUME NEW t \in Threads, NEW id \in Ids, TakeMissing(t, id)
      PROVE  OwnsError'
  BY <1>2 DEF TakeMissing, Goto, Without, storeVars, errorVars, threadVars, OwnsError, Storing,
     TypeOK
<1>3. ASSUME NEW t \in Threads, NEW id \in Ids, TakePrepared(t, id)
      PROVE  OwnsError'
  BY <1>3 DEF TakePrepared, Goto, Without, storeVars, errorVars, threadVars, OwnsError, Storing,
     TypeOK
<1>4. ASSUME NEW f \in 1 .. stored, Fire(f)
      PROVE  OwnsError'
  BY <1>4 DEF Fire, Goto, Without, storeVars, errorVars, threadVars, OwnsError, Storing, TypeOK
<1>5. ASSUME NEW f \in 1 .. stored, Release(f)
      PROVE  OwnsError'
  BY <1>5 DEF Release, Goto, Without, storeVars, errorVars, threadVars, OwnsError, Storing, TypeOK
<1>6. CASE Tick
  BY <1>6 DEF Tick, Goto, Without, storeVars, errorVars, threadVars, OwnsError, Storing, TypeOK
<1> QED BY <1>0, <1>1, <1>2, <1>3, <1>4, <1>5, <1>6 DEF Next

(* The sequence follows the errors. *)
LEMMA SequenceStep ==
  ASSUME IInv, [Next]_vars
  PROVE  Sequence'
<1> USE ErrorsAssumption, FreeAssumption DEF IInv, Errors, Ids, None
<1>0. CASE UNCHANGED vars
  BY <1>0 DEF vars, storeVars, errorVars, threadVars, Sequence, TypeOK
<1>1. ASSUME NEW t \in Threads, StoreError(t) \/ ThreadStep(t)
      PROVE  Sequence'
  <2>1. CASE StoreError(t)
    BY <2>1 DEF StoreError, Goto, storeVars, errorVars, threadVars, Sequence, TypeOK
  <2>2. CASE LoadSeq(t)
    BY <2>2 DEF LoadSeq, Goto, storeVars, errorVars, threadVars, Sequence, TypeOK
  <2>3. CASE Swap(t)
    BY <2>3 DEF Swap, Given, Goto, storeVars, errorVars, threadVars, Sequence, TypeOK
  <2>4. CASE SwapFails(t)
    BY <2>4 DEF SwapFails, Goto, storeVars, errorVars, threadVars, Sequence, TypeOK
  <2>5. CASE Stamp(t)
    BY <2>5 DEF Stamp, Goto, storeVars, errorVars, threadVars, Sequence, TypeOK
  <2>6. CASE Store(t)
    BY <2>6 DEF Store, Goto, storeVars, errorVars, threadVars, Sequence, TypeOK
  <2>7. CASE Schedule(t)
    BY <2>7 DEF Schedule, Goto, storeVars, errorVars, threadVars, Sequence, TypeOK
  <2>8. CASE PinText(t)
    BY <2>8 DEF PinText, Goto, storeVars, errorVars, threadVars, Sequence, TypeOK
  <2>9. CASE PrepareFails(t)
    BY <2>9 DEF PrepareFails, Goto, storeVars, errorVars, threadVars, Sequence, TypeOK
  <2>10. CASE TakeRecord(t)
    BY <2>10 DEF TakeRecord, Goto, storeVars, errorVars, threadVars, Sequence, TypeOK
  <2> QED BY <1>1, <2>1, <2>2, <2>3, <2>4, <2>5, <2>6, <2>7, <2>8, <2>9, <2>10 DEF ThreadStep
<1>2. ASSUME NEW t \in Threads, NEW id \in Ids, TakeMissing(t, id)
      PROVE  Sequence'
  BY <1>2 DEF TakeMissing, Goto, Without, storeVars, errorVars, threadVars, Sequence, TypeOK
<1>3. ASSUME NEW t \in Threads, NEW id \in Ids, TakePrepared(t, id)
      PROVE  Sequence'
  BY <1>3 DEF TakePrepared, Goto, Without, storeVars, errorVars, threadVars, Sequence, TypeOK
<1>4. ASSUME NEW f \in 1 .. stored, Fire(f)
      PROVE  Sequence'
  BY <1>4 DEF Fire, Goto, Without, storeVars, errorVars, threadVars, Sequence, TypeOK
<1>5. ASSUME NEW f \in 1 .. stored, Release(f)
      PROVE  Sequence'
  BY <1>5 DEF Release, Goto, Without, storeVars, errorVars, threadVars, Sequence, TypeOK
<1>6. CASE Tick
  BY <1>6 DEF Tick, Goto, Without, storeVars, errorVars, threadVars, Sequence, TypeOK
<1> QED BY <1>0, <1>1, <1>2, <1>3, <1>4, <1>5, <1>6 DEF Next

(* Two counters that advance together stay as far apart as they were. *)
LEMMA OneOn ==
  ASSUME NEW a \in Nat, NEW b \in Nat, NEW e \in Nat, NEW s \in Nat,
         a + e = b + s \/ a + MaxId + e = b + s
  PROVE  (a + 1) + e = b + (s + 1) \/ (a + 1) + MaxId + e = b + (s + 1)
BY ErrorsAssumption

(* Ids go round. *)
LEMMA IdsStep ==
  ASSUME IInv, [Next]_vars
  PROVE  IdsApart'
<1> USE ErrorsAssumption, FreeAssumption DEF IInv, Errors, Ids, None
<1>0. CASE UNCHANGED vars
  BY <1>0 DEF vars, storeVars, errorVars, threadVars, IdsApart, TypeOK
<1>1. ASSUME NEW t \in Threads, StoreError(t) \/ ThreadStep(t)
      PROVE  IdsApart'
  <2>1. CASE StoreError(t)
    BY <2>1 DEF StoreError, Goto, storeVars, errorVars, threadVars, IdsApart, TypeOK
  <2>2. CASE LoadSeq(t)
    BY <2>2 DEF LoadSeq, Goto, storeVars, errorVars, threadVars, IdsApart, TypeOK
  <2>3. CASE Swap(t)
    <3>1. /\ stored \in Nat /\ stored' = stored + 1
          /\ idOf' = [e \in 1 .. stored + 1 |-> IF e = stored + 1 THEN Next1(errorSeq) ELSE idOf[e]]
      BY <2>3 DEF Swap, Given, TypeOK
    <3>2. \A e \in 1 .. stored : idOf'[e] = idOf[e] /\ idOf[e] \in 1 .. MaxId
      BY <3>1 DEF TypeOK
    <3>3. idOf'[stored + 1] = Next1(errorSeq)
      BY <3>1
    <3>4. ASSUME NEW e \in 1 .. stored, stored + 1 < e + MaxId
          PROVE  \/ idOf'[stored + 1] + e = idOf[e] + (stored + 1)
                 \/ idOf'[stored + 1] + MaxId + e = idOf[e] + (stored + 1)
      <4>1. \/ idOf[stored] + e = idOf[e] + stored
            \/ idOf[stored] + MaxId + e = idOf[e] + stored
        BY <3>1, <3>4 DEF IdsApart
      <4>2. errorSeq = idOf[stored] /\ idOf[stored] \in 1 .. MaxId
        BY <3>1, <3>2, <3>4 DEF Sequence
      <4>3. e \in Nat /\ idOf[e] \in 1 .. MaxId /\ stored + 1 < e + MaxId /\ e <= stored
        BY <3>1, <3>2, <3>4
      <4>4. CASE errorSeq >= MaxId
        <5>1. idOf'[stored + 1] = 1 /\ errorSeq = MaxId
          BY <3>3, <4>2, <4>4 DEF Next1
        <5> QED BY <3>1, <4>1, <4>2, <4>3, <5>1
      <4>5. CASE errorSeq < MaxId
        <5>1. idOf'[stored + 1] = errorSeq + 1
          BY <3>3, <4>2, <4>5 DEF Next1
        <5>2. idOf[stored] \in Nat /\ idOf[e] \in Nat
          BY <4>2, <4>3
        <5>3. e \in Nat /\ stored \in Nat
          BY <3>1, <4>3
        <5>4. \/ (idOf[stored] + 1) + e = idOf[e] + (stored + 1)
              \/ (idOf[stored] + 1) + MaxId + e = idOf[e] + (stored + 1)
          <6> HIDE ErrorsAssumption DEF IInv, Errors, Ids, None
          <6> QED BY <4>1, <5>2, <5>3, OneOn
        <5>5. idOf'[stored + 1] = idOf[stored] + 1
          BY <4>2, <5>1
        <5> QED BY <5>4, <5>5
      <4> QED BY <4>2, <4>4, <4>5
    <3>5. ASSUME NEW e \in 1 .. stored', NEW f \in 1 .. stored', e <= f, f < e + MaxId
          PROVE  idOf'[f] + e = idOf'[e] + f \/ idOf'[f] + MaxId + e = idOf'[e] + f
      <4>1. CASE f \in 1 .. stored
        BY <3>1, <3>2, <3>5, <4>1 DEF IdsApart
      <4>2. CASE f = stored + 1 /\ e \in 1 .. stored
        BY <3>1, <3>2, <3>4, <3>5, <4>2
      <4>3. CASE f = e
        <5>1. Next1(errorSeq) \in Nat
          BY DEF Next1, TypeOK
        <5>2. idOf'[e] \in Nat
          <6>1. CASE e \in 1 .. stored
            BY <3>2, <6>1
          <6>2. CASE e = stored + 1
            BY <3>3, <5>1, <6>2
          <6> QED BY <3>1, <3>5, <6>1, <6>2
        <5> QED BY <3>1, <4>3, <5>2
      <4> QED BY <3>1, <3>5, <4>1, <4>2, <4>3
    <3> QED BY <3>5 DEF IdsApart
  <2>4. CASE SwapFails(t)
    BY <2>4 DEF SwapFails, Goto, storeVars, errorVars, threadVars, IdsApart, TypeOK
  <2>5. CASE Stamp(t)
    BY <2>5 DEF Stamp, Goto, storeVars, errorVars, threadVars, IdsApart, TypeOK
  <2>6. CASE Store(t)
    BY <2>6 DEF Store, Goto, storeVars, errorVars, threadVars, IdsApart, TypeOK
  <2>7. CASE Schedule(t)
    BY <2>7 DEF Schedule, Goto, storeVars, errorVars, threadVars, IdsApart, TypeOK
  <2>8. CASE PinText(t)
    BY <2>8 DEF PinText, Goto, storeVars, errorVars, threadVars, IdsApart, TypeOK
  <2>9. CASE PrepareFails(t)
    BY <2>9 DEF PrepareFails, Goto, storeVars, errorVars, threadVars, IdsApart, TypeOK
  <2>10. CASE TakeRecord(t)
    BY <2>10 DEF TakeRecord, Goto, storeVars, errorVars, threadVars, IdsApart, TypeOK
  <2> QED BY <1>1, <2>1, <2>2, <2>3, <2>4, <2>5, <2>6, <2>7, <2>8, <2>9, <2>10 DEF ThreadStep
<1>2. ASSUME NEW t \in Threads, NEW id \in Ids, TakeMissing(t, id)
      PROVE  IdsApart'
  BY <1>2 DEF TakeMissing, Goto, Without, storeVars, errorVars, threadVars, IdsApart, TypeOK
<1>3. ASSUME NEW t \in Threads, NEW id \in Ids, TakePrepared(t, id)
      PROVE  IdsApart'
  BY <1>3 DEF TakePrepared, Goto, Without, storeVars, errorVars, threadVars, IdsApart, TypeOK
<1>4. ASSUME NEW f \in 1 .. stored, Fire(f)
      PROVE  IdsApart'
  BY <1>4 DEF Fire, Goto, Without, storeVars, errorVars, threadVars, IdsApart, TypeOK
<1>5. ASSUME NEW f \in 1 .. stored, Release(f)
      PROVE  IdsApart'
  BY <1>5 DEF Release, Goto, Without, storeVars, errorVars, threadVars, IdsApart, TypeOK
<1>6. CASE Tick
  BY <1>6 DEF Tick, Goto, Without, storeVars, errorVars, threadVars, IdsApart, TypeOK
<1> QED BY <1>0, <1>1, <1>2, <1>3, <1>4, <1>5, <1>6 DEF Next

(* Nobody is given an id while a live error is about to be caught up with. *)
LEMMA RecentStep ==
  ASSUME IInv, [Next]_vars
  PROVE  LiveIsRecent'
<1> USE ErrorsAssumption DEF IInv
<1>0. stored \in Nat
  BY DEF TypeOK
<1>1. ASSUME NEW t \in Threads, Swap(t), NEW e \in 1 .. stored', Live(e)'
      PROVE  stored' < e + MaxId
  <2>1. stored' = stored + 1 /\ NoCatchUp
    BY <1>1 DEF Swap, Given
  <2>2. CASE e \in 1 .. stored
    BY <1>0, <1>1, <2>1, <2>2, NoRevival DEF NoCatchUp
  <2>3. CASE e = stored + 1
    BY <1>0, <2>1, <2>3
  <2> QED BY <1>0, <2>1, <2>2, <2>3
<1>2. CASE stored' = stored
  <2>1. ASSUME NEW e \in 1 .. stored', Live(e)'
        PROVE  stored' < e + MaxId
    BY <1>2, <2>1, NoRevival DEF LiveIsRecent
  <2> QED BY <2>1 DEF LiveIsRecent
<1>3. stored' = stored \/ \E t \in Threads : Swap(t)
  BY DEF Next, ThreadStep, StoreError, LoadSeq, SwapFails, Stamp, Store, Schedule, PinText,
         PrepareFails, TakeRecord, TakeMissing, TakePrepared, Fire, Release, Tick, vars, errorVars
<1>4. CASE \E t \in Threads : Swap(t)
  BY <1>1, <1>4 DEF LiveIsRecent
<1> QED BY <1>2, <1>3, <1>4

(* Records expire before their timers fire. *)
LEMMA TimersStep ==
  ASSUME IInv, [Next]_vars
  PROVE  TimersRun'
<1> USE ErrorsAssumption, FreeAssumption DEF IInv, Errors, Ids, None
<1>0. CASE UNCHANGED vars
  BY <1>0 DEF vars, storeVars, errorVars, threadVars, TimersRun, OwnsError, Storing, TypeOK
<1>1. ASSUME NEW t \in Threads, StoreError(t) \/ ThreadStep(t)
      PROVE  TimersRun'
  <2>1. CASE StoreError(t)
    BY <2>1 DEF StoreError, Goto, storeVars, errorVars, threadVars, TimersRun, OwnsError,
       Storing, TypeOK
  <2>2. CASE LoadSeq(t)
    BY <2>2 DEF LoadSeq, Goto, storeVars, errorVars, threadVars, TimersRun, OwnsError, Storing,
       TypeOK
  <2>3. CASE Swap(t)
    BY <2>3 DEF Swap, Given, Goto, storeVars, errorVars, threadVars, TimersRun, OwnsError,
       Storing, TypeOK
  <2>4. CASE SwapFails(t)
    BY <2>4 DEF SwapFails, Goto, storeVars, errorVars, threadVars, TimersRun, OwnsError, Storing,
       TypeOK
  <2>5. CASE Stamp(t)
    <3>1. current[t] \notin issued
      BY <2>5 DEF Stamp, OwnsError, Storing
    <3>2. \A e \in issued : left'[e] = left[e]
      BY <2>5, <3>1 DEF Stamp, TypeOK
    <3> QED BY <2>5, <3>2 DEF Stamp, TimersRun, errorVars
  <2>6. CASE Store(t)
    BY <2>6 DEF Store, Goto, storeVars, errorVars, threadVars, TimersRun, OwnsError, Storing,
       TypeOK
  <2>7. CASE Schedule(t)
    <3>1. current[t] \in 1 .. stored /\ current[t] \in Errors
      BY <2>7 DEF Schedule, OwnsError, Storing, TypeOK
    <3>2. due'[current[t]] = TTL /\ left'[current[t]] <= TTL /\ current[t] \in timers'
      BY <2>7, <3>1 DEF Schedule, TypeOK
    <3>3. \A e \in issued \ {current[t]} : due'[e] = due[e] /\ left'[e] = left[e]
      BY <2>7 DEF Schedule, TypeOK
    <3>4. issued' = issued \cup {current[t]} /\ timers \subseteq timers'
      BY <2>7 DEF Schedule
    <3> QED BY <3>2, <3>3, <3>4 DEF TimersRun
  <2>8. CASE PinText(t)
    BY <2>8 DEF PinText, Goto, storeVars, errorVars, threadVars, TimersRun, OwnsError, Storing,
       TypeOK
  <2>9. CASE PrepareFails(t)
    BY <2>9 DEF PrepareFails, Goto, storeVars, errorVars, threadVars, TimersRun, OwnsError,
       Storing, TypeOK
  <2>10. CASE TakeRecord(t)
    BY <2>10 DEF TakeRecord, Goto, storeVars, errorVars, threadVars, TimersRun, OwnsError,
       Storing, TypeOK
  <2> QED BY <1>1, <2>1, <2>2, <2>3, <2>4, <2>5, <2>6, <2>7, <2>8, <2>9, <2>10 DEF ThreadStep
<1>2. ASSUME NEW t \in Threads, NEW id \in Ids, TakeMissing(t, id)
      PROVE  TimersRun'
  BY <1>2 DEF TakeMissing, Goto, Without, storeVars, errorVars, threadVars, TimersRun, OwnsError,
     Storing, TypeOK
<1>3. ASSUME NEW t \in Threads, NEW id \in Ids, TakePrepared(t, id)
      PROVE  TimersRun'
  BY <1>3 DEF TakePrepared, Goto, Without, storeVars, errorVars, threadVars, TimersRun,
     OwnsError, Storing, TypeOK
<1>4. ASSUME NEW f \in 1 .. stored, Fire(f)
      PROVE  TimersRun'
  BY <1>4 DEF Fire, Goto, Without, storeVars, errorVars, threadVars, TimersRun, OwnsError,
     Storing, TypeOK
<1>5. ASSUME NEW f \in 1 .. stored, Release(f)
      PROVE  TimersRun'
  BY <1>5 DEF Release, Goto, Without, storeVars, errorVars, threadVars, TimersRun, OwnsError,
     Storing, TypeOK
<1>6. CASE Tick
  <2>1. ASSUME NEW e \in issued
        PROVE  left'[e] <= due'[e] /\ (due'[e] > 0 => due[e] > 0)
    <3>1. e \in Errors /\ left[e] \in Nat /\ due[e] \in Nat /\ left[e] <= due[e]
      BY DEF TypeOK, TimersRun
    <3> QED BY <1>6, <3>1 DEF Tick
  <2> QED BY <1>6, <2>1 DEF Tick, TimersRun, errorVars
<1> QED BY <1>0, <1>1, <1>2, <1>3, <1>4, <1>5, <1>6 DEF Next

(* Records are stored under their ids. *)
LEMMA IndexedStep ==
  ASSUME IInv, [Next]_vars
  PROVE  Indexed'
<1> USE ErrorsAssumption, FreeAssumption DEF IInv, Errors, Ids, None
<1>0. CASE UNCHANGED vars
  BY <1>0 DEF vars, storeVars, errorVars, threadVars, Indexed, OwnsError, Storing, TypeOK
<1>1. ASSUME NEW t \in Threads, StoreError(t) \/ ThreadStep(t)
      PROVE  Indexed'
  <2>1. CASE StoreError(t)
    BY <2>1 DEF StoreError, Goto, storeVars, errorVars, threadVars, Indexed, OwnsError, Storing,
       TypeOK
  <2>2. CASE LoadSeq(t)
    BY <2>2 DEF LoadSeq, Goto, storeVars, errorVars, threadVars, Indexed, OwnsError, Storing,
       TypeOK
  <2>3. CASE Swap(t)
    <3>1. /\ stored \in Nat /\ UNCHANGED records
          /\ idOf' = [e \in 1 .. stored + 1 |-> IF e = stored + 1 THEN Next1(seen[t]) ELSE idOf[e]]
      BY <2>3 DEF Swap, Given, TypeOK, storeVars
    <3>2. \A id \in DOMAIN records : records[id] \in 1 .. stored
      BY DEF TypeOK
    <3> QED BY <3>1, <3>2 DEF Indexed
  <2>4. CASE SwapFails(t)
    BY <2>4 DEF SwapFails, Goto, storeVars, errorVars, threadVars, Indexed, OwnsError, Storing,
       TypeOK
  <2>5. CASE Stamp(t)
    BY <2>5 DEF Stamp, Goto, storeVars, errorVars, threadVars, Indexed, OwnsError, Storing, TypeOK
  <2>6. CASE Store(t)
    BY <2>6 DEF Store, Goto, storeVars, errorVars, threadVars, Indexed, OwnsError, Storing, TypeOK
  <2>7. CASE Schedule(t)
    BY <2>7 DEF Schedule, Goto, storeVars, errorVars, threadVars, Indexed, OwnsError, Storing,
       TypeOK
  <2>8. CASE PinText(t)
    BY <2>8 DEF PinText, Goto, storeVars, errorVars, threadVars, Indexed, OwnsError, Storing,
       TypeOK
  <2>9. CASE PrepareFails(t)
    BY <2>9 DEF PrepareFails, Goto, storeVars, errorVars, threadVars, Indexed, OwnsError,
       Storing, TypeOK
  <2>10. CASE TakeRecord(t)
    BY <2>10 DEF TakeRecord, Without, Indexed, errorVars
  <2> QED BY <1>1, <2>1, <2>2, <2>3, <2>4, <2>5, <2>6, <2>7, <2>8, <2>9, <2>10 DEF ThreadStep
<1>2. ASSUME NEW t \in Threads, NEW id \in Ids, TakeMissing(t, id)
      PROVE  Indexed'
  BY <1>2 DEF TakeMissing, Goto, Without, storeVars, errorVars, threadVars, Indexed, OwnsError,
     Storing, TypeOK
<1>3. ASSUME NEW t \in Threads, NEW id \in Ids, TakePrepared(t, id)
      PROVE  Indexed'
  BY <1>3 DEF TakePrepared, Goto, Without, storeVars, errorVars, threadVars, Indexed, OwnsError,
     Storing, TypeOK
<1>4. ASSUME NEW f \in 1 .. stored, Fire(f)
      PROVE  Indexed'
  BY <1>4 DEF Fire, Goto, Without, storeVars, errorVars, threadVars, Indexed, OwnsError, Storing,
     TypeOK
<1>5. ASSUME NEW f \in 1 .. stored, Release(f)
      PROVE  Indexed'
  BY <1>5 DEF Release, Goto, Without, storeVars, errorVars, threadVars, Indexed, OwnsError,
     Storing, TypeOK
<1>6. CASE Tick
  BY <1>6 DEF Tick, Goto, Without, storeVars, errorVars, threadVars, Indexed, OwnsError, Storing,
     TypeOK
<1> QED BY <1>0, <1>1, <1>2, <1>3, <1>4, <1>5, <1>6 DEF Next

(* The mutex keeps the record of the text that is taken. *)
LEMMA TakesStep ==
  ASSUME IInv, [Next]_vars
  PROVE  TakesUnderMutex'
<1> USE ErrorsAssumption, FreeAssumption DEF IInv, Errors, Ids, None
<1>0. CASE UNCHANGED vars
  BY <1>0 DEF vars, storeVars, errorVars, threadVars, TakesUnderMutex, Taking, OwnsError,
     Storing, Indexed, TypeOK
<1>1. ASSUME NEW t \in Threads, StoreError(t) \/ ThreadStep(t)
      PROVE  TakesUnderMutex'
  <2>1. CASE StoreError(t)
    BY <2>1 DEF StoreError, Goto, storeVars, errorVars, threadVars, TakesUnderMutex, Taking,
       OwnsError, Storing, Indexed, TypeOK
  <2>2. CASE LoadSeq(t)
    BY <2>2 DEF LoadSeq, Goto, storeVars, errorVars, threadVars, TakesUnderMutex, Taking,
       OwnsError, Storing, Indexed, TypeOK
  <2>3. CASE Swap(t)
    <3>1. /\ stored \in Nat /\ stored' = stored + 1 /\ UNCHANGED <<records, mutex>>
          /\ idOf' = [e \in 1 .. stored + 1 |-> IF e = stored + 1 THEN Next1(seen[t]) ELSE idOf[e]]
      BY <2>3 DEF Swap, Given, TypeOK, storeVars
    <3>2. ASSUME NEW u \in Threads, pc'[u] \in Taking
          PROVE  pc[u] \in Taking /\ current'[u] = current[u]
      BY <2>3, <3>2 DEF Swap, Given, Goto, Taking, TypeOK
    <3>3. \A e \in 1 .. stored : idOf'[e] = idOf[e] /\ e \in 1 .. stored'
      BY <3>1
    <3> QED BY <3>1, <3>2, <3>3 DEF TakesUnderMutex
  <2>4. CASE SwapFails(t)
    BY <2>4 DEF SwapFails, Goto, storeVars, errorVars, threadVars, TakesUnderMutex, Taking,
       OwnsError, Storing, Indexed, TypeOK
  <2>5. CASE Stamp(t)
    BY <2>5 DEF Stamp, Goto, storeVars, errorVars, threadVars, TakesUnderMutex, Taking,
       OwnsError, Storing, Indexed, TypeOK
  <2>6. CASE Store(t)
    BY <2>6 DEF Store, Goto, storeVars, errorVars, threadVars, TakesUnderMutex, Taking,
       OwnsError, Storing, Indexed, TypeOK
  <2>7. CASE Schedule(t)
    BY <2>7 DEF Schedule, Goto, storeVars, errorVars, threadVars, TakesUnderMutex, Taking,
       OwnsError, Storing, Indexed, TypeOK
  <2>8. CASE PinText(t)
    BY <2>8 DEF PinText, Goto, storeVars, errorVars, threadVars, TakesUnderMutex, Taking,
       OwnsError, Storing, Indexed, TypeOK
  <2>9. CASE PrepareFails(t)
    BY <2>9 DEF PrepareFails, Goto, storeVars, errorVars, threadVars, TakesUnderMutex, Taking,
       OwnsError, Storing, Indexed, TypeOK
  <2>10. CASE TakeRecord(t)
    BY <2>10 DEF TakeRecord, Goto, storeVars, errorVars, threadVars, TakesUnderMutex, Taking,
       OwnsError, Storing, Indexed, TypeOK
  <2> QED BY <1>1, <2>1, <2>2, <2>3, <2>4, <2>5, <2>6, <2>7, <2>8, <2>9, <2>10 DEF ThreadStep
<1>2. ASSUME NEW t \in Threads, NEW id \in Ids, TakeMissing(t, id)
      PROVE  TakesUnderMutex'
  BY <1>2 DEF TakeMissing, Goto, Without, storeVars, errorVars, threadVars, TakesUnderMutex,
     Taking, OwnsError, Storing, Indexed, TypeOK
<1>3. ASSUME NEW t \in Threads, NEW id \in Ids, TakePrepared(t, id)
      PROVE  TakesUnderMutex'
  BY <1>3 DEF TakePrepared, Goto, Without, storeVars, errorVars, threadVars, TakesUnderMutex,
     Taking, OwnsError, Storing, Indexed, TypeOK
<1>4. ASSUME NEW f \in 1 .. stored, Fire(f)
      PROVE  TakesUnderMutex'
  BY <1>4 DEF Fire, Goto, Without, storeVars, errorVars, threadVars, TakesUnderMutex, Taking,
     OwnsError, Storing, Indexed, TypeOK
<1>5. ASSUME NEW f \in 1 .. stored, Release(f)
      PROVE  TakesUnderMutex'
  BY <1>5 DEF Release, Goto, Without, storeVars, errorVars, threadVars, TakesUnderMutex, Taking,
     OwnsError, Storing, Indexed, TypeOK
<1>6. CASE Tick
  BY <1>6 DEF Tick, Goto, Without, storeVars, errorVars, threadVars, TakesUnderMutex, Taking,
     OwnsError, Storing, Indexed, TypeOK
<1> QED BY <1>0, <1>1, <1>2, <1>3, <1>4, <1>5, <1>6 DEF Next

(* Nobody else deletes or replaces the record of a live error. *)
LEMMA KeptStep ==
  ASSUME IInv, [Next]_vars
  PROVE  Kept'
<1> USE ErrorsAssumption, FreeAssumption DEF IInv, Errors, Ids, None
<1>0. CASE UNCHANGED vars
  BY <1>0 DEF vars, storeVars, errorVars, threadVars, Kept, OwnsError, Storing, TypeOK
<1>1. ASSUME NEW t \in Threads, StoreError(t) \/ ThreadStep(t)
      PROVE  Kept'
  <2>1. CASE StoreError(t)
    BY <2>1 DEF StoreError, Goto, storeVars, errorVars, threadVars, Kept, OwnsError, Storing,
       TypeOK
  <2>2. CASE LoadSeq(t)
    BY <2>2 DEF LoadSeq, Goto, storeVars, errorVars, threadVars, Kept, OwnsError, Storing, TypeOK
  <2>3. CASE Swap(t)
    <3>1. /\ stored \in Nat /\ stored' = stored + 1 /\ UNCHANGED <<records, left, takes, issued>>
          /\ idOf' = [e \in 1 .. stored + 1 |-> IF e = stored + 1 THEN Next1(seen[t]) ELSE idOf[e]]
      BY <2>3 DEF Swap, Given, TypeOK, storeVars
    <3>2. ASSUME NEW u \in Threads, pc'[u] = "schedule"
          PROVE  pc[u] = "schedule" /\ current'[u] = current[u] /\ current[u] \in 1 .. stored
      BY <2>3, <3>2 DEF Swap, Given, Goto, OwnsError, Storing, TypeOK
    <3>3. \A e \in 1 .. stored : idOf'[e] = idOf[e]
      BY <3>1
    <3>4. issued \subseteq 1 .. stored
      BY DEF TypeOK
    <3> QED BY <3>1, <3>2, <3>3, <3>4 DEF Kept
  <2>4. CASE SwapFails(t)
    BY <2>4 DEF SwapFails, Goto, storeVars, errorVars, threadVars, Kept, OwnsError, Storing,
       TypeOK
  <2>5. CASE Stamp(t)
    <3>1. current[t] \notin issued /\ \A u \in Threads : pc[u] = "schedule" => current[u] # current[t]
      BY <2>5 DEF Stamp, OwnsError, Storing
    <3>2. \A e \in 1 .. stored : e # current[t] => left'[e] = left[e]
      BY <2>5 DEF Stamp, TypeOK
    <3>3. \A u \in Threads : pc'[u] = "schedule" => pc[u] = "schedule"
      BY <2>5 DEF Stamp, Goto, TypeOK
    <3> QED BY <2>5, <3>1, <3>2, <3>3 DEF Stamp, Kept, errorVars
  <2>6. CASE Store(t)
    <3>0. current[t] \in 1 .. stored /\ Live(current[t])
      BY <2>6 DEF Store, OwnsError, Storing, Live
    <3>1. ASSUME NEW e \in 1 .. stored',
                 e \in issued' \/ \E u \in Threads : pc'[u] = "schedule" /\ current'[u] = e,
                 left'[e] > 0, takes'[e] = 0
          PROVE  idOf'[e] \in DOMAIN records' /\ records'[idOf'[e]] = e
      <4>1. CASE e = current[t]
        BY <2>6, <4>1 DEF Store, errorVars
      <4>2. CASE e # current[t]
        <5>1. e \in issued \/ \E u \in Threads : pc[u] = "schedule" /\ current[u] = e
          BY <2>6, <3>1, <4>2 DEF Store, Goto, errorVars, TypeOK
        <5>2. left[e] > 0 /\ takes[e] = 0 /\ e \in 1 .. stored
          BY <2>6, <3>1 DEF Store, errorVars
        <5>3. idOf[e] \in DOMAIN records /\ records[idOf[e]] = e
          BY <5>1, <5>2 DEF Kept
        <5>4. idOf[e] # idOf[current[t]]
          BY <3>0, <4>2, <5>1, <5>2, LiveApart, UnexpiredIsLive
        <5> QED BY <2>6, <5>3, <5>4 DEF Store, errorVars
      <4> QED BY <4>1, <4>2
    <3> QED BY <3>1 DEF Kept
  <2>7. CASE Schedule(t)
    BY <2>7 DEF Schedule, Goto, storeVars, errorVars, threadVars, Kept, OwnsError, Storing, TypeOK
  <2>8. CASE PinText(t)
    BY <2>8 DEF PinText, Goto, storeVars, errorVars, threadVars, Kept, OwnsError, Storing, TypeOK
  <2>9. CASE PrepareFails(t)
    BY <2>9 DEF PrepareFails, Goto, storeVars, errorVars, threadVars, Kept, OwnsError, Storing,
       TypeOK
  <2>10. CASE TakeRecord(t)
    <3>0. /\ current[t] \in 1 .. stored /\ current[t] \in Errors
          /\ records[idOf[current[t]]] = current[t]
      BY <2>10 DEF TakeRecord, TakesUnderMutex, Taking, TypeOK
    <3>1. ASSUME NEW e \in 1 .. stored',
                 e \in issued' \/ \E u \in Threads : pc'[u] = "schedule" /\ current'[u] = e,
                 left'[e] > 0, takes'[e] = 0
          PROVE  idOf'[e] \in DOMAIN records' /\ records'[idOf'[e]] = e
      <4>1. e # current[t] /\ takes[e] = 0 /\ left[e] > 0 /\ e \in 1 .. stored
        <5>1. e \in 1 .. stored /\ left[e] > 0
          BY <2>10, <3>1 DEF TakeRecord, errorVars
        <5>2. e \in Errors /\ takes[current[t]] \in Nat
          BY <3>0, <5>1 DEF TypeOK
        <5>3. takes' = [takes EXCEPT ![current[t]] = takes[current[t]] + 1] /\ takes'[e] = 0
          BY <2>10, <3>1 DEF TakeRecord
        <5>4. takes'[current[t]] # 0
          BY <3>0, <5>2, <5>3 DEF TypeOK
        <5>5. e # current[t]
          BY <5>3, <5>4
        <5>6. takes[e] = 0
          BY <5>2, <5>3, <5>5 DEF TypeOK
        <5> QED BY <5>1, <5>5, <5>6
      <4>2. e \in issued \/ \E u \in Threads : pc[u] = "schedule" /\ current[u] = e
        BY <2>10, <3>1 DEF TakeRecord, Goto, errorVars, TypeOK
      <4>3. idOf[e] \in DOMAIN records /\ records[idOf[e]] = e
        BY <4>1, <4>2 DEF Kept
      <4> QED BY <2>10, <3>0, <4>1, <4>3 DEF TakeRecord, Without, errorVars
    <3> QED BY <3>1 DEF Kept
  <2> QED BY <1>1, <2>1, <2>2, <2>3, <2>4, <2>5, <2>6, <2>7, <2>8, <2>9, <2>10 DEF ThreadStep
<1>2. ASSUME NEW t \in Threads, NEW id \in Ids, TakeMissing(t, id)
      PROVE  Kept'
  <2>1. /\ records' = Without(id) /\ left[records[id]] = 0
        /\ UNCHANGED <<left, takes, stored, idOf, issued, pc, current>>
    BY <1>2 DEF TakeMissing, errorVars, threadVars
  <2> QED BY <2>1 DEF Kept, Without
<1>3. ASSUME NEW t \in Threads, NEW id \in Ids, TakePrepared(t, id)
      PROVE  Kept'
  BY <1>3 DEF TakePrepared, Goto, Without, storeVars, errorVars, threadVars, Kept, OwnsError,
     Storing, TypeOK
<1>4. ASSUME NEW f \in 1 .. stored, Fire(f)
      PROVE  Kept'
  <2>0. /\ f \in timers /\ f \in issued /\ due[f] = 0 /\ left[f] \in Nat /\ records' = Without(idOf[f])
        /\ UNCHANGED <<left, takes, stored, idOf, issued, pc, current>>
    BY <1>4 DEF Fire, OwnsError, TypeOK, errorVars, threadVars
  <2>1. ASSUME NEW e \in 1 .. stored,
               e \in issued \/ \E u \in Threads : pc[u] = "schedule" /\ current[u] = e,
               left[e] > 0, takes[e] = 0
        PROVE  idOf[e] \in DOMAIN records' /\ records'[idOf[e]] = e
    <3>1. idOf[e] \in DOMAIN records /\ records[idOf[e]] = e
      BY <2>1 DEF Kept
    <3>2. e # f
      BY <2>0, <2>1 DEF TimersRun
    <3>3. Live(e) /\ Live(f)
      BY <2>0, <2>1, UnexpiredIsLive DEF Live
    <3> QED BY <2>0, <3>1, <3>2, <3>3, LiveApart DEF Without
  <2> QED BY <2>0, <2>1 DEF Kept
<1>5. ASSUME NEW f \in 1 .. stored, Release(f)
      PROVE  Kept'
  BY <1>5 DEF Release, Goto, Without, storeVars, errorVars, threadVars, Kept, OwnsError, Storing,
     TypeOK
<1>6. CASE Tick
  <2>1. \A e \in 1 .. stored : left'[e] > 0 => left[e] > 0
    BY <1>6 DEF Tick, TypeOK
  <2>2. UNCHANGED <<records, takes, stored, idOf, issued, pc, current>>
    BY <1>6 DEF Tick, errorVars, threadVars
  <2> QED BY <2>1, <2>2 DEF Kept
<1> QED BY <1>0, <1>1, <1>2, <1>3, <1>4, <1>5, <1>6 DEF Next

-----------------------------------------------------------------------------
LEMMA NextIInv ==
  ASSUME IInv, [Next]_vars
  PROVE  IInv'
BY TypeStep, OwnsStep, SequenceStep, IdsStep, RecentStep, TimersStep, IndexedStep, TakesStep,
   KeptStep DEF IInv

LEMMA AlwaysIInv == Spec => []IInv
BY InitIInv, NextIInv, PTL DEF Spec

(* No two live errors have the same id, before and after the sequence      *)
(* wrapped.                                                                *)
THEOREM LiveIdsDifferHolds == Spec => []LiveIdsDiffer
<1>1. IInv => LiveIdsDiffer
  BY LiveApart DEF IInv, LiveIdsDiffer
<1> QED BY <1>1, AlwaysIInv, PTL

(* A record nobody took is there until it expires. *)
THEOREM KeptUntilExpiryHolds == Spec => []KeptUntilExpiry
<1>1. IInv => KeptUntilExpiry
  BY DEF IInv, Kept, KeptUntilExpiry, TypeOK
<1> QED BY <1>1, AlwaysIInv, PTL

-----------------------------------------------------------------------------
(***************************************************************************)
(* ErrorStore implements ErrorTexts.  The second invariant speaks of the   *)
(* records: all are of live errors that were opened, and of none that was  *)
(* taken, so that a new record replaces none and a timer or a take removes *)
(* its own.                                                                *)
(***************************************************************************)
RecordsOpened == \A id \in DOMAIN records : records[id] \in Opened
RecordsLive == \A id \in DOMAIN records : Live(records[id])
RecordsUntaken == \A id \in DOMAIN records : takes[records[id]] = 0
TakenOpened == \A e \in Errors : takes[e] > 0 => e \in Opened

(* A text is pinned until its length is known. *)
PinnedForTake == \A t \in Threads : pc[t] = "length" => current[t] \in pinned

(* No other pin: of a text that nobody took only the take under way has    *)
(* one, which a failed take gives back.                                    *)
PinsTaken == \A e \in pinned : takes[e] > 0 \/ e \in BeingTaken

RecordsAreMap == records = [id \in DOMAIN records |-> records[id]]

TInv ==
  /\ RecordsAreMap
  /\ RecordsOpened
  /\ RecordsLive
  /\ RecordsUntaken
  /\ TakenOpened
  /\ PinnedForTake
  /\ PinsTaken

(* Only Store opens an error, one that had not been opened. *)
LEMMA OpenedByStore ==
  ASSUME IInv, NEW t \in Threads, Store(t)
  PROVE  /\ current[t] \in 1 .. stored /\ current[t] \notin Opened
         /\ Opened' = Opened \cup {current[t]}
<1>1. /\ current[t] \in 1 .. stored /\ current[t] \notin issued /\ pc[t] = "store"
      /\ \A u \in Threads : pc[u] = "schedule" => current[u] # current[t]
  BY DEF IInv, OwnsError, Storing, Store
<1>2. /\ pc' = [pc EXCEPT ![t] = "schedule"] /\ UNCHANGED <<stored, issued, current>>
  BY DEF Store, Goto, errorVars
<1> QED BY <1>1, <1>2 DEF Opened, IInv, TypeOK

LEMMA OpenedStays ==
  ASSUME IInv, [Next]_vars, \A t \in Threads : ~Store(t)
  PROVE  Opened' = Opened
<1> USE DEF Opened
<1>0. CASE UNCHANGED vars
  BY <1>0 DEF vars, errorVars, threadVars
<1>1. ASSUME NEW t \in Threads, StoreError(t) \/ ThreadStep(t)
      PROVE  Opened' = Opened
  <2>1. CASE StoreError(t)
    BY <2>1 DEF StoreError, Goto, errorVars, IInv, TypeOK
  <2>2. CASE LoadSeq(t)
    BY <2>2 DEF LoadSeq, Goto, errorVars, IInv, TypeOK
  <2>3. CASE Swap(t)
    <3>1. /\ stored \in Nat /\ stored' = stored + 1 /\ UNCHANGED issued /\ issued \subseteq 1 .. stored
          /\ pc[t] = "cas" /\ pc' = [pc EXCEPT ![t] = "stamp"]
          /\ current' = [current EXCEPT ![t] = stored + 1]
      BY <2>3 DEF Swap, Given, Goto, IInv, TypeOK
    <3>2. \A u \in Threads : pc[u] = "schedule" => current[u] \in 1 .. stored
      BY DEF IInv, OwnsError, Storing
    <3>3. \A u \in Threads : pc'[u] = "schedule" <=> pc[u] = "schedule"
      BY <3>1 DEF IInv, TypeOK
    <3>4. \A u \in Threads : pc[u] = "schedule" => current'[u] = current[u]
      BY <3>1 DEF IInv, TypeOK
    <3> QED BY <3>1, <3>2, <3>3, <3>4
  <2>4. CASE SwapFails(t)
    BY <2>4 DEF SwapFails, Goto, errorVars, IInv, TypeOK
  <2>5. CASE Stamp(t)
    BY <2>5 DEF Stamp, Goto, errorVars, IInv, TypeOK
  <2>6. CASE Schedule(t)
    <3>1. /\ pc[t] = "schedule" /\ pc' = [pc EXCEPT ![t] = "idle"]
          /\ issued' = issued \cup {current[t]} /\ UNCHANGED <<stored, current>>
      BY <2>6 DEF Schedule, Goto
    <3>2. \A u \in Threads : pc'[u] = "schedule" <=> pc[u] = "schedule" /\ u # t
      BY <3>1 DEF IInv, TypeOK
    <3> QED BY <3>1, <3>2
  <2>7. CASE PinText(t)
    BY <2>7 DEF PinText, Goto, errorVars, IInv, TypeOK
  <2>8. CASE PrepareFails(t)
    BY <2>8 DEF PrepareFails, Goto, errorVars, IInv, TypeOK
  <2>9. CASE TakeRecord(t)
    BY <2>9 DEF TakeRecord, Goto, errorVars, IInv, TypeOK
  <2> QED BY <1>1, <2>1, <2>2, <2>3, <2>4, <2>5, <2>6, <2>7, <2>8, <2>9 DEF ThreadStep
<1>2. ASSUME NEW t \in Threads, NEW id \in Ids, TakeMissing(t, id) \/ TakePrepared(t, id)
      PROVE  Opened' = Opened
  BY <1>2 DEF TakeMissing, TakePrepared, Goto, errorVars, threadVars, IInv, TypeOK
<1>3. ASSUME NEW f \in 1 .. stored, Fire(f) \/ Release(f)
      PROVE  Opened' = Opened
  BY <1>3 DEF Fire, Release, errorVars, threadVars
<1>4. CASE Tick
  BY <1>4 DEF Tick, errorVars, threadVars
<1> QED BY <1>0, <1>1, <1>2, <1>3, <1>4 DEF Next

(* A live error stays so until its timer fires. *)
LEMMA LiveStays ==
  ASSUME IInv, [Next]_vars, NEW e \in 1 .. stored, Live(e), ~Fire(e)
  PROVE  Live(e)'
<1> USE DEF Live
<1>0. CASE UNCHANGED vars
  BY <1>0 DEF vars, storeVars, threadVars
<1>1. ASSUME NEW t \in Threads, StoreError(t) \/ ThreadStep(t)
      PROVE  Live(e)'
  <2>1. CASE StoreError(t)
    BY <2>1 DEF StoreError, Goto, storeVars, threadVars, IInv, TypeOK
  <2>2. CASE LoadSeq(t)
    BY <2>2 DEF LoadSeq, Goto, storeVars, threadVars, IInv, TypeOK
  <2>3. CASE Swap(t)
    BY <2>3 DEF Swap, Given, Goto, storeVars, threadVars, IInv, TypeOK
  <2>4. CASE SwapFails(t)
    BY <2>4 DEF SwapFails, Goto, storeVars, threadVars, IInv, TypeOK
  <2>5. CASE Stamp(t)
    BY <2>5 DEF Stamp, Goto, storeVars, threadVars, IInv, TypeOK
  <2>6. CASE Store(t)
    BY <2>6 DEF Store, Goto, storeVars, threadVars, IInv, TypeOK
  <2>7. CASE Schedule(t)
    BY <2>7 DEF Schedule, Goto, storeVars, threadVars, IInv, TypeOK
  <2>8. CASE PinText(t)
    BY <2>8 DEF PinText, Goto, storeVars, threadVars, IInv, TypeOK
  <2>9. CASE PrepareFails(t)
    BY <2>9 DEF PrepareFails, Goto, storeVars, threadVars, IInv, TypeOK
  <2>10. CASE TakeRecord(t)
    BY <2>10 DEF TakeRecord, Goto, storeVars, threadVars, IInv, TypeOK
  <2> QED BY <1>1, <2>1, <2>2, <2>3, <2>4, <2>5, <2>6, <2>7, <2>8, <2>9, <2>10 DEF ThreadStep
<1>2. ASSUME NEW t \in Threads, NEW id \in Ids, TakeMissing(t, id) \/ TakePrepared(t, id)
      PROVE  Live(e)'
  BY <1>2 DEF TakeMissing, TakePrepared, Goto, storeVars, threadVars, IInv, TypeOK
<1>3. ASSUME NEW f \in 1 .. stored, Fire(f) \/ Release(f)
      PROVE  Live(e)'
  BY <1>3 DEF Fire, Release, storeVars, threadVars
<1>4. CASE Tick
  BY <1>4 DEF Tick, threadVars
<1> QED BY <1>0, <1>1, <1>2, <1>3, <1>4 DEF Next

(* A timer that fires removes the record of its own error, or none. *)
LEMMA FireRemovesOwn ==
  ASSUME IInv, TInv, NEW e \in 1 .. stored, Fire(e), idOf[e] \in DOMAIN records
  PROVE  records[idOf[e]] = e /\ left[e] = 0
<1>1. /\ records[idOf[e]] \in 1 .. stored /\ Live(records[idOf[e]])
      /\ idOf[records[idOf[e]]] = idOf[e]
  BY DEF IInv, TInv, RecordsLive, Indexed, TypeOK
<1>2. Live(e) /\ e \in issued /\ due[e] = 0 /\ e \in Errors
  BY ErrorsAssumption DEF Fire, Live, IInv, OwnsError, TypeOK, Errors
<1>3. left[e] = 0
  BY <1>2, ErrorsAssumption DEF IInv, TimersRun, TypeOK
<1> QED BY <1>1, <1>2, <1>3, LiveApart DEF IInv

(* A record that is stored replaces none. *)
LEMMA StoreReplacesNone ==
  ASSUME IInv, TInv, NEW t \in Threads, Store(t)
  PROVE  idOf[current[t]] \notin DOMAIN records
<1> SUFFICES ASSUME idOf[current[t]] \in DOMAIN records PROVE FALSE
  OBVIOUS
<1> DEFINE f == records[idOf[current[t]]]
<1>1. current[t] \in 1 .. stored /\ current[t] \notin Opened /\ Live(current[t])
  BY OpenedByStore DEF Store, Live
<1>2. f \in 1 .. stored /\ f \in Opened /\ Live(f) /\ idOf[f] = idOf[current[t]]
  BY DEF IInv, TInv, RecordsOpened, RecordsLive, Indexed, TypeOK
<1> QED BY <1>1, <1>2, LiveApart DEF IInv

(* Where the records after a step come from. *)
LEMMA RecordsFrom ==
  ASSUME IInv, [Next]_vars, NEW id \in DOMAIN records'
  PROVE  \/ id \in DOMAIN records /\ records'[id] = records[id]
         \/ \E t \in Threads : Store(t) /\ id = idOf[current[t]] /\ records'[id] = current[t]
<1> DEFINE Goal ==
      \/ id \in DOMAIN records /\ records'[id] = records[id]
      \/ \E t \in Threads : Store(t) /\ id = idOf[current[t]] /\ records'[id] = current[t]
<1>0. CASE UNCHANGED vars
  BY <1>0 DEF vars, storeVars
<1>1. ASSUME NEW t \in Threads, StoreError(t) \/ ThreadStep(t)
      PROVE  Goal
  <2>1. CASE StoreError(t)
    BY <2>1 DEF StoreError, Goto, storeVars
  <2>2. CASE LoadSeq(t)
    BY <2>2 DEF LoadSeq, Goto, storeVars
  <2>3. CASE Swap(t)
    BY <2>3 DEF Swap, Given, Goto, storeVars
  <2>4. CASE SwapFails(t)
    BY <2>4 DEF SwapFails, Goto, storeVars
  <2>5. CASE Stamp(t)
    BY <2>5 DEF Stamp, Goto, storeVars
  <2>6. CASE Store(t)
    <3>1. records' = [i \in DOMAIN records \cup {idOf[current[t]]} |->
                        IF i = idOf[current[t]] THEN current[t] ELSE records[i]]
      BY <2>6 DEF Store
    <3> QED BY <2>6, <3>1
  <2>7. CASE Schedule(t)
    BY <2>7 DEF Schedule, Goto, storeVars
  <2>8. CASE PinText(t)
    BY <2>8 DEF PinText, Goto, storeVars
  <2>9. CASE PrepareFails(t)
    BY <2>9 DEF PrepareFails, Goto, storeVars
  <2>10. CASE TakeRecord(t)
    BY <2>10 DEF TakeRecord, Without
  <2> QED BY <1>1, <2>1, <2>2, <2>3, <2>4, <2>5, <2>6, <2>7, <2>8, <2>9, <2>10 DEF ThreadStep
<1>2. ASSUME NEW t \in Threads, NEW i \in Ids, TakeMissing(t, i) \/ TakePrepared(t, i)
      PROVE  Goal
  BY <1>2 DEF TakeMissing, TakePrepared, Without, storeVars
<1>3. ASSUME NEW f \in 1 .. stored, Fire(f) \/ Release(f)
      PROVE  Goal
  BY <1>3 DEF Fire, Release, Without, storeVars
<1>4. CASE Tick
  BY <1>4 DEF Tick
<1> QED BY <1>0, <1>1, <1>2, <1>3, <1>4 DEF Next

(* Only TakeRecord counts a take, of the record it removes. *)
LEMMA TakesStay ==
  ASSUME IInv, [Next]_vars, \A t \in Threads : ~TakeRecord(t)
  PROVE  takes' = takes
<1>0. CASE UNCHANGED vars
  BY <1>0 DEF vars
<1>1. ASSUME NEW t \in Threads, StoreError(t) \/ ThreadStep(t)
      PROVE  takes' = takes
  BY <1>1 DEF ThreadStep, StoreError, LoadSeq, Swap, Given, SwapFails, Stamp, Store, Schedule,
     PinText, PrepareFails
<1>2. ASSUME NEW t \in Threads, NEW id \in Ids, TakeMissing(t, id) \/ TakePrepared(t, id)
      PROVE  takes' = takes
  BY <1>2 DEF TakeMissing, TakePrepared
<1>3. ASSUME NEW f \in 1 .. stored, Fire(f) \/ Release(f)
      PROVE  takes' = takes
  BY <1>3 DEF Fire, Release
<1>4. CASE Tick
  BY <1>4 DEF Tick
<1> QED BY <1>0, <1>1, <1>2, <1>3, <1>4 DEF Next

LEMMA StoredAreErrors ==
  ASSUME IInv
  PROVE  1 .. stored \subseteq Errors
BY ErrorsAssumption DEF IInv, TypeOK, Errors

LEMMA TakeRecordFacts ==
  ASSUME IInv, NEW t \in Threads, TakeRecord(t)
  PROVE  /\ current[t] \in 1 .. stored /\ current[t] \in Errors
         /\ idOf[current[t]] \in DOMAIN records /\ records[idOf[current[t]]] = current[t]
         /\ records' = Without(idOf[current[t]])
         /\ takes' = [takes EXCEPT ![current[t]] = takes[current[t]] + 1]
         /\ UNCHANGED <<left, pinned, idOf>>
<1>1. pc[t] \in Taking
  BY DEF TakeRecord, Taking
<1>2. /\ current[t] \in 1 .. stored
      /\ idOf[current[t]] \in DOMAIN records /\ records[idOf[current[t]]] = current[t]
  BY <1>1 DEF IInv, TakesUnderMutex
<1>3. current[t] \in Errors
  BY <1>2, StoredAreErrors
<1> QED BY <1>2, <1>3 DEF TakeRecord, errorVars

-----------------------------------------------------------------------------
LEMMA InitTInv == Init => TInv
BY DEF Init, TInv, RecordsAreMap, RecordsOpened, RecordsLive, RecordsUntaken, TakenOpened,
   PinnedForTake, PinsTaken

LEMMA RecordsAreMapStep ==
  ASSUME IInv, TInv, [Next]_vars
  PROVE  RecordsAreMap'
<1> USE DEF TInv, RecordsAreMap
<1>0. CASE UNCHANGED vars
  BY <1>0 DEF vars, storeVars
<1>1. ASSUME NEW t \in Threads, StoreError(t) \/ ThreadStep(t)
      PROVE  RecordsAreMap'
  <2>1. CASE UNCHANGED records
    BY <2>1
  <2>2. CASE Store(t)
    BY <2>2 DEF Store
  <2>3. CASE TakeRecord(t)
    BY <2>3 DEF TakeRecord, Without
  <2> QED BY <1>1, <2>1, <2>2, <2>3 DEF ThreadStep, StoreError, LoadSeq, Swap, Given, SwapFails,
             Stamp, Schedule, PinText, PrepareFails, storeVars
<1>2. ASSUME NEW t \in Threads, NEW id \in Ids, TakeMissing(t, id) \/ TakePrepared(t, id)
      PROVE  RecordsAreMap'
  BY <1>2 DEF TakeMissing, TakePrepared, Without, storeVars
<1>3. ASSUME NEW f \in 1 .. stored, Fire(f) \/ Release(f)
      PROVE  RecordsAreMap'
  BY <1>3 DEF Fire, Release, Without, storeVars
<1>4. CASE Tick
  BY <1>4 DEF Tick
<1> QED BY <1>0, <1>1, <1>2, <1>3, <1>4 DEF Next

LEMMA RecordsOpenedStep ==
  ASSUME IInv, TInv, [Next]_vars
  PROVE  RecordsOpened'
<1> SUFFICES ASSUME NEW id \in DOMAIN records' PROVE records'[id] \in Opened'
  BY DEF RecordsOpened
<1>1. CASE \E t \in Threads : Store(t)
  BY <1>1, RecordsFrom, OpenedByStore DEF TInv, RecordsOpened, Store
<1>2. CASE \A t \in Threads : ~Store(t)
  BY <1>2, RecordsFrom, OpenedStays DEF TInv, RecordsOpened
<1> QED BY <1>1, <1>2

LEMMA RecordsLiveStep ==
  ASSUME IInv, TInv, [Next]_vars
  PROVE  RecordsLive'
<1> SUFFICES ASSUME NEW id \in DOMAIN records' PROVE Live(records[id])'
  BY DEF RecordsLive
<1>1. ASSUME NEW t \in Threads, Store(t), records'[id] = current[t]
      PROVE  Live(records[id])'
  <2>1. pc'[t] = "schedule" /\ current'[t] = records'[id]
    BY <1>1 DEF Store, Goto, IInv, TypeOK
  <2> QED BY <2>1 DEF Live
<1>2. ASSUME id \in DOMAIN records, records'[id] = records[id]
      PROVE  Live(records[id])'
  <2>0. PICK e \in 1 .. stored : e = records[id]
    BY <1>2 DEF IInv, TypeOK
  <2>1. Live(e) /\ idOf[e] = id
    BY <1>2, <2>0 DEF IInv, TInv, RecordsLive, Indexed
  <2>2. ~Fire(e)
    BY <2>1 DEF Fire, Without
  <2>3. Live(e)'
    BY <2>1, <2>2, LiveStays
  <2> QED BY <1>2, <2>0, <2>3 DEF Live
<1> QED BY <1>1, <1>2, RecordsFrom

LEMMA RecordsUntakenStep ==
  ASSUME IInv, TInv, [Next]_vars
  PROVE  RecordsUntaken'
<1> SUFFICES ASSUME NEW id \in DOMAIN records' PROVE takes'[records'[id]] = 0
  BY DEF RecordsUntaken
<1>1. ASSUME NEW t \in Threads, TakeRecord(t)
      PROVE  takes'[records'[id]] = 0
  <2>0. records' = [i \in DOMAIN records \ {idOf[current[t]]} |-> records[i]]
    BY <1>1 DEF TakeRecord, Without
  <2>1. id \in DOMAIN records /\ id # idOf[current[t]] /\ records'[id] = records[id]
    BY <2>0
  <2>2. records[id] \in Errors /\ records[id] # current[t] /\ takes[records[id]] = 0
    BY <2>1, StoredAreErrors DEF IInv, TInv, Indexed, RecordsUntaken, TypeOK
  <2> QED BY <1>1, <2>1, <2>2, TakeRecordFacts DEF IInv, TypeOK
<1>2. ASSUME \A t \in Threads : ~TakeRecord(t)
      PROVE  takes'[records'[id]] = 0
  <2>1. takes' = takes
    BY <1>2, TakesStay
  <2>2. ASSUME NEW t \in Threads, Store(t)
        PROVE  takes[current[t]] = 0
    <3>1. current[t] \in Errors /\ current[t] \notin Opened
      BY <2>2, OpenedByStore, StoredAreErrors
    <3>2. takes[current[t]] \in Nat
      BY <3>1 DEF IInv, TypeOK
    <3> QED BY <3>1, <3>2 DEF TInv, TakenOpened
  <2> QED BY <2>1, <2>2, RecordsFrom DEF TInv, RecordsUntaken
<1> QED BY <1>1, <1>2

LEMMA TakenOpenedStep ==
  ASSUME IInv, TInv, [Next]_vars
  PROVE  TakenOpened'
<1>1. Opened \subseteq Opened'
  BY OpenedByStore, OpenedStays
<1>2. ASSUME NEW t \in Threads, TakeRecord(t), NEW e \in Errors, takes'[e] > 0
      PROVE  takes[e] > 0 \/ e \in Opened
  <2>1. /\ current[t] \in Opened
        /\ takes' = [takes EXCEPT ![current[t]] = takes[current[t]] + 1]
    BY <1>2, TakeRecordFacts DEF TInv, RecordsOpened
  <2> QED BY <1>2, <2>1 DEF IInv, TypeOK
<1>3. ASSUME NEW e \in Errors, takes'[e] > 0
      PROVE  takes[e] > 0 \/ e \in Opened
  BY <1>2, <1>3, TakesStay
<1> QED BY <1>1, <1>3 DEF TInv, TakenOpened

LEMMA PinnedForTakeStep ==
  ASSUME IInv, TInv, [Next]_vars
  PROVE  PinnedForTake'
<1> SUFFICES ASSUME NEW u \in Threads, pc'[u] = "length" PROVE current'[u] \in pinned'
  BY DEF PinnedForTake
<1> USE DEF IInv, TInv, PinnedForTake, TypeOK
<1>0. CASE UNCHANGED vars
  BY <1>0 DEF vars, threadVars
<1>1. ASSUME NEW t \in Threads, StoreError(t) \/ ThreadStep(t)
      PROVE  current'[u] \in pinned'
  <2>1. CASE StoreError(t)
    BY <2>1 DEF StoreError, Goto, storeVars, threadVars
  <2>2. CASE LoadSeq(t)
    BY <2>2 DEF LoadSeq, Goto, storeVars, threadVars
  <2>3. CASE Swap(t)
    BY <2>3 DEF Swap, Given, Goto, storeVars, threadVars
  <2>4. CASE SwapFails(t)
    BY <2>4 DEF SwapFails, Goto, storeVars, threadVars
  <2>5. CASE Stamp(t)
    BY <2>5 DEF Stamp, Goto, storeVars, threadVars
  <2>6. CASE Store(t)
    BY <2>6 DEF Store, Goto, storeVars, threadVars
  <2>7. CASE Schedule(t)
    BY <2>7 DEF Schedule, Goto, storeVars, threadVars
  <2>8. CASE PinText(t)
    BY <2>8 DEF PinText, Goto, storeVars, threadVars
  <2>9. CASE PrepareFails(t)
    <3>1. u # t /\ pc[u] = "length" /\ current'[u] = current[u] /\ pc[t] \in Taking
      BY <2>9 DEF PrepareFails, Goto, Taking
    <3>2. FALSE
      BY <3>1 DEF TakesUnderMutex, Taking
    <3> QED BY <3>2
  <2>10. CASE TakeRecord(t)
    BY <2>10 DEF TakeRecord, Goto, storeVars, threadVars
  <2> QED BY <1>1, <2>1, <2>2, <2>3, <2>4, <2>5, <2>6, <2>7, <2>8, <2>9, <2>10 DEF ThreadStep
<1>2. ASSUME NEW t \in Threads, NEW id \in Ids, TakeMissing(t, id) \/ TakePrepared(t, id)
      PROVE  current'[u] \in pinned'
  BY <1>2 DEF TakeMissing, TakePrepared, Goto, storeVars, threadVars
<1>3. ASSUME NEW f \in 1 .. stored, Fire(f)
      PROVE  current'[u] \in pinned'
  BY <1>3 DEF Fire, threadVars
<1>4. ASSUME NEW f \in 1 .. stored, Release(f)
      PROVE  current'[u] \in pinned'
  <2>1. pc[u] = "length" /\ current'[u] = current[u]
    BY <1>4 DEF Release, threadVars
  <2>2. idOf[current[u]] \in DOMAIN records /\ records[idOf[current[u]]] = current[u]
    BY <2>1 DEF TakesUnderMutex, Taking
  <2>3. current[u] # f
    BY <1>4, <2>2 DEF Release, RecordsUntaken
  <2> QED BY <1>4, <2>1, <2>3 DEF Release
<1>5. CASE Tick
  BY <1>5 DEF Tick, threadVars
<1> QED BY <1>0, <1>1, <1>2, <1>3, <1>4, <1>5 DEF Next

LEMMA PinsTakenStep ==
  ASSUME IInv, TInv, [Next]_vars
  PROVE  PinsTaken'
<1> SUFFICES ASSUME NEW e \in pinned' PROVE takes'[e] > 0 \/ e \in BeingTaken'
  BY DEF PinsTaken
<1>1. ASSUME e \in pinned, UNCHANGED <<pinned, takes>>, BeingTaken \subseteq BeingTaken'
      PROVE  takes'[e] > 0 \/ e \in BeingTaken'
  BY <1>1 DEF TInv, PinsTaken
<1>2. ASSUME NEW t \in Threads, pc[t] # "length", UNCHANGED current,
             \A u \in Threads \ {t} : pc'[u] = pc[u]
      PROVE  BeingTaken \subseteq BeingTaken'
  BY <1>2 DEF BeingTaken
<1> USE DEF IInv, TypeOK
<1>3. CASE UNCHANGED vars
  BY <1>1, <1>3 DEF vars, threadVars, BeingTaken
<1>4. ASSUME NEW t \in Threads, StoreError(t) \/ ThreadStep(t)
      PROVE  takes'[e] > 0 \/ e \in BeingTaken'
  <2>1. CASE StoreError(t)
    BY <1>1, <1>2, <2>1 DEF StoreError, Goto
  <2>2. CASE LoadSeq(t)
    BY <1>1, <1>2, <2>2 DEF LoadSeq, Goto
  <2>3. CASE Swap(t)
    <3>1. /\ pc[t] # "length" /\ \A u \in Threads \ {t} : pc'[u] = pc[u] /\ current'[u] = current[u]
          /\ UNCHANGED <<pinned, takes>>
      BY <2>3 DEF Swap, Given, Goto
    <3>2. BeingTaken \subseteq BeingTaken'
      BY <3>1 DEF BeingTaken
    <3> QED BY <1>1, <3>1, <3>2
  <2>4. CASE SwapFails(t)
    BY <1>1, <1>2, <2>4 DEF SwapFails, Goto
  <2>5. CASE Stamp(t)
    BY <1>1, <1>2, <2>5 DEF Stamp, Goto
  <2>6. CASE Store(t)
    BY <1>1, <1>2, <2>6 DEF Store, Goto, errorVars
  <2>7. CASE Schedule(t)
    BY <1>1, <1>2, <2>7 DEF Schedule, Goto
  <2>8. CASE PinText(t)
    <3>1. BeingTaken \subseteq BeingTaken' /\ UNCHANGED takes
      BY <1>2, <2>8 DEF PinText, Goto
    <3>2. pinned' = pinned \cup {current[t]} /\ pc'[t] = "length" /\ current' = current
      BY <2>8 DEF PinText, Goto
    <3>3. current[t] \in BeingTaken'
      BY <3>2 DEF BeingTaken
    <3> QED BY <3>1, <3>2, <3>3 DEF TInv, PinsTaken
  <2>9. CASE PrepareFails(t)
    <3>1. /\ UNCHANGED <<takes, current>> /\ \A u \in Threads \ {t} : pc'[u] = pc[u]
          /\ e \in pinned /\ (pc[t] = "length" => e # current[t])
      BY <2>9 DEF PrepareFails, Goto
    <3>2. ASSUME e \in BeingTaken PROVE e \in BeingTaken'
      BY <3>1, <3>2 DEF BeingTaken
    <3> QED BY <3>1, <3>2 DEF TInv, PinsTaken
  <2>10. CASE TakeRecord(t)
    <3>1. /\ UNCHANGED <<pinned, current>> /\ \A u \in Threads \ {t} : pc'[u] = pc[u]
          /\ takes' = [takes EXCEPT ![current[t]] = takes[current[t]] + 1]
      BY <2>10 DEF TakeRecord, Goto
    <3>2. e \in Errors /\ takes[e] \in Nat
      BY <3>1, StoredAreErrors
    <3>3. ASSUME e # current[t], e \in BeingTaken PROVE e \in BeingTaken'
      BY <3>1, <3>3 DEF BeingTaken
    <3> QED BY <3>1, <3>2, <3>3 DEF TInv, PinsTaken
  <2> QED BY <1>4, <2>1, <2>2, <2>3, <2>4, <2>5, <2>6, <2>7, <2>8, <2>9, <2>10 DEF ThreadStep
<1>5. ASSUME NEW t \in Threads, NEW id \in Ids, TakeMissing(t, id)
      PROVE  takes'[e] > 0 \/ e \in BeingTaken'
  BY <1>1, <1>5 DEF TakeMissing, threadVars, BeingTaken
<1>6. ASSUME NEW t \in Threads, NEW id \in Ids, TakePrepared(t, id)
      PROVE  takes'[e] > 0 \/ e \in BeingTaken'
  <2>1. /\ pc[t] # "length" /\ \A u \in Threads \ {t} : pc'[u] = pc[u] /\ current'[u] = current[u]
        /\ UNCHANGED <<pinned, takes>>
    BY <1>6 DEF TakePrepared, Goto
  <2>2. BeingTaken \subseteq BeingTaken'
    BY <2>1 DEF BeingTaken
  <2> QED BY <1>1, <2>1, <2>2
<1>7. ASSUME NEW f \in 1 .. stored, Fire(f) \/ Release(f)
      PROVE  takes'[e] > 0 \/ e \in BeingTaken'
  <2>1. e \in pinned /\ UNCHANGED <<takes, pc, current>>
    BY <1>7 DEF Fire, Release, threadVars
  <2> QED BY <2>1 DEF TInv, PinsTaken, BeingTaken
<1>8. CASE Tick
  BY <1>1, <1>8 DEF Tick, threadVars, BeingTaken
<1> QED BY <1>3, <1>4, <1>5, <1>6, <1>7, <1>8 DEF Next

LEMMA TInvStep == ASSUME IInv, TInv, [Next]_vars PROVE TInv'
BY RecordsAreMapStep, RecordsOpenedStep, RecordsLiveStep, RecordsUntakenStep, TakenOpenedStep,
   PinnedForTakeStep, PinsTakenStep DEF TInv

LEMMA AlwaysTInv == Spec => [](IInv /\ TInv)
BY InitIInv, NextIInv, InitTInv, TInvStep, PTL DEF Spec

(* So the texts that count as held are those whose take succeeded.         *)
TakenTexts == {e \in pinned : takes[e] > 0}

LEMMA HeldStep ==
  ASSUME IInv, TInv, [Next]_vars
  PROVE  Held = TakenTexts /\ Held' = TakenTexts'
<1>1. Held = TakenTexts
  <2>1. \A e \in BeingTaken : takes[e] = 0
    BY DEF BeingTaken, IInv, TInv, TakesUnderMutex, Taking, RecordsUntaken
  <2>2. \A e \in pinned : takes[e] > 0 \/ e \in BeingTaken
    BY DEF TInv, PinsTaken
  <2> QED BY <2>1, <2>2 DEF Held, TakenTexts
<1>2. Held' = TakenTexts'
  <2>0. IInv' /\ TInv'
    BY NextIInv, TInvStep
  <2>1. \A e \in BeingTaken' : takes'[e] = 0
    BY <2>0 DEF BeingTaken, IInv, TInv, TakesUnderMutex, Taking, RecordsUntaken
  <2>2. \A e \in pinned' : takes'[e] > 0 \/ e \in BeingTaken'
    BY <2>0 DEF TInv, PinsTaken
  <2> QED BY <2>1, <2>2 DEF Held, TakenTexts
<1> QED BY <1>1, <1>2

(* No record is forgotten: the one that stored it is about to start its    *)
(* timer, or the timer is pending.  A wrap of the ids loses none.          *)
THEOREM NoRecordForgotten == Spec => []RecordsLive
<1>1. IInv /\ TInv => RecordsLive
  BY DEF TInv
<1> QED BY <1>1, AlwaysTInv, PTL

-----------------------------------------------------------------------------
LEMMA TextsInit == Init => Texts!Init
<1> SUFFICES ASSUME Init PROVE Texts!Init
  OBVIOUS
<1>1. Opened = {} /\ Expired = {} /\ Held = {}
  BY DEF Init, Opened, Expired, Held
<1>2. records = [id \in {} |-> id]
  BY DEF Init
<1> QED BY <1>1, <1>2 DEF Texts!Init

(* One thread moves at a time. *)
LEMMA OnlyStoreOpens ==
  ASSUME IInv, NEW t \in Threads, StoreError(t) \/ ThreadStep(t), ~Store(t)
  PROVE  \A u \in Threads : ~Store(u)
<1>1. \A u \in Threads \ {t} : pc'[u] = pc[u]
  BY DEF ThreadStep, StoreError, LoadSeq, Swap, Given, SwapFails, Stamp, Store, Schedule, PinText,
     PrepareFails, TakeRecord, Goto, IInv, TypeOK
<1>2. ASSUME NEW u \in Threads, Store(u) PROVE u = t
  BY <1>1, <1>2 DEF Store, Goto, IInv, TypeOK
<1> QED BY <1>2

LEMMA TextsThreadStep ==
  ASSUME IInv, TInv, [Next]_vars, NEW t \in Threads, StoreError(t) \/ ThreadStep(t)
  PROVE  [Texts!Next]_(Texts!vars)
<1>1. CASE Store(t)
  <2> DEFINE e == current[t]
             id == idOf[current[t]]
  <2>1. e \in Errors /\ e \notin Opened /\ Opened' = Opened \cup {e}
    BY <1>1, OpenedByStore, StoredAreErrors
  <2>2. id \in Ids /\ id \notin DOMAIN records
    BY <1>1, OpenedByStore, StoreReplacesNone DEF IInv, TypeOK
  <2>3. /\ records' = [i \in DOMAIN records \cup {id} |-> IF i = id THEN e ELSE records[i]]
        /\ UNCHANGED <<left, pinned, takes>>
    BY <1>1 DEF Store
  <2>4. Expired' \in {Expired, Expired \cup {e}}
    BY <2>1, <2>3 DEF Expired
  <2>5. Held' = Held
    BY <2>3, HeldStep DEF TakenTexts
  <2>6. Texts!Open(e, id)
    BY <2>1, <2>2, <2>3, <2>4, <2>5 DEF Texts!Open
  <2> QED BY <2>1, <2>2, <2>6 DEF Texts!Next
<1>2. CASE TakeRecord(t)
  <2> DEFINE e == current[t]
             id == idOf[current[t]]
  <2>1. /\ e \in Errors /\ id \in DOMAIN records /\ records[id] = e
        /\ records' = Without(id)
        /\ takes' = [takes EXCEPT ![e] = takes[e] + 1]
        /\ UNCHANGED <<left, pinned>>
    BY <1>2, TakeRecordFacts
  <2>2. Opened' = Opened
    BY <1>2, OpenedStays, OnlyStoreOpens DEF TakeRecord, Store, ThreadStep
  <2>3. Expired' = Expired
    BY <2>1, <2>2 DEF Expired
  <2>4. e \in pinned
    BY <1>2 DEF TInv, PinnedForTake, TakeRecord
  <2>5. Held' = Held \cup {e}
    <3>1. \A f \in pinned : takes'[f] > 0 <=> takes[f] > 0 \/ f = e
      BY <2>1, StoredAreErrors DEF IInv, TypeOK
    <3> QED BY <2>1, <2>4, <3>1, HeldStep DEF TakenTexts
  <2>6. Texts!Take(id)
    BY <2>1, <2>2, <2>3, <2>5 DEF Texts!Take, Texts!Closed, Without
  <2>7. id \in Ids
    BY <2>1 DEF IInv, TypeOK
  <2> QED BY <2>6, <2>7 DEF Texts!Next
<1>3. ASSUME ~Store(t), ~TakeRecord(t)
      PROVE  UNCHANGED (Texts!vars)
  <2>1. Opened' = Opened
    BY <1>3, OpenedStays, OnlyStoreOpens
  <2>2. UNCHANGED <<records, takes>>
    BY <1>3 DEF ThreadStep, StoreError, LoadSeq, Swap, Given, SwapFails, Stamp, Schedule, PinText,
       PrepareFails, storeVars
  <2>3. Expired' = Expired
    <3>1. CASE Stamp(t)
      <4>1. current[t] \notin Opened
        BY <3>1 DEF Stamp, Opened, IInv, OwnsError, Storing
      <4>2. \A e \in Opened : left'[e] = left[e]
        BY <3>1, <4>1, StoredAreErrors DEF Stamp, Opened, IInv, TypeOK
      <4> QED BY <2>1, <4>2 DEF Expired
    <3>2. CASE ~Stamp(t)
      <4>1. UNCHANGED left
        BY <1>3, <3>2 DEF ThreadStep, StoreError, LoadSeq, Swap, Given, SwapFails, Schedule,
           PinText,
           PrepareFails, storeVars
      <4> QED BY <2>1, <4>1 DEF Expired
    <3> QED BY <3>1, <3>2
  <2>4. Held' = Held
    <3>1. CASE PinText(t) \/ PrepareFails(t)
      <4>1. pc[t] \in Taking
        BY <3>1 DEF PinText, PrepareFails, Taking
      <4>2. takes[current[t]] = 0
        BY <4>1 DEF IInv, TInv, TakesUnderMutex, RecordsUntaken
      <4>3. pinned' \ {current[t]} = pinned \ {current[t]}
        BY <3>1 DEF PinText, PrepareFails
      <4> QED BY <2>2, <4>2, <4>3, HeldStep DEF TakenTexts
    <3>2. CASE ~PinText(t) /\ ~PrepareFails(t)
      <4>1. UNCHANGED pinned
        BY <1>3, <3>2 DEF ThreadStep, StoreError, LoadSeq, Swap, Given, SwapFails, Stamp, Schedule
      <4> QED BY <2>2, <4>1, HeldStep DEF TakenTexts
    <3> QED BY <3>1, <3>2
  <2> QED BY <2>1, <2>2, <2>3, <2>4 DEF Texts!vars
<1> QED BY <1>1, <1>2, <1>3

LEMMA TextsStep ==
  ASSUME IInv, TInv, [Next]_vars
  PROVE  [Texts!Next]_(Texts!vars)
<1>0. CASE UNCHANGED vars
  BY <1>0 DEF vars, storeVars, errorVars, threadVars, Texts!vars, Opened, Expired, Held, BeingTaken
<1>1. ASSUME NEW t \in Threads, StoreError(t) \/ ThreadStep(t)
      PROVE  [Texts!Next]_(Texts!vars)
  BY <1>1, TextsThreadStep
<1>2. ASSUME NEW t \in Threads, NEW id \in Ids, TakeMissing(t, id)
      PROVE  [Texts!Next]_(Texts!vars)
  <2>1. /\ id \in DOMAIN records /\ left[records[id]] = 0 /\ records' = Without(id)
        /\ UNCHANGED <<left, pinned, takes, issued, stored, pc, current>>
    BY <1>2 DEF TakeMissing, errorVars, threadVars
  <2>2. Opened' = Opened /\ Expired' = Expired /\ Held' = Held
    BY <2>1, HeldStep DEF Opened, Expired, TakenTexts
  <2>3. records[id] \in Expired
    BY <2>1 DEF TInv, RecordsOpened, Expired
  <2>4. Texts!Drop(id)
    BY <2>1, <2>2, <2>3 DEF Texts!Drop, Texts!Closed, Without
  <2> QED BY <2>4 DEF Texts!Next
<1>3. ASSUME NEW t \in Threads, NEW id \in Ids, TakePrepared(t, id)
      PROVE  [Texts!Next]_(Texts!vars)
  <2>1. \A u \in Threads : ~Store(u)
    BY <1>3 DEF TakePrepared, Store, Goto, IInv, TypeOK
  <2>2. Opened' = Opened
    BY <2>1, OpenedStays
  <2>3. UNCHANGED <<records, left, pinned, takes>>
    BY <1>3 DEF TakePrepared, storeVars
  <2> QED BY <2>2, <2>3, HeldStep DEF Texts!vars, Expired, TakenTexts
<1>4. ASSUME NEW e \in 1 .. stored, Fire(e)
      PROVE  [Texts!Next]_(Texts!vars)
  <2>1. /\ records' = Without(idOf[e])
        /\ UNCHANGED <<left, pinned, takes, issued, stored, pc, current>>
    BY <1>4 DEF Fire, errorVars, threadVars
  <2>2. Opened' = Opened /\ Expired' = Expired /\ Held' = Held
    BY <2>1, HeldStep DEF Opened, Expired, TakenTexts
  <2>3. CASE idOf[e] \in DOMAIN records
    <3>1. records[idOf[e]] = e /\ left[e] = 0
      BY <1>4, <2>3, FireRemovesOwn
    <3>2. records[idOf[e]] \in Expired
      BY <2>3, <3>1 DEF TInv, RecordsOpened, Expired
    <3>3. Texts!Drop(idOf[e])
      BY <2>1, <2>2, <2>3, <3>2 DEF Texts!Drop, Texts!Closed, Without
    <3>4. idOf[e] \in Ids
      BY DEF IInv, TypeOK
    <3> QED BY <3>3, <3>4 DEF Texts!Next
  <2>4. CASE idOf[e] \notin DOMAIN records
    <3>1. records' = records
      BY <2>1, <2>4 DEF Without, TInv, RecordsAreMap
    <3> QED BY <2>2, <3>1 DEF Texts!vars
  <2> QED BY <2>3, <2>4
<1>5. ASSUME NEW e \in 1 .. stored, Release(e)
      PROVE  [Texts!Next]_(Texts!vars)
  <2>1. /\ e \in pinned /\ takes[e] > 0 /\ pinned' = pinned \ {e}
        /\ UNCHANGED <<records, left, takes, issued, stored, pc, current>>
    BY <1>5 DEF Release, storeVars, errorVars, threadVars
  <2>2. Opened' = Opened /\ Expired' = Expired
    BY <2>1 DEF Opened, Expired
  <2>3. e \in Held /\ Held' = Held \ {e}
    BY <2>1, HeldStep DEF TakenTexts
  <2>4. Texts!GiveBack(e)
    BY <2>1, <2>2, <2>3 DEF Texts!GiveBack
  <2> QED BY <2>4, StoredAreErrors DEF Texts!Next
<1>6. CASE Tick
  <2>1. /\ left' = [e \in Errors |-> IF left[e] > 0 THEN left[e] - 1 ELSE 0]
        /\ UNCHANGED <<records, pinned, takes, issued, stored, pc, current>>
    BY <1>6 DEF Tick, errorVars, threadVars
  <2>2. Opened' = Opened /\ Held' = Held
    BY <2>1, HeldStep DEF Opened, TakenTexts
  <2>3. \A e \in Opened : left[e] = 0 => left'[e] = 0
    BY <2>1, StoredAreErrors DEF Opened
  <2>4. Expired' \subseteq Opened /\ Expired' = Expired \cup Expired'
    BY <2>2, <2>3 DEF Expired
  <2>5. PICK some \in SUBSET Opened : Expired' = Expired \cup some
    BY <2>4
  <2>6. Texts!Expire(some)
    BY <2>1, <2>2, <2>5 DEF Texts!Expire
  <2> QED BY <2>6 DEF Texts!Next
<1> QED BY <1>0, <1>1, <1>2, <1>3, <1>4, <1>5, <1>6 DEF Next

(* StoreError and the takes implement what an ErrorID promises: it leads   *)
(* to one error's text at a time, which nothing but its expiry removes and *)
(* one client takes, for any number of threads, errors and ids and through *)
(* any number of wraps of the sequence.                                    *)
THEOREM TextsRefinement == Spec => TextsSpec
<1>1. Spec => Texts!Init /\ [][Texts!Next]_(Texts!vars)
  BY AlwaysTInv, TextsInit, TextsStep, PTL DEF Spec
<1> QED BY <1>1 DEF TextsSpec, Texts!Spec

=============================================================================
