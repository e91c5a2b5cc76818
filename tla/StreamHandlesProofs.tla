------------------------- MODULE StreamHandlesProofs -------------------------
(***************************************************************************)
(* Proofs about StreamHandles and HandleProbe, for any number of client    *)
(* threads: until more streams are started than there are handles          *)
(* (2^31 - 1 in the code), a handle means one stream; in any state, types  *)
(* hold, a Start is refused only when every handle is in use, and the loop *)
(* that looks for a handle finds the one the model takes.                  *)
(***************************************************************************)
EXTENDS HandleProbe, FiniteSetTheorems, WellFoundedInduction, TLAPS

(* The streams that were given a handle, and how many there are. *)
Issued == {s \in Streams : handleOf[s] # 0}
Count == Cardinality(Issued)

(* Handles are handed out in order, 1, 2, 3, ... *)
Numbering ==
  /\ next = IF Count = 0 THEN 0 ELSE IF Count >= MaxHandle THEN 1 ELSE Count + 1
  /\ \A s \in Issued : handleOf[s] <= Count

OneHandlePerStream ==
  /\ \A h \in DOMAIN entries : handleOf[entries[h]] = h
  /\ \A r, s \in Issued : handleOf[r] = handleOf[s] => r = s

Creating(t) == pc[t] = "create" => op[t] = "start" /\ loaded[t] # None /\ handleOf[loaded[t]] = 0
CreatingApart ==
  \A t, u \in Threads : t # u /\ pc[t] = "create" /\ pc[u] = "create" => loaded[t] # loaded[u]

IssuedArg(t) == arg[t] # 0 /\ \E s \in Streams : handleOf[s] = arg[t]
InCall(t) ==
  /\ pc[t] = "load" => IssuedArg(t) /\ op[t] # "start" /\ loaded[t] = None
  /\ pc[t] \in {"source", "remove"} =>
       op[t] # "start" /\ loaded[t] # None /\ arg[t] # 0 /\ handleOf[loaded[t]] = arg[t]
  /\ pc[t] = "remove" => handler[loaded[t]] # "running"
  /\ pc[t] = "idle" /\ op[t] = "cancel" /\ result[t] # "error" =>
       IssuedArg(t) /\ arg[t] \notin DOMAIN entries

ThreadInv == \A t \in Threads : Creating(t) /\ InCall(t)

Outcome ==
  \A s \in Streams :
    /\ s > started => handleOf[s] = 0
    /\ wins[s] <= 1
    /\ wins[s] = 1 => handleOf[s] # 0 /\ handleOf[s] \notin DOMAIN entries
    /\ wins[s] = 0 /\ handleOf[s] # 0 => handleOf[s] \in DOMAIN entries
    /\ handler[s] = "running" /\ handleOf[s] # 0 => handleOf[s] \in DOMAIN entries

HInv ==
  /\ TypeOK
  /\ Numbering
  /\ OneHandlePerStream
  /\ CreatingApart
  /\ ThreadInv
  /\ Outcome

-----------------------------------------------------------------------------
LEMMA IssuedFinite == IsFiniteSet(Issued) /\ Count \in Nat
<1>1. IsFiniteSet(Streams)
  BY FS_Interval, HandlesAssumption DEF Streams
<1>2. Issued \in SUBSET Streams
  BY DEF Issued
<1>3. IsFiniteSet(Issued)
  BY <1>1, <1>2, FS_Subset
<1>4. QED BY <1>3, FS_CardinalityType DEF Count

LEMMA InitHInv == Init => HInv
<1> SUFFICES ASSUME Init PROVE HInv
    OBVIOUS
<1>1. Issued = {} /\ Count = 0
  <2>1. Issued = {}
    BY DEF Init, Issued
  <2>2. QED BY <2>1, FS_EmptySet DEF Count
<1>2. TypeOK
  <2>1. shape \in [Streams -> {"client", "server", "bidi", "direct"}]
    BY HandlesAssumption DEF Init
  <2>2. DOMAIN entries = {}
    BY DEF Init
  <2>3. /\ handleOf \in [Streams -> 0 .. MaxHandle]
        /\ handler \in [Streams -> {"running", "ok", "failed"}]
        /\ wins \in [Streams -> Nat]
    BY HandlesAssumption DEF Init
  <2>4. /\ pc \in [Threads -> {"idle", "create", "load", "source", "remove"}]
        /\ op \in [Threads -> {"none", "start", "finish", "recv", "cancel"}]
        /\ arg \in [Threads -> 0 .. MaxHandle]
        /\ loaded \in [Threads -> 0 .. started]
        /\ result \in [Threads -> {"none", "ok", "error", "invalid", "eof", "exhausted"}]
    BY HandlesAssumption DEF Init, None
  <2>5. next \in 0 .. MaxHandle /\ started \in 0 .. MaxStreams
    BY HandlesAssumption DEF Init
  <2>6. QED BY <2>1, <2>2, <2>3, <2>4, <2>5 DEF TypeOK
<1>3. Numbering
  BY <1>1 DEF Init, Numbering
<1>4. OneHandlePerStream
  BY <1>1 DEF Init, OneHandlePerStream
<1>5. CreatingApart /\ ThreadInv
  BY DEF Init, CreatingApart, ThreadInv, Creating, InCall
<1>6. Outcome
  BY DEF Init, Outcome
<1>7. QED BY <1>2, <1>3, <1>4, <1>5, <1>6 DEF HInv

-----------------------------------------------------------------------------
(* Create hands out the handle after the last one: it was never used.      *)
LEMMA FreshHandle ==
  ASSUME Unwrapped, HInv, NEW t \in Threads, pc[t] = "create", NEW h \in Handles, Allocated(h)
  PROVE  /\ h = Count + 1
         /\ Count < MaxHandle
         /\ Normalize(Increment(h)) = IF h >= MaxHandle THEN 1 ELSE h + 1
         /\ \A s \in Streams : handleOf[s] # h
<1> USE HandlesAssumption
<1> DEFINE Begun == 1 .. started
<1>1. loaded[t] \in Begun /\ handleOf[loaded[t]] = 0 /\ started \in Nat
  BY DEF HInv, ThreadInv, Creating, TypeOK, None
<1>2. IsFiniteSet(Begun) /\ Cardinality(Begun) = started
  BY <1>1, FS_Interval
<1>3. Count <= started /\ Count # started
  <2>1. Issued \subseteq Begun
    BY <1>1 DEF HInv, Outcome, Issued, Streams
  <2>2. Issued \in SUBSET Begun /\ Issued # Begun
    BY <1>1, <2>1 DEF Issued
  <2>3. /\ Cardinality(Issued) <= Cardinality(Begun)
        /\ Cardinality(Issued) = Cardinality(Begun) => Begun = Issued
    BY <1>2, <2>2, FS_Subset
  <2>4. QED BY <1>2, <2>2, <2>3 DEF Count
<1>4. Count \in Nat /\ Count < MaxHandle
  BY <1>1, <1>3, IssuedFinite DEF Unwrapped
<1>5. Normalize(next) = Count + 1
  BY <1>4 DEF HInv, Numbering, Normalize
<1>6. Count + 1 \in Handles /\ Count + 1 \notin DOMAIN entries
  <2>1. ASSUME Count + 1 \in DOMAIN entries PROVE FALSE
    <3>1. entries[Count + 1] \in Streams /\ handleOf[entries[Count + 1]] = Count + 1
      BY <2>1 DEF HInv, TypeOK, OneHandlePerStream, Streams
    <3>2. entries[Count + 1] \in Issued
      BY <3>1, <1>4 DEF Issued
    <3>3. QED BY <3>1, <3>2, <1>4 DEF HInv, Numbering
  <2>2. QED BY <2>1, <1>4 DEF Handles
<1>7. h = Count + 1
  BY <1>4, <1>5, <1>6 DEF Allocated, Before, Handles
<1>8. \A s \in Streams : handleOf[s] # h
  BY <1>4, <1>7 DEF HInv, Numbering, Issued
<1>9. Normalize(Increment(h)) = IF h >= MaxHandle THEN 1 ELSE h + 1
  BY <1>4, <1>7 DEF Normalize, Increment, Handles
<1>10. QED BY <1>4, <1>7, <1>8, <1>9

LEMMA CreateKeeps ==
  ASSUME Unwrapped, HInv, NEW t \in Threads, Create(t)
  PROVE  HInv'
<1> USE HandlesAssumption
<1>1. PICK h \in Handles :
        /\ Allocated(h)
        /\ next' = Normalize(Increment(h))
        /\ entries' = [k \in DOMAIN entries \cup {h} |-> IF k = h THEN loaded[t] ELSE entries[k]]
        /\ handleOf' = [handleOf EXCEPT ![loaded[t]] = h]
  BY DEF Create
<1>2. pc[t] = "create" /\ pc' = [pc EXCEPT ![t] = "idle"] /\ result' = [result EXCEPT ![t] = "ok"]
  BY DEF Create, Return
<1>3. UNCHANGED <<started, shape, handler, op, arg, loaded, wins>>
  BY DEF Create, streamVars
<1>4. /\ h = Count + 1 /\ Count < MaxHandle
      /\ next' = IF h >= MaxHandle THEN 1 ELSE h + 1
      /\ \A s \in Streams : handleOf[s] # h
  BY <1>1, <1>2, FreshHandle
<1>5. loaded[t] \in Streams /\ handleOf[loaded[t]] = 0 /\ op[t] = "start" /\ loaded[t] \in 1 .. started
  BY <1>2 DEF HInv, ThreadInv, Creating, TypeOK, None, Streams
<1>6. Issued' = Issued \cup {loaded[t]} /\ Count' = Count + 1 /\ Count \in Nat
  <2>1. Issued' = Issued \cup {loaded[t]}
    BY <1>1, <1>5 DEF Issued, HInv, TypeOK, Handles
  <2>2. loaded[t] \notin Issued
    BY <1>5 DEF Issued
  <2>3. QED BY <2>1, <2>2, IssuedFinite, FS_AddElement DEF Count
<1>7. handleOf' \in [Streams -> 0 .. MaxHandle] /\ handleOf'[loaded[t]] = h
      /\ \A s \in Streams \ {loaded[t]} : handleOf'[s] = handleOf[s]
  BY <1>1, <1>5 DEF HInv, TypeOK, Handles
<1>8. DOMAIN entries' = DOMAIN entries \cup {h} /\ entries'[h] = loaded[t]
      /\ \A k \in DOMAIN entries : entries'[k] = entries[k] /\ k # h
  BY <1>1 DEF Allocated
<1>9. TypeOK'
  <2>1. next' \in 0 .. MaxHandle
    BY <1>4, <1>6
  <2>2. pc' \in [Threads -> {"idle", "create", "load", "source", "remove"}]
        /\ result' \in [Threads -> {"none", "ok", "error", "invalid", "eof", "exhausted"}]
    BY <1>2 DEF HInv, TypeOK
  <2>3. DOMAIN entries' \subseteq Handles /\ \A k \in DOMAIN entries' : entries'[k] \in 1 .. started'
    BY <1>3, <1>5, <1>8 DEF HInv, TypeOK
  <2>4. QED BY <1>3, <1>7, <2>1, <2>2, <2>3 DEF HInv, TypeOK
<1>10. Numbering'
  BY <1>4, <1>6, <1>7 DEF HInv, Numbering, Issued
<1>11. OneHandlePerStream'
  <2>1. ASSUME NEW k \in DOMAIN entries' PROVE handleOf'[entries'[k]] = k
    <3>1. CASE k = h
      BY <1>7, <1>8, <3>1
    <3>2. CASE k # h
      <4>1. k \in DOMAIN entries /\ entries'[k] = entries[k]
        BY <1>8, <3>2
      <4>2. entries[k] \in Streams /\ handleOf[entries[k]] = k /\ k # 0
        BY <4>1 DEF HInv, OneHandlePerStream, TypeOK, Streams, Handles
      <4>3. entries[k] # loaded[t]
        BY <1>5, <4>2
      <4>4. QED BY <1>7, <4>1, <4>2, <4>3
    <3>3. QED BY <3>1, <3>2
  <2>2. \A r, s \in Issued' : handleOf'[r] = handleOf'[s] => r = s
    BY <1>4, <1>6, <1>7 DEF HInv, OneHandlePerStream, Issued
  <2>3. QED BY <2>1, <2>2 DEF OneHandlePerStream
<1>12. CreatingApart'
  BY <1>2, <1>3 DEF HInv, CreatingApart, TypeOK
<1>13. ThreadInv'
  <2> SUFFICES ASSUME NEW u \in Threads PROVE Creating(u)' /\ InCall(u)'
      BY DEF ThreadInv
  <2>1. Creating(u) /\ InCall(u)
    BY DEF HInv, ThreadInv
  <2>2. IssuedArg(u) => IssuedArg(u)' /\ arg[u] # h
    BY <1>3, <1>4, <1>5, <1>7 DEF IssuedArg
  <2>3. CASE u = t
    BY <1>2, <1>3, <1>5, <2>3 DEF Creating, InCall, HInv, TypeOK
  <2>4. CASE u # t
    <3>1. pc'[u] = pc[u] /\ result'[u] = result[u]
      BY <1>2, <2>4 DEF HInv, TypeOK
    <3>2. Creating(u)'
      <4>1. pc[u] = "create" => loaded[u] # loaded[t] /\ loaded[u] \in Streams
        BY <1>2, <2>1, <2>4 DEF HInv, CreatingApart, Creating, TypeOK, Streams, None
      <4>2. QED BY <1>3, <1>7, <2>1, <3>1, <4>1 DEF Creating
    <3>3. pc[u] \in {"source", "remove"} => loaded[u] \in Streams /\ loaded[u] # loaded[t]
      BY <1>5, <2>1 DEF InCall, HInv, TypeOK, Streams, None
    <3>4. InCall(u)'
      BY <1>3, <1>7, <1>8, <2>1, <2>2, <3>1, <3>3 DEF InCall
    <3>5. QED BY <3>2, <3>4
  <2>5. QED BY <2>3, <2>4
<1>14. Outcome'
  <2> SUFFICES ASSUME NEW s \in Streams
               PROVE  /\ s > started' => handleOf'[s] = 0
                      /\ wins'[s] <= 1
                      /\ wins'[s] = 1 => handleOf'[s] # 0 /\ handleOf'[s] \notin DOMAIN entries'
                      /\ wins'[s] = 0 /\ handleOf'[s] # 0 => handleOf'[s] \in DOMAIN entries'
                      /\ handler'[s] = "running" /\ handleOf'[s] # 0 => handleOf'[s] \in DOMAIN entries'
      BY DEF Outcome
  <2>1. /\ s > started => handleOf[s] = 0
        /\ wins[s] <= 1
        /\ wins[s] = 1 => handleOf[s] # 0 /\ handleOf[s] \notin DOMAIN entries
        /\ wins[s] = 0 /\ handleOf[s] # 0 => handleOf[s] \in DOMAIN entries
        /\ handler[s] = "running" /\ handleOf[s] # 0 => handleOf[s] \in DOMAIN entries
    BY DEF HInv, Outcome
  <2>2. CASE s = loaded[t]
    <3>1. handleOf'[s] = h /\ h # 0 /\ ~(s > started) /\ wins[s] # 1
      BY <1>5, <1>7, <2>1, <2>2 DEF HInv, TypeOK, Handles
    <3>2. QED BY <1>3, <1>8, <2>1, <2>2, <3>1
  <2>3. CASE s # loaded[t]
    <3>1. handleOf'[s] = handleOf[s]
      BY <1>7, <2>3
    <3>2. handleOf[s] # 0 => handleOf[s] # h
      BY <1>4 DEF Issued
    <3>3. QED BY <1>3, <1>8, <2>1, <3>1, <3>2
  <2>4. QED BY <2>2, <2>3
<1>15. QED BY <1>9, <1>10, <1>11, <1>12, <1>13, <1>14 DEF HInv

-----------------------------------------------------------------------------
(* A call that got as far as the registry ends the stream it loaded. *)
LEMMA RemoveKeeps ==
  ASSUME HInv, NEW t \in Threads, Remove(t)
  PROVE  HInv'
<1>1. /\ pc[t] = "remove" /\ arg[t] \in DOMAIN entries
      /\ entries' = [k \in DOMAIN entries \ {arg[t]} |-> entries[k]]
      /\ wins' = [wins EXCEPT ![loaded[t]] = @ + 1]
      /\ pc' = [pc EXCEPT ![t] = "idle"]
      /\ \E r \in {"ok", "eof", "error"} : result' = [result EXCEPT ![t] = r]
  BY DEF Remove, Take, Return, Reported
<1>2. UNCHANGED <<next, handleOf, started, shape, handler, op, arg, loaded>>
  BY DEF Remove, streamVars
<1>3. loaded[t] \in Streams /\ handleOf[loaded[t]] = arg[t] /\ arg[t] # 0 /\ handler[loaded[t]] # "running"
  BY <1>1, HandlesAssumption DEF HInv, ThreadInv, InCall, TypeOK, None, Streams
<1>4. DOMAIN entries' = DOMAIN entries \ {arg[t]} /\ \A k \in DOMAIN entries' : entries'[k] = entries[k]
  BY <1>1
<1>5. \A s \in Streams : wins'[s] = IF s = loaded[t] THEN wins[s] + 1 ELSE wins[s]
  BY <1>1, <1>3 DEF HInv, TypeOK
<1>6. TypeOK'
  <2>1. wins' \in [Streams -> Nat]
    BY <1>1, <1>3 DEF HInv, TypeOK
  <2>2. result' \in [Threads -> {"none", "ok", "error", "invalid", "eof", "exhausted"}]
    BY <1>1 DEF HInv, TypeOK
  <2>3. pc' \in [Threads -> {"idle", "create", "load", "source", "remove"}]
    BY <1>1 DEF HInv, TypeOK
  <2>4. QED BY <1>2, <1>4, <2>1, <2>2, <2>3 DEF HInv, TypeOK
<1>7. Issued' = Issued /\ Count' = Count
  BY <1>2 DEF Issued, Count
<1>8. Numbering' /\ OneHandlePerStream' /\ CreatingApart'
  <2>1. Numbering'
    BY <1>2, <1>7 DEF HInv, Numbering
  <2>2. OneHandlePerStream'
    BY <1>2, <1>4, <1>7 DEF HInv, OneHandlePerStream
  <2>3. CreatingApart'
    BY <1>1, <1>2 DEF HInv, CreatingApart, TypeOK
  <2>4. QED BY <2>1, <2>2, <2>3
<1>9. ThreadInv'
  <2> SUFFICES ASSUME NEW u \in Threads PROVE Creating(u)' /\ InCall(u)'
      BY DEF ThreadInv
  <2>1. Creating(u) /\ InCall(u)
    BY DEF HInv, ThreadInv
  <2>2. IssuedArg(u)' = IssuedArg(u)
    BY <1>2 DEF IssuedArg
  <2>3. CASE u = t
    <3>1. IssuedArg(t)
      BY <1>3 DEF IssuedArg
    <3>2. pc'[t] = "idle"
      BY <1>1 DEF HInv, TypeOK
    <3>3. QED BY <1>2, <1>4, <2>2, <2>3, <3>1, <3>2 DEF Creating, InCall
  <2>4. CASE u # t
    <3>1. pc'[u] = pc[u] /\ result'[u] = result[u]
      BY <1>1, <2>4 DEF HInv, TypeOK
    <3>2. QED BY <1>2, <1>4, <2>1, <2>2, <3>1 DEF Creating, InCall
  <2>5. QED BY <2>3, <2>4
<1>10. Outcome'
  <2> SUFFICES ASSUME NEW s \in Streams
               PROVE  /\ s > started' => handleOf'[s] = 0
                      /\ wins'[s] <= 1
                      /\ wins'[s] = 1 => handleOf'[s] # 0 /\ handleOf'[s] \notin DOMAIN entries'
                      /\ wins'[s] = 0 /\ handleOf'[s] # 0 => handleOf'[s] \in DOMAIN entries'
                      /\ handler'[s] = "running" /\ handleOf'[s] # 0 => handleOf'[s] \in DOMAIN entries'
      BY DEF Outcome
  <2>1. /\ s > started => handleOf[s] = 0
        /\ wins[s] <= 1 /\ wins[s] \in Nat
        /\ wins[s] = 1 => handleOf[s] # 0 /\ handleOf[s] \notin DOMAIN entries
        /\ wins[s] = 0 /\ handleOf[s] # 0 => handleOf[s] \in DOMAIN entries
        /\ handler[s] = "running" /\ handleOf[s] # 0 => handleOf[s] \in DOMAIN entries
    BY DEF HInv, Outcome, TypeOK
  <2>2. CASE s = loaded[t]
    BY <1>1, <1>2, <1>3, <1>4, <1>5, <2>1, <2>2
  <2>3. CASE s # loaded[t]
    <3>1. handleOf[s] # 0 => handleOf[s] # arg[t]
      BY <1>3, <2>3 DEF HInv, OneHandlePerStream, Issued
    <3>2. QED BY <1>2, <1>4, <1>5, <2>1, <2>3, <3>1
  <2>4. QED BY <2>2, <2>3
<1>11. QED BY <1>6, <1>8, <1>9, <1>10 DEF HInv

(* The steps of the calls that leave the registry alone. *)
RegistryUnchanged == UNCHANGED <<next, entries, started, shape, handleOf, wins>>

QuietStep(t) ==
  \/ CreateFails(t) \/ Call(t) \/ Load(t) \/ LoadFails(t)
  \/ SourceFails(t) \/ CancelSource(t) \/ FinishSource(t)
  \/ RecvResponse(t) \/ RecvEOF(t) \/ RemoveFails(t)

LEMMA QuietEffect ==
  ASSUME TypeOK, NEW t \in Threads, QuietStep(t)
  PROVE  /\ RegistryUnchanged /\ handler' = handler
         /\ \A u \in Threads \ {t} : pc'[u] = pc[u] /\ op'[u] = op[u] /\ arg'[u] = arg[u]
                                     /\ loaded'[u] = loaded[u] /\ result'[u] = result[u]
         /\ pc'[t] # "create"
<1> USE DEF TypeOK, RegistryUnchanged, streamVars, Return, Goto
<1>1. CASE CreateFails(t)
  BY <1>1 DEF CreateFails
<1>2. CASE Call(t)
  BY <1>2 DEF Call
<1>3. CASE Load(t)
  BY <1>3 DEF Load
<1>4. CASE LoadFails(t)
  BY <1>4 DEF LoadFails
<1>5. CASE CancelSource(t)
  BY <1>5 DEF CancelSource
<1>6. CASE SourceFails(t)
  BY <1>6 DEF SourceFails
<1>7. CASE FinishSource(t)
  BY <1>7 DEF FinishSource
<1>9. CASE RecvResponse(t)
  BY <1>9 DEF RecvResponse
<1>11. CASE RecvEOF(t)
  BY <1>11 DEF RecvEOF
<1>12. CASE RemoveFails(t)
  BY <1>12 DEF RemoveFails
<1>13. QED BY <1>1, <1>2, <1>3, <1>4, <1>5, <1>6, <1>7, <1>9, <1>11, <1>12 DEF QuietStep

LEMMA QuietTypes == ASSUME TypeOK, NEW t \in Threads, QuietStep(t) PROVE TypeOK'
<1>1. RegistryUnchanged /\ handler' = handler
  BY QuietEffect
<1>3. pc' \in [Threads -> {"idle", "create", "load", "source", "remove"}]
  BY DEF TypeOK, QuietStep, CreateFails, Call, Load, LoadFails, SourceFails, CancelSource,
         FinishSource, RecvResponse, RecvEOF, RemoveFails, Return, Goto
<1>4. op' \in [Threads -> {"none", "start", "finish", "recv", "cancel"}]
  BY DEF TypeOK, QuietStep, CreateFails, Call, Load, LoadFails, SourceFails, CancelSource,
         FinishSource, RecvResponse, RecvEOF, RemoveFails
<1>5. arg' \in [Threads -> 0 .. MaxHandle]
  <2>1. CASE Call(t)
    <3>1. \A s \in 1 .. started : handleOf[s] \in 0 .. MaxHandle
      BY HandlesAssumption DEF TypeOK, Streams
    <3>2. QED BY <2>1, <3>1 DEF Call, TypeOK
  <2>2. CASE ~Call(t)
    BY <2>2 DEF TypeOK, QuietStep, CreateFails, Load, LoadFails, SourceFails, CancelSource,
         FinishSource, RecvResponse, RecvEOF, RemoveFails
  <2>3. QED BY <2>1, <2>2
<1>6. loaded' \in [Threads -> 0 .. started]
  <2>1. CASE Load(t)
    BY <2>1, HandlesAssumption DEF Load, TypeOK
  <2>2. CASE ~Load(t)
    BY <2>2, HandlesAssumption DEF TypeOK, QuietStep, CreateFails, Call, LoadFails, SourceFails, CancelSource,
         FinishSource, RecvResponse, RecvEOF, RemoveFails, None
  <2>3. QED BY <2>1, <2>2
<1>7. result' \in [Threads -> {"none", "ok", "error", "invalid", "eof", "exhausted"}]
  BY DEF TypeOK, QuietStep, CreateFails, Call, Load, LoadFails, SourceFails, CancelSource,
         FinishSource, RecvResponse, RecvEOF, RemoveFails, Return, Reported
<1>8. QED BY <1>1, <1>3, <1>4, <1>5, <1>6, <1>7 DEF TypeOK, RegistryUnchanged

LEMMA QuietCall ==
  ASSUME HInv, NEW t \in Threads, QuietStep(t)
  PROVE  InCall(t)'
<1> USE DEF HInv, TypeOK, InCall, streamVars, Return, Goto
<1>1. IssuedArg(t) /\ UNCHANGED <<handleOf, arg>> => IssuedArg(t)'
  BY DEF IssuedArg
<1>2. InCall(t)
  BY DEF ThreadInv
<1>3. CASE CreateFails(t)
  BY <1>3 DEF CreateFails, ThreadInv, Creating
<1>4. CASE Call(t)
  <2>1. PICK s \in 1 .. started : handleOf[s] # 0 /\ arg' = [arg EXCEPT ![t] = handleOf[s]]
    BY <1>4 DEF Call
  <2>2. arg'[t] = handleOf[s] /\ s \in Streams /\ handleOf' = handleOf
    BY <1>4, <2>1, HandlesAssumption DEF Call, Streams
  <2>3. IssuedArg(t)'
    BY <2>1, <2>2 DEF IssuedArg
  <2>4. pc'[t] = "load" /\ op'[t] # "start" /\ loaded'[t] = None
    BY <1>4 DEF Call
  <2>5. QED BY <2>3, <2>4
<1>5. CASE Load(t)
  <2>1. entries[arg[t]] \in 1 .. started /\ handleOf[entries[arg[t]]] = arg[t]
    BY <1>5 DEF Load, OneHandlePerStream
  <2>2. op[t] # "start" /\ arg[t] # 0 /\ pc'[t] = "source" /\ loaded'[t] = entries[arg[t]]
    BY <1>5, <1>2, HandlesAssumption DEF Load, Handles
  <2>3. UNCHANGED <<handleOf, op, arg>>
    BY <1>5 DEF Load
  <2>4. QED BY <2>1, <2>2, <2>3, HandlesAssumption DEF None
<1>6. CASE LoadFails(t)
  BY <1>1, <1>2, <1>6 DEF LoadFails, Supports
<1>7. CASE CancelSource(t)
  BY <1>1, <1>2, <1>7 DEF CancelSource
<1>8. CASE SourceFails(t)
  BY <1>1, <1>2, <1>8 DEF SourceFails
<1>9. CASE FinishSource(t)
  BY <1>1, <1>2, <1>9 DEF FinishSource
<1>11. CASE RecvResponse(t)
  BY <1>1, <1>2, <1>11 DEF RecvResponse
<1>13. CASE RecvEOF(t)
  BY <1>1, <1>2, <1>13 DEF RecvEOF
<1>14. CASE RemoveFails(t)
  <2>1. loaded[t] \in Streams /\ handleOf[loaded[t]] = arg[t] /\ arg[t] # 0
    BY <1>14, HandlesAssumption DEF RemoveFails, ThreadInv, Streams, None
  <2>2. IssuedArg(t)
    BY <2>1 DEF IssuedArg
  <2>3. pc'[t] = "idle" /\ UNCHANGED <<entries, handleOf, op, arg>> /\ arg[t] \notin DOMAIN entries
    BY <1>14 DEF RemoveFails
  <2>4. QED BY <1>1, <2>2, <2>3
<1>15. QED BY <1>3, <1>4, <1>5, <1>6, <1>7, <1>8, <1>9, <1>11, <1>13, <1>14 DEF QuietStep

LEMMA QuietKeeps == ASSUME HInv, NEW t \in Threads, QuietStep(t) PROVE HInv'
<1>1. /\ RegistryUnchanged /\ handler' = handler
      /\ \A u \in Threads \ {t} : pc'[u] = pc[u] /\ op'[u] = op[u] /\ arg'[u] = arg[u]
                                  /\ loaded'[u] = loaded[u] /\ result'[u] = result[u]
      /\ pc'[t] # "create"
  BY QuietEffect DEF HInv
<1>2. TypeOK' /\ InCall(t)'
  BY QuietTypes, QuietCall DEF HInv
<1>3. Issued' = Issued /\ Count' = Count
  BY <1>1 DEF RegistryUnchanged, Issued, Count
<1>4. Numbering' /\ OneHandlePerStream'
  BY <1>1, <1>3 DEF RegistryUnchanged, HInv, Numbering, OneHandlePerStream
<1>5. CreatingApart'
  BY <1>1 DEF HInv, CreatingApart
<1>6. ThreadInv'
  <2> SUFFICES ASSUME NEW u \in Threads PROVE Creating(u)' /\ InCall(u)'
      BY DEF ThreadInv
  <2>1. CASE u = t
    BY <1>1, <1>2, <2>1 DEF Creating
  <2>2. CASE u # t
    <3>1. /\ pc'[u] = pc[u] /\ op'[u] = op[u] /\ arg'[u] = arg[u]
          /\ loaded'[u] = loaded[u] /\ result'[u] = result[u]
      BY <1>1, <2>2
    <3>2. Creating(u) /\ InCall(u)
      BY DEF HInv, ThreadInv
    <3>3. IssuedArg(u)' = IssuedArg(u)
      BY <1>1, <3>1 DEF IssuedArg, RegistryUnchanged
    <3>4. QED BY <1>1, <3>1, <3>2, <3>3 DEF Creating, InCall, RegistryUnchanged
  <2>3. QED BY <2>1, <2>2
<1>7. Outcome'
  BY <1>1 DEF HInv, Outcome, RegistryUnchanged
<1>8. QED BY <1>2, <1>4, <1>5, <1>6, <1>7 DEF HInv

LEMMA StartKeeps == ASSUME HInv, NEW t \in Threads, Start(t) PROVE HInv'
<1> DEFINE s == started + 1
<1>1. /\ pc[t] = "idle" /\ started' = s
      /\ pc' = [pc EXCEPT ![t] = "create"] /\ op' = [op EXCEPT ![t] = "start"]
      /\ loaded' = [loaded EXCEPT ![t] = s]
      /\ UNCHANGED <<next, entries, handleOf, shape, handler, arg, result, wins>>
  BY DEF Start
<1>2. s \in Streams /\ s \in Nat /\ started \in Nat /\ handleOf[s] = 0 /\ s # 0
  <2>1. s \in Streams
    BY HandlesAssumption DEF Start, HInv, TypeOK, Streams
  <2>2. started \in Nat /\ s > started
    BY HandlesAssumption DEF HInv, TypeOK
  <2>3. QED BY <2>1, <2>2, HandlesAssumption DEF HInv, Outcome
<1>3. TypeOK'
  <2>1. \A i \in 1 .. started : i \in 1 .. started'
    BY <1>1, <1>2
  <2>2. loaded' \in [Threads -> 0 .. started']
    BY <1>1, <1>2 DEF HInv, TypeOK
  <2>3. started' \in 0 .. MaxStreams
    BY <1>1, <1>2, HandlesAssumption DEF Streams
  <2>4. pc' \in [Threads -> {"idle", "create", "load", "source", "remove"}]
        /\ op' \in [Threads -> {"none", "start", "finish", "recv", "cancel"}]
    BY <1>1 DEF HInv, TypeOK
  <2>5. DOMAIN entries' \subseteq Handles /\ \A h \in DOMAIN entries' : entries'[h] \in 1 .. started'
    BY <1>1, <2>1 DEF HInv, TypeOK
  <2>6. QED BY <1>1, <2>2, <2>3, <2>4, <2>5 DEF HInv, TypeOK
<1>4. Issued' = Issued /\ Count' = Count
  BY <1>1 DEF Issued, Count
<1>5. Numbering' /\ OneHandlePerStream'
  BY <1>1, <1>4 DEF HInv, Numbering, OneHandlePerStream
<1>6. \A u \in Threads \ {t} : pc'[u] = pc[u] /\ op'[u] = op[u] /\ arg'[u] = arg[u] /\ loaded'[u] = loaded[u]
  BY <1>1 DEF HInv, TypeOK
<1>7. CreatingApart'
  <2>1. \A u \in Threads \ {t} : loaded[u] # s
    BY <1>2 DEF HInv, TypeOK
  <2>2. pc'[t] = "create" /\ loaded'[t] = s
    BY <1>1 DEF HInv, TypeOK
  <2>3. QED BY <1>6, <2>1, <2>2 DEF HInv, CreatingApart
<1>8. ThreadInv'
  <2> SUFFICES ASSUME NEW u \in Threads PROVE Creating(u)' /\ InCall(u)'
      BY DEF ThreadInv
  <2>1. CASE u = t
    <3>1. pc'[t] = "create" /\ op'[t] = "start" /\ loaded'[t] = s
      BY <1>1 DEF HInv, TypeOK
    <3>2. QED BY <1>1, <1>2, <2>1, <3>1 DEF Creating, InCall, None
  <2>2. CASE u # t
    <3>1. pc'[u] = pc[u] /\ op'[u] = op[u] /\ arg'[u] = arg[u] /\ loaded'[u] = loaded[u]
      BY <1>6, <2>2
    <3>2. Creating(u) /\ InCall(u)
      BY DEF HInv, ThreadInv
    <3>3. IssuedArg(u)' = IssuedArg(u)
      BY <1>1, <3>1 DEF IssuedArg
    <3>4. QED BY <1>1, <3>1, <3>2, <3>3 DEF Creating, InCall
  <2>3. QED BY <2>1, <2>2
<1>9. Outcome'
  <2>1. \A r \in Streams : r > started' => r > started
    BY <1>1, <1>2 DEF Streams
  <2>2. QED BY <1>1, <2>1 DEF HInv, Outcome
<1>10. QED BY <1>3, <1>5, <1>7, <1>8, <1>9 DEF HInv

LEMMA HandlerReturnKeeps == ASSUME HInv, NEW s \in Streams, HandlerReturn(s) PROVE HInv'
<1>1. PICK r \in {"ok", "failed"} : handler' = [handler EXCEPT ![s] = r]
  BY DEF HandlerReturn
<1>2. UNCHANGED <<next, entries, handleOf, started, shape, threadVars, wins>>
  BY DEF HandlerReturn
<1>3. \A i \in Streams : handler'[i] = "running" => handler[i] = "running"
  BY <1>1 DEF HInv, TypeOK
<1>4. TypeOK'
  <2>1. handler' \in [Streams -> {"running", "ok", "failed"}]
    BY <1>1 DEF HInv, TypeOK
  <2>2. QED BY <1>2, <2>1 DEF HInv, TypeOK, threadVars
<1>5. Issued' = Issued /\ Count' = Count
  BY <1>2 DEF Issued, Count
<1>6. Numbering' /\ OneHandlePerStream' /\ CreatingApart'
  BY <1>2, <1>5 DEF HInv, Numbering, OneHandlePerStream, CreatingApart, threadVars
<1>7. ThreadInv'
  <2> SUFFICES ASSUME NEW u \in Threads PROVE Creating(u)' /\ InCall(u)'
      BY DEF ThreadInv
  <2>1. Creating(u) /\ InCall(u)
    BY DEF HInv, ThreadInv
  <2>2. IssuedArg(u)' = IssuedArg(u)
    BY <1>2 DEF IssuedArg, threadVars
  <2>3. pc[u] = "remove" => loaded[u] \in Streams
    BY <2>1, HandlesAssumption DEF InCall, HInv, TypeOK, Streams, None
  <2>4. QED BY <1>2, <1>3, <2>1, <2>2, <2>3 DEF Creating, InCall, threadVars
<1>8. Outcome'
  BY <1>2, <1>3 DEF HInv, Outcome
<1>9. QED BY <1>4, <1>6, <1>7, <1>8 DEF HInv

LEMMA StepHInv == Unwrapped /\ HInv /\ [Next]_vars => HInv'
<1> SUFFICES ASSUME Unwrapped, HInv, [Next]_vars PROVE HInv'
    OBVIOUS
<1>1. ASSUME NEW t \in Threads, Start(t) PROVE HInv'
  BY <1>1, StartKeeps
<1>2. ASSUME NEW t \in Threads, Create(t) PROVE HInv'
  BY <1>2, CreateKeeps
<1>3. ASSUME NEW t \in Threads, Remove(t) PROVE HInv'
  BY <1>3, RemoveKeeps
<1>4. ASSUME NEW t \in Threads, QuietStep(t) PROVE HInv'
  BY <1>4, QuietKeeps
<1>5. ASSUME NEW s \in Streams, HandlerReturn(s) PROVE HInv'
  BY <1>5, HandlerReturnKeeps
<1>6. CASE UNCHANGED vars
  <2>1. UNCHANGED <<next, entries, handleOf, started, shape, handler, pc, op, arg, loaded,
                    result, wins>>
    BY <1>6 DEF vars, streamVars, threadVars
  <2>2. TypeOK'
    BY <2>1 DEF HInv, TypeOK
  <2>3. Issued' = Issued /\ Count' = Count /\ \A t \in Threads : IssuedArg(t)' = IssuedArg(t)
    BY <2>1 DEF Issued, Count, IssuedArg
  <2>4. Numbering' /\ OneHandlePerStream' /\ CreatingApart' /\ Outcome'
    BY <2>1, <2>3 DEF HInv, Numbering, OneHandlePerStream, CreatingApart, Outcome
  <2>5. ThreadInv'
    BY <2>1, <2>3 DEF HInv, ThreadInv, Creating, InCall
  <2>6. QED BY <2>2, <2>4, <2>5 DEF HInv
<1>7. CASE Next
  BY <1>7, <1>1, <1>2, <1>3, <1>4, <1>5 DEF Next, CallStep, QuietStep
<1>8. QED BY <1>6, <1>7

-----------------------------------------------------------------------------
(* Streams are only ever added: numbering that is Unwrapped was so before. *)
LEMMA StartedGrows == Spec => [](started \in Nat)
<1>1. Init => started \in Nat
  BY DEF Init
<1>2. started \in Nat /\ [Next]_vars => (started \in Nat)'
  BY DEF Next, CallStep, Start, Create, CreateFails, Call, HandlerReturn, Load, LoadFails,
         SourceFails, CancelSource, FinishSource, RecvResponse, RecvEOF, Remove, RemoveFails, vars, streamVars
<1>3. QED BY <1>1, <1>2, PTL DEF Spec

(* The inductive invariant holds until the numbering wraps. *)
THEOREM HandleInvariantHolds == Spec => [](Unwrapped => HInv)
<1>1. Init => (Unwrapped => HInv)
  BY InitHInv
<1>2. started \in Nat /\ [Next]_vars /\ Unwrapped' => Unwrapped
  BY HandlesAssumption
     DEF Next, CallStep, Start, Create, CreateFails, Call, HandlerReturn, Load, LoadFails,
         SourceFails, CancelSource, FinishSource, RecvResponse, RecvEOF, Remove, RemoveFails, vars, streamVars, Unwrapped
<1>3. started \in Nat /\ (Unwrapped => HInv) /\ [Next]_vars => (Unwrapped => HInv)'
  BY <1>2, StepHInv
<1>4. QED BY <1>1, <1>3, StartedGrows, PTL DEF Spec

(* No call through a stale handle reaches another stream than the one the  *)
(* handle was issued for.                                                  *)
THEOREM HandleNamesItsStreamHolds == Spec => []HandleNamesItsStream
<1>1. (Unwrapped => HInv) => HandleNamesItsStream
  <2> SUFFICES ASSUME HInv, NEW s \in 1 .. started, handleOf[s] \in DOMAIN entries
               PROVE  entries[handleOf[s]] = s
      BY DEF HandleNamesItsStream
  <2>1. s \in Streams /\ handleOf[s] # 0
    BY HandlesAssumption DEF HInv, TypeOK, Streams, Handles
  <2>2. entries[handleOf[s]] \in Streams /\ handleOf[entries[handleOf[s]]] = handleOf[s]
    BY HandlesAssumption DEF HInv, TypeOK, OneHandlePerStream, Streams
  <2>3. QED BY <2>1, <2>2 DEF HInv, OneHandlePerStream, Issued
<1>2. QED BY <1>1, HandleInvariantHolds, PTL

(* Of the calls that race to end a stream at most one takes its handle,    *)
(* and the handle is invalid from then on.                                 *)
THEOREM OneWinnerHolds == Spec => []OneWinner
<1>1. (Unwrapped => HInv) => OneWinner
  BY DEF HInv, Outcome, OneWinner
<1>2. QED BY <1>1, HandleInvariantHolds, PTL

(* A handle is valid until a call that ended the stream takes it, and      *)
(* invalid from then on: no failing call gives it up.                      *)
THEOREM HeldUntilWonHolds == Spec => []HeldUntilWon
<1>1. (Unwrapped => HInv) => HeldUntilWon
  <2> SUFFICES ASSUME HInv, NEW s \in 1 .. started, handleOf[s] # 0
               PROVE  handleOf[s] \in DOMAIN entries <=> wins[s] = 0
      BY DEF HeldUntilWon
  <2>1. s \in Streams
    BY HandlesAssumption DEF HInv, TypeOK, Streams
  <2>2. wins[s] = 0 \/ wins[s] = 1
    BY <2>1 DEF HInv, TypeOK, Outcome
  <2>3. QED BY <2>1, <2>2 DEF HInv, Outcome
<1>2. QED BY <1>1, HandleInvariantHolds, PTL

(* A Cancel that returned, other than with an error of the stream itself,  *)
(* left its handle invalid.                                                *)
THEOREM CancelReleasesHolds == Spec => []CancelReleases
<1>1. (Unwrapped => HInv) => CancelReleases
  BY DEF HInv, ThreadInv, InCall, CancelReleases, Unwrapped
<1>2. QED BY <1>1, HandleInvariantHolds, PTL

(* A stream whose Start succeeded keeps its handle while its handler runs. *)
THEOREM NoOrphanHolds == Spec => []NoOrphan
<1>1. (Unwrapped => HInv) => NoOrphan
  <2> SUFFICES ASSUME HInv, NEW s \in 1 .. started, handler[s] = "running", handleOf[s] # 0
               PROVE  s \in Registered
      BY DEF NoOrphan
  <2>1. s \in Streams
    BY HandlesAssumption DEF HInv, TypeOK, Streams
  <2>2. handleOf[s] \in DOMAIN entries
    BY <2>1 DEF HInv, Outcome
  <2>3. entries[handleOf[s]] \in Streams /\ handleOf[entries[handleOf[s]]] = handleOf[s]
    BY <2>2, HandlesAssumption DEF HInv, TypeOK, OneHandlePerStream, Streams
  <2>4. entries[handleOf[s]] = s
    BY <2>1, <2>3 DEF HInv, OneHandlePerStream, Issued
  <2>5. QED BY <2>2, <2>4 DEF Registered
<1>2. QED BY <1>1, HandleInvariantHolds, PTL

-----------------------------------------------------------------------------
(***************************************************************************)
(* What holds beyond a wrap of the numbering.                              *)
(***************************************************************************)
Typed == TypeOK /\ \A t \in Threads : pc[t] = "create" => loaded[t] # None

LEMMA IncrementInRange ==
  ASSUME NEW n \in 0 .. MaxHandle
  PROVE  Normalize(Increment(n)) \in Handles /\ Normalize(n) \in Handles
BY HandlesAssumption DEF Normalize, Increment, Handles

(* What a Create that succeeds does to the registry. *)
LEMMA CreateEffect ==
  ASSUME Typed, NEW t \in Threads, Create(t)
  PROVE  /\ \E h \in Handles :
              /\ h \notin DOMAIN entries
              /\ DOMAIN entries' = DOMAIN entries \cup {h}
              /\ entries'[h] = loaded[t] /\ loaded[t] \in 1 .. started
              /\ \A k \in DOMAIN entries : entries'[k] = entries[k]
         /\ TypeOK'
<1> USE DEF Typed, TypeOK
<1>1. PICK h \in Handles :
        /\ Allocated(h)
        /\ next' = Normalize(Increment(h))
        /\ entries' = [k \in DOMAIN entries \cup {h} |-> IF k = h THEN loaded[t] ELSE entries[k]]
        /\ handleOf' = [handleOf EXCEPT ![loaded[t]] = h]
  BY DEF Create
<1>2. /\ pc[t] = "create" /\ pc' = [pc EXCEPT ![t] = "idle"]
      /\ result' = [result EXCEPT ![t] = "ok"]
      /\ UNCHANGED <<started, shape, handler, op, arg, loaded, wins>>
  BY DEF Create, Return, streamVars
<1>3. h \in 0 .. MaxHandle
  BY HandlesAssumption DEF Handles
<1>4. next' \in 0 .. MaxHandle /\ handleOf' \in [Streams -> 0 .. MaxHandle]
  <2>1. next' \in Handles
    BY <1>1, <1>3, IncrementInRange
  <2>2. next' \in 0 .. MaxHandle
    BY <2>1, HandlesAssumption DEF Handles
  <2>3. handleOf' \in [Streams -> 0 .. MaxHandle]
    BY <1>1, <1>3
  <2>4. QED BY <2>2, <2>3
<1>5. loaded[t] \in 1 .. started
  BY <1>2 DEF None
<1>6. h \notin DOMAIN entries /\ DOMAIN entries' = DOMAIN entries \cup {h}
      /\ entries'[h] = loaded[t] /\ \A k \in DOMAIN entries : entries'[k] = entries[k]
  BY <1>1 DEF Allocated
<1>7. DOMAIN entries' \subseteq Handles /\ \A k \in DOMAIN entries' : entries'[k] \in 1 .. started'
  BY <1>2, <1>5, <1>6
<1>8. /\ pc' \in [Threads -> {"idle", "create", "load", "source", "remove"}]
      /\ result' \in [Threads -> {"none", "ok", "error", "invalid", "eof", "exhausted"}]
  BY <1>2
<1>9. TypeOK'
  BY <1>2, <1>4, <1>7, <1>8
<1>10. QED BY <1>5, <1>6, <1>9

LEMMA StartTypes == ASSUME TypeOK, NEW t \in Threads, Start(t) PROVE TypeOK'
<1> USE HandlesAssumption DEF TypeOK
<1>1. started \in Nat /\ started' = started + 1 /\ started' \in 0 .. MaxStreams
  BY DEF Start
<1>2. /\ pc' = [pc EXCEPT ![t] = "create"] /\ op' = [op EXCEPT ![t] = "start"]
      /\ loaded' = [loaded EXCEPT ![t] = started']
      /\ UNCHANGED <<next, entries, handleOf, shape, handler, arg, result, wins>>
  BY DEF Start
<1>3. \A i \in 1 .. started : i \in 1 .. started'
  BY <1>1
<1>4. loaded' \in [Threads -> 0 .. started']
  BY <1>1, <1>2
<1>5. /\ pc' \in [Threads -> {"idle", "create", "load", "source", "remove"}]
      /\ op' \in [Threads -> {"none", "start", "finish", "recv", "cancel"}]
  BY <1>2
<1>6. DOMAIN entries' \subseteq Handles /\ \A h \in DOMAIN entries' : entries'[h] \in 1 .. started'
  BY <1>2, <1>3
<1>7. QED BY <1>1, <1>2, <1>4, <1>5, <1>6

LEMMA RemoveTypes == ASSUME TypeOK, NEW t \in Threads, Remove(t) PROVE TypeOK'
<1> USE DEF TypeOK
<1>1. /\ DOMAIN entries' = DOMAIN entries \ {arg[t]}
      /\ \A k \in DOMAIN entries' : entries'[k] = entries[k]
  BY DEF Remove, Take
<1>2. wins' \in [Streams -> Nat]
  <2>1. wins' = [wins EXCEPT ![loaded[t]] = @ + 1] /\ wins \in [Streams -> Nat]
    BY DEF Remove
  <2>2. \A s \in Streams : wins[s] + 1 \in Nat
    BY <2>1
  <2>3. QED BY <2>1, <2>2
<1>3. /\ pc' \in [Threads -> {"idle", "create", "load", "source", "remove"}]
      /\ result' \in [Threads -> {"none", "ok", "error", "invalid", "eof", "exhausted"}]
  BY DEF Remove, Return, Reported
<1>4. UNCHANGED <<next, handleOf, started, shape, handler, op, arg, loaded>>
  BY DEF Remove, streamVars
<1>5. QED BY <1>1, <1>2, <1>3, <1>4

LEMMA HandlerReturnTypes == ASSUME TypeOK, NEW s \in Streams, HandlerReturn(s) PROVE TypeOK'
<1>1. handler' \in [Streams -> {"running", "ok", "failed"}]
  BY DEF HandlerReturn, TypeOK
<1>2. UNCHANGED <<next, entries, handleOf, started, shape, pc, op, arg, loaded, result, wins>>
  BY DEF HandlerReturn, threadVars
<1>3. QED BY <1>1, <1>2 DEF TypeOK

LEMMA StepTyped == Typed /\ [Next]_vars => Typed'
<1> SUFFICES ASSUME Typed, [Next]_vars PROVE Typed'
    OBVIOUS
<1>1. ASSUME NEW t \in Threads, Start(t) PROVE Typed'
  <2>1. pc' = [pc EXCEPT ![t] = "create"] /\ loaded' = [loaded EXCEPT ![t] = started + 1]
        /\ started \in Nat
    BY <1>1, HandlesAssumption DEF Start, Typed, TypeOK
  <2>2. \A u \in Threads : pc'[u] = "create" => loaded'[u] # None
    BY <2>1 DEF Typed, TypeOK, None
  <2>3. QED BY <1>1, <2>2, StartTypes DEF Typed
<1>2. ASSUME NEW t \in Threads, Create(t) PROVE Typed'
  <2>1. TypeOK'
    BY <1>2, CreateEffect
  <2>2. pc' = [pc EXCEPT ![t] = "idle"] /\ UNCHANGED loaded
    BY <1>2 DEF Create, Return
  <2>3. QED BY <2>1, <2>2 DEF Typed, TypeOK
<1>3. ASSUME NEW t \in Threads, Remove(t) PROVE Typed'
  <2>1. TypeOK'
    BY <1>3, RemoveTypes DEF Typed
  <2>2. pc' = [pc EXCEPT ![t] = "idle"] /\ UNCHANGED loaded
    BY <1>3 DEF Remove, Return
  <2>3. QED BY <2>1, <2>2 DEF Typed, TypeOK
<1>4. ASSUME NEW t \in Threads, QuietStep(t) PROVE Typed'
  BY <1>4, QuietTypes, QuietEffect DEF Typed
<1>5. ASSUME NEW s \in Streams, HandlerReturn(s) PROVE Typed'
  BY <1>5, HandlerReturnTypes DEF HandlerReturn, threadVars, Typed
<1>6. CASE UNCHANGED vars
  BY <1>6 DEF vars, streamVars, threadVars, Typed, TypeOK
<1>7. CASE Next
  BY <1>7, <1>1, <1>2, <1>3, <1>4, <1>5 DEF Next, CallStep, QuietStep
<1>8. QED BY <1>6, <1>7

(* Every variable keeps its type, also when the numbering has wrapped and  *)
(* handles are issued again.                                               *)
THEOREM HandleTypesHold == Spec => []TypeOK
<1>1. Init => Typed
  BY InitHInv DEF HInv, Init, Typed
<1>2. Typed => TypeOK
  BY DEF Typed
<1>3. QED BY <1>1, <1>2, StepTyped, PTL DEF Spec

LEMMA AlwaysTyped == Spec => []Typed
<1>1. Init => Typed
  BY InitHInv DEF HInv, Init, Typed
<1>2. QED BY <1>1, StepTyped, PTL DEF Spec

(* A full registry is one with as many entries as there are handles. *)
LEMMA FullCounts == ASSUME TypeOK, Full PROVE Cardinality(DOMAIN entries) = MaxHandle
<1>1. DOMAIN entries = 1 .. MaxHandle
  BY DEF TypeOK, Full, Handles
<1>2. Cardinality(1 .. MaxHandle) = MaxHandle
  BY HandlesAssumption, FS_Interval
<1>3. QED BY <1>1, <1>2

(* A stored stream keeps its entry until somebody takes it out, and a      *)
(* Start is refused only when every handle is in use: in any state, with   *)
(* any number of threads and wraps.                                        *)
THEOREM FreeOrFullHolds == Spec => FreeOrFull
<1> DEFINE Step ==
      /\ \A h \in DOMAIN entries \cap DOMAIN entries' : entries'[h] = entries[h]
      /\ \A t \in Threads :
           pc[t] = "create" /\ pc'[t] = "idle" /\ result'[t] = "exhausted"
             => Cardinality(DOMAIN entries) = MaxHandle
<1>1. Typed /\ [Next]_vars => [Step]_vars
  <2> SUFFICES ASSUME Typed, Next PROVE Step
      OBVIOUS
  <2> USE DEF Typed, TypeOK
  <2>1. ASSUME NEW t \in Threads, Start(t) PROVE Step
    BY <2>1 DEF Start
  <2>2. ASSUME NEW t \in Threads, Create(t) PROVE Step
    <3>1. \A h \in DOMAIN entries : entries'[h] = entries[h]
      BY <2>2, CreateEffect
    <3>2. result' = [result EXCEPT ![t] = "ok"] /\ pc' = [pc EXCEPT ![t] = "idle"]
      BY <2>2 DEF Create, Return
    <3>3. QED BY <3>1, <3>2
  <2>3. ASSUME NEW t \in Threads, Remove(t) PROVE Step
    BY <2>3 DEF Remove, Take, Return
  <2>4. ASSUME NEW t \in Threads, CreateFails(t) PROVE Step
    <3>1. UNCHANGED entries /\ Full /\ pc' = [pc EXCEPT ![t] = "idle"]
      BY <2>4 DEF CreateFails, Return
    <3>2. Cardinality(DOMAIN entries) = MaxHandle
      BY <3>1, FullCounts
    <3>3. QED BY <3>1, <3>2
  <2>5. ASSUME NEW t \in Threads, QuietStep(t), ~CreateFails(t) PROVE Step
    <3>1. UNCHANGED entries
      BY <2>5, QuietEffect DEF RegistryUnchanged
    <3>2. pc[t] # "create"
      BY <2>5 DEF QuietStep, Call, Load, LoadFails, SourceFails, CancelSource, FinishSource, RecvResponse, RecvEOF, RemoveFails
    <3>3. \A u \in Threads \ {t} : pc'[u] = pc[u]
      BY <2>5, QuietEffect
    <3>4. QED BY <3>1, <3>2, <3>3
  <2>6. ASSUME NEW s \in Streams, HandlerReturn(s) PROVE Step
    BY <2>6 DEF HandlerReturn, threadVars
  <2>7. QED BY <2>1, <2>2, <2>3, <2>4, <2>5, <2>6 DEF Next, CallStep, QuietStep
<1>2. QED BY <1>1, AlwaysTyped, PTL DEF Spec, FreeOrFull

-----------------------------------------------------------------------------
(***************************************************************************)
(* The loop of allocateLocked.  Its probes are a recursive function, so    *)
(* what they are is proved by induction, over sets of numbers.             *)
(***************************************************************************)
LEMMA LeastNumber ==
  ASSUME NEW T \in SUBSET Nat, T # {}
  PROVE  \E x \in T : \A y \in T : x <= y
<1>1. PICK x \in T : \A y \in T : ~ (<<y, x>> \in OpToRel(<, Nat))
  BY NatLessThanWellFounded, WFMin
<1>2. \A y \in T : ~ (y < x)
  BY <1>1 DEF OpToRel
<1>3. ASSUME NEW y \in T PROVE x <= y
  <2>1. x \in Nat /\ y \in Nat /\ ~ (y < x)
    BY <1>2
  <2>2. QED BY <2>1
<1>4. QED BY <1>3

(* Around the handles, from next on. *)
Around(n) ==
  LET first == Normalize(next)
  IN  IF first + n <= MaxHandle THEN first + n ELSE first + n - MaxHandle

LEMMA AroundSteps ==
  ASSUME TypeOK, NEW n \in 0 .. MaxHandle
  PROVE  /\ Around(n) \in Handles
         /\ Around(0) = Normalize(next)
         /\ n # 0 => Around(n) = Normalize(Increment(Around(n - 1)))
<1>1. Normalize(next) \in 1 .. MaxHandle
  BY IncrementInRange DEF TypeOK, Handles
<1> HIDE DEF Normalize
<1>2. Around(n) \in Handles /\ Around(0) = Normalize(next)
  BY <1>1, HandlesAssumption DEF Around, Handles
<1>3. ASSUME n # 0 PROVE Around(n) = Normalize(Increment(Around(n - 1)))
  <2>1. CASE Normalize(next) + n - 1 = MaxHandle
    <3>1. Around(n - 1) = MaxHandle /\ Around(n) = 1
      BY <1>1, <1>3, <2>1, HandlesAssumption DEF Around
    <3>2. QED BY <3>1, HandlesAssumption DEF Normalize, Increment
  <2>2. CASE Normalize(next) + n - 1 # MaxHandle
    <3>1. Around(n) = Around(n - 1) + 1 /\ Around(n - 1) \in 1 .. MaxHandle - 1
      BY <1>1, <1>3, <2>2, HandlesAssumption DEF Around
    <3>2. QED BY <3>1, HandlesAssumption DEF Normalize, Increment
  <2>3. QED BY <2>1, <2>2
<1>4. QED BY <1>2, <1>3

(* The recursion has a solution, *)
LEMMA ProbedUnfolds ==
  ASSUME TypeOK
  PROVE  Probed = [n \in 0 .. MaxHandle |->
                     IF n = 0 THEN Normalize(next) ELSE Normalize(Increment(Probed[n - 1]))]
<1> DEFINE g == [n \in 0 .. MaxHandle |-> Around(n)]
<1>1. ASSUME NEW n \in 0 .. MaxHandle
      PROVE  g[n] = IF n = 0 THEN Normalize(next) ELSE Normalize(Increment(g[n - 1]))
  <2>1. n # 0 => n - 1 \in 0 .. MaxHandle
    BY HandlesAssumption
  <2>2. QED BY <2>1, AroundSteps
<1>2. g = [n \in 0 .. MaxHandle |->
             IF n = 0 THEN Normalize(next) ELSE Normalize(Increment(g[n - 1]))]
  BY <1>1
<1> HIDE DEF g
<1>3. \E f : f = [n \in 0 .. MaxHandle |->
                    IF n = 0 THEN Normalize(next) ELSE Normalize(Increment(f[n - 1]))]
  BY <1>2
<1>4. QED BY <1>3 DEF Probed

(* and only this one. *)
LEMMA ProbedIsAround ==
  ASSUME TypeOK
  PROVE  \A n \in 0 .. MaxHandle : Probed[n] = Around(n)
<1> DEFINE Wrong == {n \in 0 .. MaxHandle : Probed[n] # Around(n)}
<1>1. SUFFICES ASSUME Wrong # {} PROVE FALSE
  OBVIOUS
<1>2. Wrong \in SUBSET Nat
  BY HandlesAssumption
<1>3. PICK n \in Wrong : \A m \in Wrong : n <= m
  BY <1>1, <1>2, LeastNumber
<1>4. n \in 0 .. MaxHandle /\ Probed[n] # Around(n)
  BY <1>3
<1>5. Probed[n] = IF n = 0 THEN Normalize(next) ELSE Normalize(Increment(Probed[n - 1]))
  BY <1>4, ProbedUnfolds
<1>6. n # 0
  BY <1>4, <1>5, AroundSteps
<1>7. n - 1 \in 0 .. MaxHandle /\ n - 1 < n /\ n \in Nat
  BY <1>4, <1>6, HandlesAssumption
<1>8. n - 1 \notin Wrong
  BY <1>3, <1>7
<1>9. Probed[n - 1] = Around(n - 1)
  BY <1>7, <1>8
<1>10. QED BY <1>4, <1>5, <1>6, <1>9, AroundSteps

(* MaxHandle probes visit every handle once, and those that are visited    *)
(* before h are the ones that Allocated asks about.                        *)
LEMMA AroundVisits ==
  ASSUME TypeOK, NEW h \in Handles
  PROVE  \E n \in 0 .. MaxHandle - 1 :
           /\ Around(n) = h
           /\ \A m \in 0 .. MaxHandle - 1 : m < n <=> Around(m) \in Before(h)
           /\ \A k \in Before(h) : \E m \in 0 .. n - 1 : Around(m) = k
<1> DEFINE first == Normalize(next)
           n == IF first <= h THEN h - first ELSE h - first + MaxHandle
<1>1. first \in 1 .. MaxHandle
  BY IncrementInRange DEF TypeOK, Handles
<1>2. h \in 1 .. MaxHandle
  BY DEF Handles
<1> HIDE DEF first
<1>3. n \in 0 .. MaxHandle - 1 /\ Around(n) = h
  BY <1>1, <1>2, HandlesAssumption DEF Around, first
<1>4. ASSUME NEW m \in 0 .. MaxHandle - 1
      PROVE  m < n <=> Around(m) \in Before(h)
  BY <1>1, <1>2, HandlesAssumption DEF Around, Before, first
<1>5. ASSUME NEW k \in Before(h) PROVE \E m \in 0 .. n - 1 : Around(m) = k
  <2> DEFINE m == IF first <= k THEN k - first ELSE k - first + MaxHandle
  <2>1. m \in 0 .. n - 1 /\ Around(m) = k
    BY <1>1, <1>2, HandlesAssumption DEF Around, Before, first
  <2>2. QED BY <2>1
<1>6. QED BY <1>3, <1>4, <1>5

(* The loop of the code finds the handle that Create takes, and gives up   *)
(* when CreateFails does, for any number of handles and wherever the       *)
(* counter is.                                                             *)
THEOREM ProbeAgreesHolds == Spec => []ProbeAgrees
<1>1. ASSUME TypeOK PROVE ProbeAgrees
  <2> USE <1>1
  <2> DEFINE Steps == 0 .. MaxHandle - 1
  <2>1. Unused = {n \in Steps : Around(n) \notin DOMAIN entries}
    <3>1. Steps \subseteq 0 .. MaxHandle
      BY HandlesAssumption
    <3>2. \A n \in Steps : Probed[n] = Around(n)
      BY <3>1, ProbedIsAround
    <3>3. QED BY <3>2 DEF Unused
  <2>2. CASE Unused = {}
    <3>1. Full
      BY <2>1, <2>2, AroundVisits DEF Full
    <3>2. QED BY <2>2, <3>1 DEF ProbeAgrees, AllocateLocked
  <2>3. CASE Unused # {}
    <3> DEFINE least == CHOOSE n \in Unused : \A m \in Unused : n <= m
    <3>1. Unused \in SUBSET Nat
      BY <2>1, HandlesAssumption
    <3>2. least \in Unused /\ \A m \in Unused : least <= m
      BY <2>3, <3>1, LeastNumber
    <3> HIDE DEF least
    <3>3. least \in Steps /\ Around(least) \notin DOMAIN entries
      BY <2>1, <3>2
    <3>4. AllocateLocked = Around(least)
      <4>1. least \in 0 .. MaxHandle
        BY <3>3, HandlesAssumption
      <4>2. AllocateLocked = Probed[least]
        BY <2>3 DEF AllocateLocked, least
      <4>3. QED BY <4>1, <4>2, ProbedIsAround
    <3>5. Around(least) \in Handles
      <4>1. least \in 0 .. MaxHandle
        BY <3>3, HandlesAssumption
      <4>2. QED BY <4>1, AroundSteps
    <3>6. ASSUME NEW h \in Handles PROVE Allocated(h) <=> h = Around(least)
      <4>1. PICK n \in Steps :
              /\ Around(n) = h
              /\ \A m \in Steps : m < n <=> Around(m) \in Before(h)
              /\ \A k \in Before(h) : \E m \in 0 .. n - 1 : Around(m) = k
        BY AroundVisits
      <4>2. ASSUME h = Around(least) PROVE Allocated(h)
        <5>1. ~(least < n)
          <6>1. Around(least) \notin Before(h)
            BY <4>2 DEF Before, Handles
          <6>2. QED BY <3>3, <4>1, <6>1
        <5>2. \A m \in 0 .. n - 1 : m \in Steps /\ m < least
          BY <3>3, <5>1, HandlesAssumption
        <5>3. \A m \in 0 .. n - 1 : Around(m) \in DOMAIN entries
          BY <2>1, <3>1, <3>2, <5>2
        <5>4. QED BY <3>3, <4>1, <4>2, <5>3 DEF Allocated
      <4>3. ASSUME Allocated(h) PROVE h = Around(least)
        <5>1. n \in Unused
          BY <2>1, <4>1, <4>3 DEF Allocated
        <5>2. ~(least < n)
          BY <3>3, <4>1, <4>3 DEF Allocated
        <5>3. least = n
          BY <3>1, <3>2, <5>1, <5>2
        <5>4. QED BY <4>1, <5>3
      <4>4. QED BY <4>2, <4>3
    <3>7. Around(least) # None
      BY <3>5 DEF Handles, None
    <3>8. QED BY <3>4, <3>5, <3>6, <3>7 DEF ProbeAgrees
  <2>4. QED BY <2>2, <2>3
<1>2. QED BY <1>1, HandleTypesHold, PTL

=============================================================================
